----------------------------- MODULE CommandSlot -----------------------------
(***************************************************************************)
(* What a register promises to the station: a one-place slot per register  *)
(* between the masters that command it and the control thread that carries *)
(* the command to the device.  A new command replaces a waiting one, a     *)
(* waiting command is taken once, and it outlives at least Patience        *)
(* measurements of the same register before a measurement may evict it.    *)
(***************************************************************************)
EXTENDS Integers, Sequences

CONSTANTS Addr,      \* the registers
          Patience   \* measurements a waiting command outlives

NoCommand == 0       \* commands are numbered from 1 in the order of issue

VARIABLES waiting,   \* the command waiting in each register, or NoCommand
          outlived,  \* measurements it has outlived
          taken,     \* the commands taken from each register, in order
          last       \* the number of the latest command

slotVars == <<waiting, outlived, taken, last>>

Init == /\ waiting = [a \in Addr |-> NoCommand]
        /\ outlived = [a \in Addr |-> 0]
        /\ taken = [a \in Addr |-> <<>>]
        /\ last = 0

Put(a) == /\ last' = last + 1
          /\ waiting' = [waiting EXCEPT ![a] = last']
          /\ outlived' = [outlived EXCEPT ![a] = 0]
          /\ UNCHANGED taken

Outlive(a) == /\ waiting[a] # NoCommand
              /\ outlived[a] < Patience
              /\ outlived' = [outlived EXCEPT ![a] = @ + 1]
              /\ UNCHANGED <<waiting, taken, last>>

Evict(a) == /\ waiting[a] # NoCommand
            /\ outlived[a] = Patience
            /\ waiting' = [waiting EXCEPT ![a] = NoCommand]
            /\ outlived' = [outlived EXCEPT ![a] = 0]
            /\ UNCHANGED <<taken, last>>

Take(a) == /\ waiting[a] # NoCommand
           /\ taken' = [taken EXCEPT ![a] = Append(@, waiting[a])]
           /\ waiting' = [waiting EXCEPT ![a] = NoCommand]
           /\ outlived' = [outlived EXCEPT ![a] = 0]
           /\ UNCHANGED last

Next == \E a \in Addr : Put(a) \/ Outlive(a) \/ Evict(a) \/ Take(a)

Spec == Init /\ [][Next]_slotVars
==============================================================================
