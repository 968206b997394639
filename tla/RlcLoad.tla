------------------------------- MODULE RlcLoad -------------------------------
(***************************************************************************)
(* The driver of an RLC load (io/device/acload/RLCLoad, model RLC_A): a    *)
(* bank of steps per phase and kind (resistive, inductive, capacitive),    *)
(* each with a register for its power, two registers for the totals of all *)
(* phases, and one that loads or unloads the device.                       *)
(*                                                                         *)
(* RLC_a_Preset, called by the control thread of the device                *)
(* (SocketCtrlThread), goes through the registers in a fixed order, takes  *)
(* the command that waits in each, and turns it into two Modbus writes:    *)
(* one connects steps, one disconnects the others.  Neither result is      *)
(* used.  Masters command the registers meanwhile.  Powers are in units of *)
(* 100 W.                                                                  *)
(*                                                                         *)
(* The device is external: a write of the load register of a bank connects *)
(* the steps of its mask, a write of the unload register disconnects those *)
(* of its mask.  A write is tried m_retries times; what matters of the     *)
(* tries is whether one of them reached the device.                        *)
(***************************************************************************)
EXTENDS RealData, Sequences, SequencesExt

CONSTANTS PhaseOrder,  \* the phases, in the order in which Preset visits them
          Power,       \* the values masters write into power registers
          Direct,      \* bound on the banks that masters command one by one
          MaxCommand,  \* bound on the commands of masters
          AtStart      \* steps and coils the device may have when the program starts

KindOrder == <<"R", "L", "C">>
Phase == ToSet(PhaseOrder)
Bank == Phase \X ToSet(KindOrder)

Active == <<"all", "R">>        \* regStart + 71
Reactive == <<"all", "Q">>      \* regStart + 72
Switch == <<"all", "switch">>   \* regStart + 80
Reg == Bank \cup {Active, Reactive, Switch}

(* The steps of a bank: the masks prefix and res_prefix.                   *)
Step(b) == IF b[2] = "R" THEN 0 .. 6 ELSE 0 .. 4
Steps == {s \in [Bank -> SUBSET (0 .. 6)] : \A b \in Bank : s[b] \subseteq Step(b)}

(* Registers 120 and 220 of the device.                                    *)
Coils == {"load", "unload"}

ASSUME RlcLoadAssumption ==
    /\ PhaseOrder \in Seq(Phase) /\ "all" \notin Phase
    /\ Power \subseteq Int /\ Direct \subseteq Bank
    /\ MaxCommand \in Nat
    /\ \A d \in AtStart : /\ d.steps \in Steps
                          /\ d.coil \in [Coils -> BOOLEAN] /\ ~(d.coil["load"] /\ d.coil["unload"])

(* The registers in the order of RLC_a_Preset.                             *)
BankOrder == [i \in 1 .. 3 * Len(PhaseOrder) |->
                 <<PhaseOrder[((i - 1) \div 3) + 1], KindOrder[((i - 1) % 3) + 1]>>]
Order == <<Active, Reactive>> \o BankOrder \o <<Switch>>

(* RLC_a_Read: the power of each step, and what those connected add up to. *)
PowerOf(bits) ==
    LET Of(bit, power) == IF bit \in bits THEN power ELSE 0
    IN  Of(0, 1) + Of(1, 2) + Of(2, 3) + Of(3, 4) + Of(4, 10) + Of(5, 20) + Of(6, 30)

(* The bound that phases B and C have before a power becomes steps.        *)
MaxSet(kind) == IF kind = "R" THEN 7000 ELSE 2000
Bounded(b, power) ==
    IF b[1] # Head(PhaseOrder) /\ power > MaxSet(b[2]) THEN MaxSet(b[2]) ELSE power

(* GetActivePowerCmd and GetReactivePowerCmd: three of the steps, those of *)
(* 4, 2 and 1 units, are connected for a power, and no other ever is.      *)
Bit(bit, isSet) == IF isSet THEN {bit} ELSE {}

PowerCmd_Strict(power) ==  \* mutant: > for >=
    LET after4 == IF power > 4 THEN power - 4 ELSE power
        after2 == IF after4 > 2 THEN after4 - 2 ELSE after4
    IN  Bit(3, power > 4) \cup Bit(1, after4 > 2) \cup Bit(0, after2 > 1)

PowerCmd(power) ==
    LET after4 == IF power >= 4 THEN power - 4 ELSE power
        after2 == IF after4 >= 2 THEN after4 - 2 ELSE after4
    IN  Bit(3, power >= 4) \cup Bit(1, after4 >= 2) \cup Bit(0, after2 >= 1)

VARIABLES cell,       \* the registers in the bank of the program
          next,       \* the position of Preset in Order; 0 between two calls
          writes,     \* the writes it still has to make for the command it took
          steps,      \* the device: the steps connected in each bank
          coil,       \* the device: its coils
          issued,     \* number of commands of masters so far
          totals,     \* history: the totals last taken
          commanded,  \* history: the power last taken from each bank's register
          faulty,     \* history: banks whose last command, if any, did not get through whole
          direct      \* history: banks that a master commanded by themselves

vars == <<cell, next, writes, steps, coil, issued, totals, commanded, faulty, direct>>

Write == [reg : Bank \cup {Switch}, op : Coils, mask : SUBSET (0 .. 6)]

Cell == [value : Int, type : DataType, writed : BOOLEAN, writed_num : 0 .. WRITED_NUM]
Data(value, writed) == [value |-> value, type |-> "INT", writed |-> writed]

Init ==
    /\ cell = [r \in Reg |-> [value |-> 0, type |-> "INT", writed |-> FALSE, writed_num |-> 0]]
    /\ next = 0
    /\ writes = <<>>
    /\ \E d \in AtStart : steps = d.steps /\ coil = d.coil
    /\ issued = 0
    /\ totals = [t \in {Active, Reactive} |-> 0]
    /\ commanded = [b \in Bank |-> 0]
    /\ faulty = Bank /\ direct = {}

-----------------------------------------------------------------------------
(* SetRealData(reg, value, true) of a master's service thread.             *)
Command(r) ==
    /\ issued < MaxCommand
    /\ issued' = issued + 1
    /\ \E v \in IF r = Switch THEN {0, 1} ELSE Power :
          cell' = [cell EXCEPT ![r] = Stored(@, Data(v, TRUE))]
    /\ direct' = IF r \in Bank THEN direct \cup {r} ELSE direct
    /\ UNCHANGED <<next, writes, steps, coil, totals, commanded, faulty>>

-----------------------------------------------------------------------------
(* RLC_a_Preset.  A call that finds the connection closed changes nothing  *)
(* and is not a step; a connection lost later makes the writes fail.       *)
BeginPreset ==
    /\ next = 0
    /\ next' = 1
    /\ UNCHANGED <<cell, writes, steps, coil, issued, totals, commanded, faulty, direct>>

Current == Order[next]
Visiting == next # 0 /\ writes = <<>>
Following_NoWrap == next + 1  \* mutant: the call does not end
Following == IF next = Len(Order) THEN 0 ELSE next + 1

Skip ==
    /\ Visiting /\ ~cell[Current].writed
    /\ next' = Following
    /\ UNCHANGED <<cell, writes, steps, coil, issued, totals, commanded, faulty, direct>>

Taken == [cell EXCEPT ![Current] = ClearWrited(@)]

(* A total becomes a command of every phase.  A reactive total is          *)
(* inductive or, when it is negative, capacitive; the other kind gets 0.   *)
Share_Magnitude(kind, total) ==  \* mutant: both kinds get the magnitude
    IF kind = "R" \/ total > 0 THEN total ELSE -total

Share(kind, total) ==
    CASE kind = "R" -> total
      [] kind = "L" -> IF total > 0 THEN total ELSE 0
      [] kind = "C" -> IF total > 0 THEN 0 ELSE -total

(* The stores of a total are one action: no other thread takes a command   *)
(* of these registers, and one that a master stores among them is replaced *)
(* or replaces, as it is before or after all of them.                      *)
TakeTotal(kinds) ==
    cell' = [r \in Reg |-> IF r \in Bank /\ r[2] \in kinds
                           THEN Stored(Taken[r], Data(Share(r[2], cell[Current].value), TRUE))
                           ELSE Taken[r]]

TakeActive ==
    /\ Visiting /\ Current = Active /\ cell[Active].writed
    /\ TakeTotal({"R"})
    /\ totals' = [totals EXCEPT ![Active] = cell[Active].value]
    /\ next' = Following
    /\ UNCHANGED <<writes, steps, coil, issued, commanded, faulty, direct>>

TakeReactive_Again ==  \* mutant: the second register of the fan-out is +72 itself
    /\ Visiting /\ Current = Reactive /\ cell[Reactive].writed
    /\ cell' = [cell EXCEPT ![Reactive] = Stored(@, Data(@.value, TRUE))]
    /\ next' = Following
    /\ UNCHANGED <<writes, steps, coil, issued, totals, commanded, faulty, direct>>

TakeReactive ==
    /\ Visiting /\ Current = Reactive /\ cell[Reactive].writed
    /\ TakeTotal({"L", "C"})
    /\ totals' = [totals EXCEPT ![Reactive] = cell[Reactive].value]
    /\ next' = Following
    /\ UNCHANGED <<writes, steps, coil, issued, commanded, faulty, direct>>

(* A bank: connect the steps of the command, disconnect the others.        *)
TakeBank ==
    /\ Visiting /\ Current \in Bank /\ cell[Current].writed
    /\ LET mask == PowerCmd(Bounded(Current, cell[Current].value)) IN
         writes' = << [reg |-> Current, op |-> "load", mask |-> mask],
                      [reg |-> Current, op |-> "unload", mask |-> Step(Current) \ mask] >>
    /\ cell' = Taken
    /\ commanded' = [commanded EXCEPT ![Current] = cell[Current].value]
    /\ faulty' = faulty \ {Current}
    /\ UNCHANGED <<next, steps, coil, issued, totals, direct>>

(* The switch: release one coil, set the other.  Unloading also stores 0   *)
(* in the registers of all banks, as a measurement: not in one where a     *)
(* command waits.                                                          *)
On == {0}
TakeSwitch_Order ==  \* mutant: set before release
    /\ Visiting /\ Current = Switch /\ cell[Switch].writed
    /\ LET load == cell[Switch].value = 1
           Coil(c) == [reg |-> Switch, op |-> c, mask |-> IF load = (c = "load") THEN On ELSE {}]
       IN  /\ writes' = IF load THEN <<Coil("load"), Coil("unload")>>
                                ELSE <<Coil("unload"), Coil("load")>>
           /\ cell' = [r \in Reg |-> IF r \in Bank /\ ~load THEN Stored(cell[r], Data(0, FALSE))
                                     ELSE Taken[r]]
    /\ faulty' = faulty \ {Switch}
    /\ UNCHANGED <<next, steps, coil, issued, totals, commanded, direct>>

TakeSwitch ==
    /\ Visiting /\ Current = Switch /\ cell[Switch].writed
    /\ LET load == cell[Switch].value = 1
           Coil(c) == [reg |-> Switch, op |-> c, mask |-> IF load = (c = "load") THEN On ELSE {}]
       IN  /\ writes' = IF load THEN <<Coil("unload"), Coil("load")>>
                                ELSE <<Coil("load"), Coil("unload")>>
           /\ cell' = [r \in Reg |-> IF r \in Bank /\ ~load THEN Stored(cell[r], Data(0, FALSE))
                                     ELSE Taken[r]]
    /\ faulty' = faulty \ {Switch}
    /\ UNCHANGED <<next, steps, coil, issued, totals, commanded, direct>>

(* ModbusRtuMaster::PresetSingleRegister: at most m_retries tries.  The    *)
(* device may carry out a write whose echo is lost.                        *)
PresetSingleRegister(w, reached) ==
    /\ steps' = IF ~reached \/ w.reg = Switch THEN steps
                ELSE [steps EXCEPT ![w.reg] = IF w.op = "load" THEN @ \cup w.mask
                                              ELSE @ \ w.mask]
    /\ coil' = IF reached /\ w.reg = Switch THEN [coil EXCEPT ![w.op] = w.mask = On] ELSE coil

MakeWrite ==
    /\ writes # <<>>
    /\ \E reached \in BOOLEAN :
          /\ PresetSingleRegister(Head(writes), reached)
          /\ faulty' = IF reached THEN faulty ELSE faulty \cup {Current}
    /\ writes' = Tail(writes)
    /\ next' = IF writes' = <<>> THEN Following ELSE next
    /\ UNCHANGED <<cell, issued, totals, commanded, direct>>

Preset == BeginPreset \/ Skip \/ TakeActive \/ TakeReactive \/ TakeBank \/ TakeSwitch \/ MakeWrite

Next == Preset \/ \E r \in {Active, Reactive, Switch} \cup Direct : Command(r)

(* The control thread runs until it is stopped, and its connection is made *)
(* again by the acquisition thread.                                        *)
Spec == Init /\ [][Next]_vars /\ WF_vars(Preset)

-----------------------------------------------------------------------------
TypeOK ==
    /\ cell \in [Reg -> Cell]
    /\ next \in 0 .. Len(Order)
    /\ writes \in Seq(Write) /\ (writes # <<>> => next # 0 /\ Head(writes).reg = Current)
    /\ steps \in Steps
    /\ coil \in [Coils -> BOOLEAN]
    /\ issued \in 0 .. MaxCommand
    /\ totals \in [{Active, Reactive} -> Int] /\ commanded \in [Bank -> Int]
    /\ faulty \subseteq Bank \cup {Switch} /\ direct \subseteq Bank

(* A bank that Preset is not writing to.                                   *)
Settled(b) == writes = <<>> \/ Current # b

(* The three steps that Preset connects have 7 units.                      *)
Within(power) == CASE power < 0 -> 0 [] power > 7 -> 7 [] OTHER -> power

(* RLCLoad.cpp:1243, "load the selected steps", and 1245, "unload the      *)
(* selected steps": once both writes of the last command got through, the  *)
(* steps connected have the power commanded, or 7 units when it is more,   *)
(* whatever was connected when the program started or was left connected   *)
(* by an earlier command that failed half-way.                             *)
SettledIsCommanded ==
    \A b \in Bank : Settled(b) /\ b \notin faulty => PowerOf(steps[b]) = Within(commanded[b])

(* The same for every power that the steps of the bank can make up: 2000 W *)
(* of the reactive banks and 7000 W of the resistive, the bounds that      *)
(* 1283 and 1298 put on a command.  Not true of this code: README,         *)
(* Behaviour that falls short.                                             *)
SettledUpToCapacity ==
    \A b \in Bank :
        Settled(b) /\ b \notin faulty /\ commanded[b] \in 0 .. PowerOf(Step(b)) =>
            PowerOf(steps[b]) = commanded[b]

(* RLC_a_Preset (1184-1221): a total is shared by all phases.  Between two *)
(* calls of Preset every phase has the last total connected, of which the  *)
(* reactive part is inductive or capacitive and never both, unless a       *)
(* master commanded a bank by itself or a write failed.                    *)
Wanted(b) ==
    CASE b[2] = "R" -> totals[Active]
      [] b[2] = "L" -> totals[Reactive]
      [] b[2] = "C" -> -totals[Reactive]

TotalsReachAllPhases ==
    next = 0 =>
        \A b \in Bank \ (faulty \cup direct) : PowerOf(steps[b]) = Within(Wanted(b))

(* RLC_a_Preset releases one coil before it sets the other (1375, 1392; of *)
(* its sister device 1436 says "interlocked, may not be given together"):  *)
(* the device has both coils set only when a write of the last switching   *)
(* failed, until the next one releases a coil.                             *)
BeforeSwitching == Len(writes) = 2 /\ Current = Switch
Interlocked ==
    coil["load"] /\ coil["unload"] => Switch \in faulty \/ BeforeSwitching

(* SocketCtrlThread calls Preset again and again: once the masters are     *)
(* silent no command waits in any register, those a total was shared to    *)
(* included (with the connection open again and again).                    *)
Waiting == \E r \in Reg : cell[r].writed
CommandsAreServed == Waiting ~> ~Waiting
==============================================================================
