-------------------------------- MODULE MemDb --------------------------------
(***************************************************************************)
(* The real-time register bank (db/MemDb): every other component meets     *)
(* here.  Masters command a register (Modbus TCP service threads, the      *)
(* station's ControlServer), acquisition threads store measurements in it, *)
(* control threads take the commands that wait in it.                      *)
(*                                                                         *)
(* Every critical section of m_mutexRealData is one action.  An operation  *)
(* that takes the lock twice (SetRealDataUnknown) is two actions, and any  *)
(* other thread may run between them.                                      *)
(*                                                                         *)
(* Data: the bank tells commands and measurements apart, not their values, *)
(* so a cell's value is the number of the command it holds, in the order   *)
(* in which the commands were stored, or Measured.  The fields addr, now,  *)
(* data_last and readed are never read by the program and are left out.    *)
(***************************************************************************)
EXTENDS RealData, Sequences

CONSTANTS Addr,        \* registers that pass CheckAddr; other addresses change nothing
          Service,     \* threads that call SetRealDataUnknown
          SensorType,  \* the type in which a register's driver stores it
          MaxCommand   \* bound on the commands issued

ASSUME MemDbAssumption ==
    /\ MaxCommand \in Nat
    /\ SensorType \in [Addr -> DataType]

Measured == 0
Idle == [type |-> "none"]

VARIABLES cell,     \* m_realData
          request,  \* what each service thread read in its first critical section
          issued,   \* number of commands stored so far
          taken     \* history: the commands taken from each register

vars == <<cell, request, issued, taken>>

Cell == [value : Nat, type : DataType, writed : BOOLEAN, writed_num : 0 .. WRITED_NUM]

SetRealData(a, data) == cell' = [cell EXCEPT ![a] = Stored(@, data)]

(* A command: writed = true.                                               *)
StoreCommand(a, type) ==
    /\ issued < MaxCommand
    /\ issued' = issued + 1
    /\ SetRealData(a, [value |-> issued + 1, type |-> type, writed |-> TRUE])

-----------------------------------------------------------------------------
(* OpenMem leaves every register INT; Device::InitMemDb gives some of them *)
(* their type before any thread starts.                                    *)
Init ==
    /\ \E type \in [Addr -> DataType] :
          /\ \A a \in Addr : type[a] \in {"INT", SensorType[a]}
          /\ cell = [a \in Addr |-> [value |-> Measured, type |-> type[a],
                                     writed |-> FALSE, writed_num |-> 0]]
    /\ request = [s \in Service |-> Idle]
    /\ issued = 0
    /\ taken = [a \in Addr |-> <<>>]

(* ControlServer::SaveCtrlData: the type is the one the frame carries.     *)
SaveCtrlData(a, type) ==
    /\ StoreCommand(a, type)
    /\ UNCHANGED <<request, taken>>

(* SetRealDataUnknown, first critical section: the register's type.        *)
ReadType(s, a) ==
    /\ request[s] = Idle
    /\ request' = [request EXCEPT ![s] = [addr |-> a, type |-> cell[a].type]]
    /\ UNCHANGED <<cell, issued, taken>>

(* SetRealDataUnknown, second critical section: store in that type.        *)
SetRealDataUnknown(s) ==
    /\ request[s] # Idle
    /\ StoreCommand(request[s].addr, request[s].type)
    /\ request' = [request EXCEPT ![s] = Idle]
    /\ UNCHANGED taken

(* A driver's Read, or UploadServer::RecvInfo: SetRealData(.., false).     *)
Measure(a) ==
    /\ SetRealData(a, [value |-> Measured, type |-> SensorType[a], writed |-> FALSE])
    /\ UNCHANGED <<request, issued, taken>>

(* A driver's Preset, or ControlClient::GetControlData:                    *)
(* GetRealDataWrited(data, addr, true).                                    *)
GetRealDataWrited(a) ==
    /\ cell[a].writed
    /\ cell' = [cell EXCEPT ![a] = ClearWrited(@)]
    /\ taken' = [taken EXCEPT ![a] = Append(@, cell[a].value)]
    /\ UNCHANGED <<request, issued>>

Next ==
    \/ \E a \in Addr : \/ \E type \in DataType : SaveCtrlData(a, type)
                       \/ \E s \in Service : ReadType(s, a)
                       \/ Measure(a)
                       \/ GetRealDataWrited(a)
    \/ \E s \in Service : SetRealDataUnknown(s)

Spec == Init /\ [][Next]_vars

-----------------------------------------------------------------------------
TypeOK ==
    /\ cell \in [Addr -> Cell]
    /\ request \in [Service -> {Idle} \cup [addr : Addr, type : DataType]]
    /\ issued \in 0 .. MaxCommand
    /\ taken \in [Addr -> Seq(1 .. MaxCommand)]

(* Whatever the control thread takes from a register, by                   *)
(* GetRealDataWrited with clear, is a command, never the same one twice    *)
(* and never an older one after a newer one, however masters and           *)
(* acquisition threads interleave.                                         *)
TakenOnceInOrder ==
    \A a \in Addr : \A i, j \in 1 .. Len(taken[a]) : i < j => taken[a][i] < taken[a][j]

(* The waiting command of a register is newer than all it has delivered:   *)
(* the fact that makes TakenOnceInOrder inductive.                         *)
WaitingIsNewest ==
    \A a \in Addr :
        /\ \A i \in 1 .. Len(taken[a]) : taken[a][i] <= issued
        /\ cell[a].writed => /\ cell[a].value \in 1 .. issued
                             /\ \A i \in 1 .. Len(taken[a]) : taken[a][i] < cell[a].value

IInv == TypeOK /\ TakenOnceInOrder /\ WaitingIsNewest

(* A waiting command leaves its register only by being taken, by a newer   *)
(* command, or by the measurement that follows WRITED_NUM withheld ones:   *)
(* the bank implements a CommandSlot per register.                         *)
Waiting(c) == IF c.writed THEN c.value ELSE Measured
Outlived(c) == IF c.writed THEN c.writed_num ELSE 0

Slot == INSTANCE CommandSlot WITH
            Patience <- WRITED_NUM,
            waiting  <- [a \in Addr |-> Waiting(cell[a])],
            outlived <- [a \in Addr |-> Outlived(cell[a])],
            last     <- issued

SlotSpec == Slot!Spec

(* MemDb.h:122 on SetRealDataUnknown: "save according to the type already  *)
(* saved".  A Modbus command never changes the type of its register.       *)
(* It does not hold: README, Behaviour that falls short.                   *)
UnknownKeepsType ==
    [][\A s \in Service : SetRealDataUnknown(s) =>
            cell'[request[s].addr].type = cell[request[s].addr].type]_vars
==============================================================================
