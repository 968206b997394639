----------------------------- MODULE DriverProofs -----------------------------
(***************************************************************************)
(* Theorems of the drivers.  RlcLoad: the steps connected have the power   *)
(* commanded, the totals reach all phases and the coils are interlocked,   *)
(* for any phases, commands and failures.  EcmPcs: a command changes its   *)
(* bit only and a write reported as done is in the converter, for any      *)
(* converters, commands and faults.                                        *)
(***************************************************************************)
EXTENDS RlcLoad, EcmPcs, SequenceTheorems, TLAPS

(* The writes of a bank that are still to be made: both, or the second one *)
(* after a first one that reached the device or made the bank faulty.      *)
Cmd(b, power) == PowerCmd(Bounded(b, power))
Load(b, mask) == [reg |-> b, op |-> "load", mask |-> mask]
Unload(b, mask) == [reg |-> b, op |-> "unload", mask |-> Step(b) \ mask]
BankWrites(b, mask) ==
    \/ writes = <<Load(b, mask), Unload(b, mask)>>
    \/ writes = <<Unload(b, mask)>> /\ (b \in faulty \/ mask \subseteq steps[b])

(* Those of the switch: release coil x, set coil y.                        *)
Release(x) == [reg |-> Switch, op |-> x, mask |-> {}]
Set(y) == [reg |-> Switch, op |-> y, mask |-> On]
SwitchWrites(x, y) ==
    \/ writes = <<Release(x), Set(y)>>
    \/ writes = <<Set(y)>> /\ (Switch \in faulty \/ ~coil[x])

WritesOfCommand ==
    \/ writes = <<>>
    \/ Current \in Bank /\ BankWrites(Current, Cmd(Current, commanded[Current]))
    \/ Current = Switch /\ (SwitchWrites("load", "unload") \/ SwitchWrites("unload", "load"))

StepsOfCommand ==
    \A b \in Bank : Settled(b) /\ b \notin faulty => steps[b] = Cmd(b, commanded[b])

IInv == TypeOK /\ WritesOfCommand /\ StepsOfCommand /\ Interlocked

-----------------------------------------------------------------------------
(* The steps of a power are steps of the bank and have that power, or all  *)
(* that the steps that are ever connected can do.                          *)
LEMMA PowerOfCmd ==
    ASSUME NEW b, NEW p \in Int
    PROVE  Cmd(b, p) \subseteq Step(b) /\ PowerOf(Cmd(b, p)) = Within(p)
  <1> DEFINE q == Bounded(b, p)
  <1>1. q \in Int /\ Within(q) = Within(p)
    BY DEF Bounded, MaxSet, Within
  <1> HIDE DEF q
  <1>2. PowerCmd(q) \subseteq {0, 1, 3}
    BY DEF PowerCmd, Bit
  <1>3. PowerCmd(q) \subseteq Step(b)
    BY <1>2 DEF Step
  <1> DEFINE C == PowerCmd(q)
             a == IF q >= 4 THEN q - 4 ELSE q
             r == IF a >= 2 THEN a - 2 ELSE a
  <1>4. C = Bit(3, q >= 4) \cup Bit(1, a >= 2) \cup Bit(0, r >= 1)
    BY DEF PowerCmd
  <1>5. /\ 3 \in C <=> q >= 4
        /\ 1 \in C <=> a >= 2
        /\ 0 \in C <=> r >= 1
    <2> HIDE DEF C, a, r
    <2>1. QED
      BY <1>4 DEF Bit
  <1>6. 2 \notin C /\ 4 \notin C /\ 5 \notin C /\ 6 \notin C
    BY <1>2
  <1>7. PowerOf(C) = (IF r >= 1 THEN 1 ELSE 0) + (IF a >= 2 THEN 2 ELSE 0)
                         + (IF q >= 4 THEN 4 ELSE 0)
    <2> HIDE DEF C, a, r
    <2>1. QED
      BY <1>5, <1>6 DEF PowerOf
  <1>8. PowerOf(PowerCmd(q)) = Within(q)
    <2>1. PowerOf(PowerCmd(q)) = (IF r >= 1 THEN 1 ELSE 0) + (IF a >= 2 THEN 2 ELSE 0)
                                     + (IF q >= 4 THEN 4 ELSE 0)
      BY <1>7
    <2> HIDE DEF C
    <2>2. QED
      BY <1>1, <2>1 DEF Within
  <1>9. QED
    BY <1>1, <1>3, <1>8 DEF Cmd, q

(* A register stays a register.                                            *)
LEMMA ClearedType == ASSUME NEW c \in Cell PROVE ClearWrited(c) \in Cell
  BY DEF ClearWrited, Cell

LEMMA StoredType ==
    ASSUME NEW c \in Cell, NEW v \in Int, NEW w \in BOOLEAN
    PROVE  Stored(c, Data(v, w)) \in Cell
  <1>1. CASE Withholds(c, Data(v, w))
    <2>1. c.writed_num + 1 \in 0 .. WRITED_NUM
      BY <1>1, RealDataAssumption DEF Withholds, Cell
    <2>2. QED
      BY <1>1, <2>1 DEF Stored, Cell
  <1>2. CASE ~Withholds(c, Data(v, w))
    BY <1>2, RealDataAssumption DEF Stored, Data, Cell, DataType
  <1>3. QED
    BY <1>1, <1>2

(* Two writes to make, and what is left of them.                           *)
LEMMA Pair ==
    ASSUME NEW S, NEW a \in S, NEW b \in S
    PROVE  /\ <<a, b>> \in Seq(S) /\ Head(<<a, b>>) = a /\ Tail(<<a, b>>) = <<b>>
           /\ Len(<<a, b>>) = 2
           /\ <<b>> \in Seq(S) /\ Head(<<b>>) = b /\ Tail(<<b>>) = <<>>
           /\ <<>> \in Seq(S) /\ <<a, b>> # <<>> /\ <<b>> # <<>>
  OBVIOUS

LEMMA ShareType ==
    ASSUME NEW kind \in {"R", "L", "C"}, NEW total \in Int
    PROVE  Share(kind, total) \in Int
  BY DEF Share

LEMMA Registers ==
    /\ Active \in Reg /\ Reactive \in Reg /\ Switch \in Reg /\ Bank \subseteq Reg
    /\ Switch \notin Bank
    /\ \A b \in Bank : b[2] \in {"R", "L", "C"}
  <1>1. ToSet(KindOrder) = {"R", "L", "C"}
    <2>1. DOMAIN KindOrder = {1, 2, 3}
      BY DEF KindOrder
    <2>2. KindOrder[1] = "R" /\ KindOrder[2] = "L" /\ KindOrder[3] = "C"
      BY DEF KindOrder
    <2>3. QED
      BY <2>1, <2>2 DEF ToSet
  <1>2. \A b \in Bank : b[2] \in {"R", "L", "C"}
    BY <1>1 DEF Bank
  <1>3. Switch[2] = "switch"
    BY DEF Switch
  <1>4. Switch \notin Bank
    BY <1>2, <1>3
  <1>5. QED
    BY <1>2, <1>4 DEF Reg

LEMMA OrderLength == Len(Order) \in Nat \ {0}
  BY RlcLoadAssumption DEF Order, BankOrder

(* The position of Preset moves within its order.                          *)
LEMMA FollowingType == ASSUME TypeOK PROVE Following \in 0 .. Len(Order)
  BY OrderLength DEF TypeOK, Following

-----------------------------------------------------------------------------
LEMMA InitInv == Init => IInv
  <1> SUFFICES ASSUME Init PROVE IInv
    OBVIOUS
  <1>1. TypeOK
    <2>1. cell \in [Reg -> Cell] /\ next \in 0 .. Len(Order) /\ writes = <<>> /\ writes \in Seq(Write)
      BY OrderLength, RealDataAssumption DEF Init, Cell, DataType
    <2>2. steps \in Steps /\ coil \in [Coils -> BOOLEAN]
      BY RlcLoadAssumption DEF Init
    <2>3. QED
      BY <2>1, <2>2, RlcLoadAssumption DEF Init, TypeOK
  <1>2. WritesOfCommand /\ Interlocked
    BY RlcLoadAssumption DEF Init, WritesOfCommand, Interlocked
  <1>3. QED
    BY <1>1, <1>2 DEF Init, IInv, StepsOfCommand

-----------------------------------------------------------------------------
(* Every action keeps the types.                                           *)
LEMMA TakenType == ASSUME TypeOK, Current \in Reg PROVE Taken \in [Reg -> Cell]
  <1>1. ClearWrited(cell[Current]) \in Cell
    BY ClearedType DEF TypeOK
  <1>2. QED
    BY <1>1 DEF Taken, TypeOK

LEMMA TotalType ==
    ASSUME TypeOK, Current \in Reg, NEW kinds, TakeTotal(kinds)
    PROVE  cell' \in [Reg -> Cell]
  <1>1. ASSUME NEW r \in Bank
        PROVE  Stored(Taken[r], Data(Share(r[2], cell[Current].value), TRUE)) \in Cell
    <2>1. Share(r[2], cell[Current].value) \in Int
      BY ShareType, Registers DEF TypeOK, Cell
    <2>2. Taken[r] \in Cell
      BY TakenType, Registers
    <2>3. QED
      BY <2>1, <2>2, StoredType
  <1>2. \A r \in Reg : Taken[r] \in Cell
    BY TakenType
  <1>3. QED
    BY <1>1, <1>2 DEF TakeTotal

LEMMA TypeStep == TypeOK /\ WritesOfCommand /\ [Next]_vars => TypeOK'
  <1> SUFFICES ASSUME TypeOK, WritesOfCommand, [Next]_vars PROVE TypeOK'
    OBVIOUS
  <1>f. Following \in 0 .. Len(Order)
    BY FollowingType
  <1>1. ASSUME NEW r \in {Active, Reactive, Switch} \cup Direct, Command(r) PROVE TypeOK'
    <2>1. r \in Reg
      BY Registers, RlcLoadAssumption
    <2>2. PICK v \in IF r = Switch THEN {0, 1} ELSE Power :
                  cell' = [cell EXCEPT ![r] = Stored(@, Data(v, TRUE))]
      BY <1>1 DEF Command
    <2>v. v \in Int /\ cell[r] \in Cell
      BY <2>1, RlcLoadAssumption DEF TypeOK
    <2>s. Stored(cell[r], Data(v, TRUE)) \in Cell
      BY <2>v, StoredType
    <2>3. cell' \in [Reg -> Cell]
      BY <2>1, <2>2, <2>s DEF TypeOK
    <2>4. issued' \in 0 .. MaxCommand /\ direct' \subseteq Bank
      BY <1>1, RlcLoadAssumption DEF Command, TypeOK
    <2>5. Current' = Current
      BY <1>1 DEF Command, Current
    <2>6. QED
      BY <1>1, <2>3, <2>4, <2>5 DEF Command, TypeOK
  <1>2. CASE BeginPreset
    <2>1. writes' = <<>> /\ next' \in 0 .. Len(Order)
      BY <1>2, OrderLength DEF BeginPreset, TypeOK
    <2>2. QED
      BY <1>2, <2>1 DEF BeginPreset, TypeOK
  <1>3. CASE Skip
    BY <1>3, <1>f DEF Skip, Visiting, TypeOK
  <1>4. CASE TakeActive
    <2>1. cell' \in [Reg -> Cell]
      BY <1>4, TotalType, Registers DEF TakeActive
    <2>2. totals' \in [{Active, Reactive} -> Int]
      BY <1>4, Registers DEF TakeActive, TypeOK, Cell
    <2>3. QED
      BY <1>4, <1>f, <2>1, <2>2 DEF TakeActive, Visiting, TypeOK
  <1>5. CASE TakeReactive
    <2>1. cell' \in [Reg -> Cell]
      BY <1>5, TotalType, Registers DEF TakeReactive
    <2>2. totals' \in [{Active, Reactive} -> Int]
      BY <1>5, Registers DEF TakeReactive, TypeOK, Cell
    <2>3. QED
      BY <1>5, <1>f, <2>1, <2>2 DEF TakeReactive, Visiting, TypeOK
  <1>6. CASE TakeBank
    <2>1. cell' \in [Reg -> Cell]
      BY <1>6, TakenType, Registers DEF TakeBank
    <2>2. cell[Current].value \in Int /\ Current \in Bank
      BY <1>6, Registers DEF TakeBank, TypeOK, Cell
    <2>3. commanded' \in [Bank -> Int] /\ faulty' \subseteq Bank \cup {Switch}
      BY <1>6, <2>2 DEF TakeBank, TypeOK
    <2> DEFINE mask == Cmd(Current, cell[Current].value)
    <2>4. mask \in SUBSET (0 .. 6)
      BY <2>2, PowerOfCmd DEF Step
    <2>5. writes' = <<Load(Current, mask), Unload(Current, mask)>>
      BY <1>6 DEF TakeBank, Load, Unload, Cmd
    <2> HIDE DEF mask
    <2>6. Load(Current, mask) \in Write /\ Unload(Current, mask) \in Write
      BY <2>2, <2>4 DEF Load, Unload, Write, Coils, Step
    <2>7. writes' \in Seq(Write) /\ Head(writes') = Load(Current, mask)
      BY <2>5, <2>6, Pair
    <2>h. Head(writes').reg = Current /\ next' = next /\ next # 0
      BY <1>6, <2>7 DEF TakeBank, Visiting, Load
    <2>8. QED
      BY <1>6, <2>1, <2>3, <2>7, <2>h DEF TakeBank, TypeOK, Current
  <1>7. CASE TakeSwitch
    <2>1. cell' \in [Reg -> Cell]
      <3>1. Taken \in [Reg -> Cell]
        BY <1>7, TakenType, Registers DEF TakeSwitch
      <3>2. \A r \in Reg : Stored(cell[r], Data(0, FALSE)) \in Cell
        <4>1. ASSUME NEW r \in Reg PROVE Stored(cell[r], Data(0, FALSE)) \in Cell
          <5>1. cell[r] \in Cell /\ 0 \in Int
            BY DEF TypeOK
          <5>2. QED
            BY <5>1, StoredType
        <4>2. QED
          BY <4>1
      <3>3. QED
        BY <1>7, <3>1, <3>2 DEF TakeSwitch
    <2>2. \/ writes' = <<Release("load"), Set("unload")>>
          \/ writes' = <<Release("unload"), Set("load")>>
      BY <1>7 DEF TakeSwitch, Release, Set
    <2>3. \A c \in {"load", "unload"} : Release(c) \in Write /\ Set(c) \in Write
      BY DEF Release, Set, Write, On, Coils
    <2>4. writes' \in Seq(Write) /\ Head(writes').reg = Switch
      <3>1. CASE writes' = <<Release("load"), Set("unload")>>
        BY <2>3, <3>1, Pair DEF Release
      <3>2. CASE writes' = <<Release("unload"), Set("load")>>
        BY <2>3, <3>2, Pair DEF Release
      <3>3. QED
        BY <2>2, <3>1, <3>2
    <2>5. next' = next /\ next # 0 /\ Current = Switch
      BY <1>7 DEF TakeSwitch, Visiting
    <2>6. faulty' \subseteq Bank \cup {Switch}
      BY <1>7 DEF TakeSwitch, TypeOK
    <2>7. QED
      BY <1>7, <2>1, <2>4, <2>5, <2>6 DEF TakeSwitch, TypeOK, Current
  <1>8. CASE MakeWrite
    <2>1. writes \in Seq(Write) /\ writes # <<>> /\ Head(writes) \in Write
      BY <1>8 DEF MakeWrite, TypeOK
    <2>2. PICK reached \in BOOLEAN :
                /\ PresetSingleRegister(Head(writes), reached)
                /\ faulty' = IF reached THEN faulty ELSE faulty \cup {Current}
      BY <1>8 DEF MakeWrite
    <2>3. Current \in Bank \cup {Switch}
      BY <2>1 DEF TypeOK, Write
    <2>4. steps' \in Steps /\ coil' \in [Coils -> BOOLEAN]
      <3> DEFINE w == Head(writes)
      <3>1. steps \in Steps /\ coil \in [Coils -> BOOLEAN] /\ w \in Write /\ w.reg = Current
        BY <2>1 DEF TypeOK
      <3>2. coil' \in [Coils -> BOOLEAN]
        BY <2>2, <3>1 DEF PresetSingleRegister, Write
      <3>3. CASE steps' = steps
        BY <3>1, <3>2, <3>3
      <3>4. CASE w.reg \in Bank /\ w.op = "load" /\ steps' = [steps EXCEPT ![w.reg] = @ \cup w.mask]
        <4>1. w.mask \subseteq Step(Current)
          <5>1. BankWrites(Current, Cmd(Current, commanded[Current]))
            BY <2>1, <3>1, <3>4, Registers DEF WritesOfCommand
          <5>2. w.mask = Cmd(Current, commanded[Current])
            BY <3>4, <5>1 DEF BankWrites, Load, Unload
          <5>3. commanded[Current] \in Int
            BY <3>1, <3>4 DEF TypeOK
          <5>4. QED
            BY <5>2, <5>3, PowerOfCmd
        <4>2. QED
          BY <3>1, <3>2, <3>4, <4>1 DEF Steps, Step
      <3>5. CASE w.reg \in Bank /\ steps' = [steps EXCEPT ![w.reg] = @ \ w.mask]
        BY <3>1, <3>2, <3>5 DEF Steps
      <3>6. QED
        BY <2>2, <3>1, <3>3, <3>4, <3>5 DEF PresetSingleRegister, Write
    <2>5. faulty' \subseteq Bank \cup {Switch}
      BY <2>2, <2>3 DEF TypeOK
    <2>6. writes' \in Seq(Write) /\ next' \in 0 .. Len(Order)
      BY <1>8, <1>f, <2>1 DEF MakeWrite, TypeOK
    <2>7. ASSUME writes' # <<>> PROVE next' # 0 /\ Head(writes').reg = Current'
      <3>1. next' = next /\ next # 0 /\ Current' = Current
        BY <1>8, <2>7 DEF MakeWrite, TypeOK, Current
      <3>2. CASE Current \in Bank
        <4>1. PICK m : writes = <<Load(Current, m), Unload(Current, m)>>
                          \/ writes = <<Unload(Current, m)>>
          BY <2>1, <3>2, Registers DEF WritesOfCommand, BankWrites
        <4>2. Head(writes').reg = Current
          BY <1>8, <2>7, <4>1 DEF MakeWrite, Load, Unload
        <4>3. QED
          BY <3>1, <4>2
      <3>3. CASE Current = Switch
        <4>1. PICK x, y : writes = <<Release(x), Set(y)>> \/ writes = <<Set(y)>>
          BY <2>1, <3>3, Registers DEF WritesOfCommand, SwitchWrites
        <4>2. Head(writes').reg = Current
          BY <1>8, <2>7, <3>3, <4>1 DEF MakeWrite, Release, Set
        <4>3. QED
          BY <3>1, <4>2
      <3>4. QED
        BY <2>3, <3>2, <3>3
    <2>8. QED
      BY <1>8, <2>4, <2>5, <2>6, <2>7 DEF MakeWrite, TypeOK
  <1>9. CASE UNCHANGED vars
    BY <1>9 DEF vars, TypeOK, Current
  <1>10. QED
    BY <1>1, <1>2, <1>3, <1>4, <1>5, <1>6, <1>7, <1>8, <1>9 DEF Next, Preset

-----------------------------------------------------------------------------
(* The steps that neither take a command of the device nor write to it.    *)
History == <<steps, coil, commanded, faulty>>
Claims == WritesOfCommand /\ StepsOfCommand /\ Interlocked

LEMMA Still ==
    ASSUME IInv, UNCHANGED <<next, writes, History>>
    PROVE  Claims'
  BY DEF IInv, Claims, History, WritesOfCommand, BankWrites, SwitchWrites, StepsOfCommand,
         Settled, Interlocked, BeforeSwitching, Current

LEMMA Quiet ==
    ASSUME IInv, writes = <<>>, writes' = <<>>, UNCHANGED History
    PROVE  Claims'
  <1>1. WritesOfCommand'
    BY DEF WritesOfCommand
  <1>2. StepsOfCommand'
    BY DEF IInv, StepsOfCommand, Settled, History
  <1>3. ~BeforeSwitching
    BY DEF BeforeSwitching
  <1>4. Interlocked'
    BY <1>3 DEF IInv, Interlocked, History
  <1>5. QED
    BY <1>1, <1>2, <1>4 DEF Claims

(* A command for a bank: its two writes are to be made.                    *)
LEMMA TakeBankStep == ASSUME IInv, TakeBank PROVE Claims'
  <1>1. /\ Current \in Bank /\ writes = <<>> /\ Current' = Current
        /\ steps' = steps /\ coil' = coil /\ faulty' = faulty \ {Current}
        /\ commanded' = [commanded EXCEPT ![Current] = cell[Current].value]
    BY DEF TakeBank, Visiting, Current
  <1>2. commanded'[Current] = cell[Current].value
    BY <1>1 DEF IInv, TypeOK
  <1>3. writes' = <<Load(Current, Cmd(Current, commanded'[Current])),
                    Unload(Current, Cmd(Current, commanded'[Current]))>>
    BY <1>2 DEF TakeBank, Load, Unload, Cmd
  <1>4. WritesOfCommand'
    BY <1>1, <1>3 DEF WritesOfCommand, BankWrites, Load, Unload
  <1>5. StepsOfCommand'
    <2>1. SUFFICES ASSUME NEW b \in Bank, Settled(b)', b \notin faulty'
                   PROVE  steps'[b] = Cmd(b, commanded'[b])
      BY DEF StepsOfCommand
    <2>2. writes' # <<>>
      BY <1>3
    <2>3. b # Current
      BY <1>1, <2>1, <2>2 DEF Settled
    <2>4. Settled(b) /\ b \notin faulty /\ commanded'[b] = commanded[b]
      BY <1>1, <2>1, <2>3 DEF Settled, IInv, TypeOK
    <2>5. QED
      BY <1>1, <2>4 DEF IInv, StepsOfCommand
  <1>6. Interlocked'
    <2>1. ~BeforeSwitching
      BY <1>1 DEF BeforeSwitching
    <2>2. QED
      BY <1>1, <2>1, Registers DEF IInv, Interlocked
  <1>7. QED
    BY <1>4, <1>5, <1>6 DEF Claims

(* A command for the switch.                                               *)
LEMMA TakeSwitchStep == ASSUME IInv, TakeSwitch PROVE Claims'
  <1>1. /\ Current = Switch /\ writes = <<>> /\ Current' = Current
        /\ steps' = steps /\ coil' = coil /\ faulty' = faulty \ {Switch}
        /\ commanded' = commanded
    BY DEF TakeSwitch, Visiting, Current
  <1>2. \/ writes' = <<Release("load"), Set("unload")>>
        \/ writes' = <<Release("unload"), Set("load")>>
    BY DEF TakeSwitch, Release, Set
  <1>3. WritesOfCommand'
    BY <1>1, <1>2 DEF WritesOfCommand, SwitchWrites, Release, Set
  <1>4. StepsOfCommand'
    BY <1>1, Registers DEF IInv, StepsOfCommand, Settled
  <1>5. Len(writes') = 2
    BY <1>2
  <1>6. Interlocked'
    BY <1>1, <1>5 DEF Interlocked, BeforeSwitching
  <1>7. QED
    BY <1>3, <1>4, <1>6 DEF Claims

(* A write to a bank: the first connects, the second disconnects.          *)
LEMMA WriteBankStep == ASSUME IInv, MakeWrite, Current \in Bank PROVE Claims'
  <1> DEFINE m == Cmd(Current, commanded[Current])
  <1>1. PICK reached \in BOOLEAN :
              /\ PresetSingleRegister(Head(writes), reached)
              /\ faulty' = IF reached THEN faulty ELSE faulty \cup {Current}
    BY DEF MakeWrite
  <1>2. BankWrites(Current, m) /\ Current # Switch
    BY Registers DEF IInv, WritesOfCommand, MakeWrite
  <1>3. m \subseteq Step(Current) /\ steps[Current] \subseteq Step(Current)
    BY PowerOfCmd DEF IInv, TypeOK, Steps
  <1>4. writes' = Tail(writes) /\ commanded' = commanded
    BY DEF MakeWrite
  <1> HIDE DEF m
  <1>5. Head(writes).reg = Current
    BY <1>2 DEF BankWrites, Load, Unload
  <1>6. coil' = coil /\ \A b \in Bank \ {Current} : steps'[b] = steps[b]
    BY <1>1, <1>2, <1>5 DEF PresetSingleRegister, IInv, TypeOK, Steps
  <1>7. \A b \in Bank \ {Current} : Settled(b) /\ (b \notin faulty' => b \notin faulty)
    BY <1>1 DEF Settled
  <1>8. \A b \in Bank \ {Current} : b \notin faulty' => steps'[b] = Cmd(b, commanded'[b])
    BY <1>4, <1>6, <1>7 DEF IInv, StepsOfCommand
  <1>9. CASE writes = <<Load(Current, m), Unload(Current, m)>>
    <2>1. Head(writes) = Load(Current, m) /\ writes' = <<Unload(Current, m)>> /\ writes' # <<>>
      BY <1>4, <1>9
    <2>2. Current' = Current
      BY <2>1 DEF MakeWrite, Current
    <2>3. Current \in faulty' \/ m \subseteq steps'[Current]
      BY <1>1, <1>2, <2>1 DEF PresetSingleRegister, Load, IInv, TypeOK, Steps
    <2>4. WritesOfCommand'
      BY <1>4, <2>1, <2>2, <2>3 DEF WritesOfCommand, BankWrites, Unload, m
    <2>5. StepsOfCommand'
      BY <1>8, <2>1, <2>2 DEF StepsOfCommand, Settled
    <2>6. QED
      BY <2>4, <2>5, <1>1, <1>2, <1>6, Registers DEF Claims, IInv, Interlocked, BeforeSwitching
  <1>10. CASE writes = <<Unload(Current, m)>> /\ (Current \in faulty \/ m \subseteq steps[Current])
    <2>1. Head(writes) = Unload(Current, m) /\ writes' = <<>>
      BY <1>4, <1>10
    <2>2. Current \in faulty' \/ steps'[Current] = steps[Current] \ (Step(Current) \ m)
      BY <1>1, <1>2, <2>1 DEF PresetSingleRegister, Unload, IInv, TypeOK, Steps
    <2>3. Current \in faulty' \/ steps'[Current] = m
      BY <1>1, <1>3, <1>10, <2>2
    <2>4. StepsOfCommand'
      BY <1>4, <1>8, <2>3 DEF StepsOfCommand, m
    <2>5. WritesOfCommand'
      BY <2>1 DEF WritesOfCommand
    <2>6. QED
      BY <2>4, <2>5, <1>1, <1>2, <1>6, Registers DEF Claims, IInv, Interlocked, BeforeSwitching
  <1>11. QED
    BY <1>2, <1>9, <1>10 DEF BankWrites

(* A write to the switch: the first releases, the second sets.             *)
LEMMA WriteSwitchStep == ASSUME IInv, MakeWrite, Current = Switch PROVE Claims'
  <1>1. PICK reached \in BOOLEAN :
              /\ PresetSingleRegister(Head(writes), reached)
              /\ faulty' = IF reached THEN faulty ELSE faulty \cup {Current}
    BY DEF MakeWrite
  <1>2. PICK x \in {"load", "unload"}, y \in {"load", "unload"} : x # y /\ SwitchWrites(x, y)
    BY Registers DEF IInv, WritesOfCommand, MakeWrite
  <1>3. writes' = Tail(writes) /\ commanded' = commanded
    BY DEF MakeWrite
  <1>4. Head(writes).reg = Switch
    BY <1>2 DEF SwitchWrites, Release, Set
  <1>5. steps' = steps
    BY <1>1, <1>4 DEF PresetSingleRegister
  <1>6. StepsOfCommand'
    BY <1>1, <1>3, <1>5, Registers DEF IInv, StepsOfCommand, Settled
  <1>7. On # {}
    BY DEF On
  <1>8. CASE writes = <<Release(x), Set(y)>>
    <2>1. Head(writes) = Release(x) /\ writes' = <<Set(y)>> /\ writes' # <<>>
      BY <1>3, <1>8
    <2>2. Current' = Current
      BY <2>1 DEF MakeWrite, Current
    <2>3. Switch \in faulty' \/ ~coil'[x]
      <3>1. CASE reached
        <4>1. ({} = On) = FALSE
          BY <1>7
        <4>h. Head(writes).reg = Switch /\ Head(writes).op = x /\ Head(writes).mask = {}
          BY <2>1 DEF Release
        <4>2. coil' = [coil EXCEPT ![Head(writes).op] = (Head(writes).mask = On)]
          BY <1>1, <3>1, <4>h DEF PresetSingleRegister
        <4>3. coil' = [coil EXCEPT ![x] = FALSE]
          BY <4>1, <4>h, <4>2
        <4>4. QED
          BY <1>2, <4>3 DEF IInv, TypeOK, Coils
      <3>2. CASE ~reached
        BY <1>1, <3>2
      <3>3. QED
        BY <3>1, <3>2
    <2>4. WritesOfCommand'
      BY <1>2, <2>1, <2>2, <2>3 DEF WritesOfCommand, SwitchWrites, Set
    <2>5. Interlocked'
      BY <1>2, <2>3 DEF Interlocked
    <2>6. QED
      BY <1>6, <2>4, <2>5 DEF Claims
  <1>9. CASE writes = <<Set(y)>> /\ (Switch \in faulty \/ ~coil[x])
    <2>1. Head(writes) = Set(y) /\ writes' = <<>>
      BY <1>3, <1>9
    <2>2. Switch \in faulty' \/ ~coil'[x]
      BY <1>1, <1>2, <1>9, <2>1 DEF PresetSingleRegister, Set, IInv, TypeOK, Coils
    <2>3. Interlocked'
      BY <1>2, <2>2 DEF Interlocked
    <2>4. WritesOfCommand'
      BY <2>1 DEF WritesOfCommand
    <2>5. QED
      BY <1>6, <2>3, <2>4 DEF Claims
  <1>10. QED
    BY <1>2, <1>8, <1>9 DEF SwitchWrites

LEMMA InvStep == IInv /\ [Next]_vars => IInv'
  <1> SUFFICES ASSUME IInv, [Next]_vars PROVE IInv'
    OBVIOUS
  <1>1. TypeOK'
    BY TypeStep DEF IInv
  <1> SUFFICES Claims'
    BY <1>1 DEF IInv, Claims
  <1>2. ASSUME NEW r, Command(r) PROVE Claims'
    BY <1>2, Still DEF Command, History
  <1>3. CASE BeginPreset
    <2>1. writes = <<>> /\ writes' = <<>>
      BY <1>3 DEF BeginPreset, IInv, TypeOK
    <2>2. UNCHANGED History
      BY <1>3 DEF BeginPreset, History
    <2>3. QED
      BY <2>1, <2>2, Quiet
  <1>4. CASE Skip \/ TakeActive \/ TakeReactive
    <2>1. writes = <<>> /\ writes' = <<>> /\ UNCHANGED History
      BY <1>4 DEF Skip, TakeActive, TakeReactive, Visiting, History
    <2>2. QED
      BY <2>1, Quiet
  <1>5. CASE MakeWrite
    <2>1. Current \in Bank \cup {Switch}
      BY <1>5 DEF IInv, WritesOfCommand, MakeWrite
    <2>2. QED
      BY <1>5, <2>1, WriteBankStep, WriteSwitchStep
  <1>6. CASE UNCHANGED vars
    BY <1>6, Still DEF vars, History
  <1>7. QED
    BY <1>2, <1>3, <1>4, <1>5, <1>6, TakeBankStep, TakeSwitchStep DEF Next, Preset

-----------------------------------------------------------------------------
LEMMA InvHolds == Spec => []IInv
  BY InitInv, InvStep, PTL DEF Spec

(* Every state of the driver and its load is typed.                        *)
THEOREM TypeCorrect == Spec => []TypeOK
  BY InvHolds, PTL DEF IInv

(* RLC_a_Preset: once both writes of its last command got through, a bank  *)
(* has the power of that command connected, or 7 units when it is more,    *)
(* whatever failed before and whatever was connected at the start.         *)
THEOREM SettledHasItsPower == Spec => []SettledIsCommanded
  <1>1. IInv => SettledIsCommanded
    <2> SUFFICES ASSUME IInv, NEW b \in Bank, Settled(b), b \notin faulty
                 PROVE  PowerOf(steps[b]) = Within(commanded[b])
      BY DEF SettledIsCommanded
    <2>1. commanded[b] \in Int /\ steps[b] = Cmd(b, commanded[b])
      BY DEF IInv, TypeOK, StepsOfCommand
    <2>2. QED
      BY <2>1, PowerOfCmd
  <1>2. QED
    BY <1>1, InvHolds, PTL

(* RLC_a_Preset: the coils are set together only after a write of the last *)
(* switching failed.                                                       *)
THEOREM CoilsInterlocked == Spec => []Interlocked
  BY InvHolds, PTL DEF IInv

-----------------------------------------------------------------------------
(* The order in which Preset visits the registers: the totals first, every *)
(* bank, and the switch at the end.                                        *)
LEMMA BankOrderType ==
    /\ BankOrder \in Seq(Bank) /\ Len(BankOrder) = 3 * Len(PhaseOrder)
    /\ \A b \in Bank : \E i \in 1 .. Len(BankOrder) : BankOrder[i] = b
  <1> DEFINE N == Len(PhaseOrder)
  <1>1. N \in Nat /\ Phase = {PhaseOrder[i] : i \in 1 .. N}
    <2>1. N \in Nat /\ DOMAIN PhaseOrder = 1 .. N
      BY RlcLoadAssumption
    <2>2. QED
      BY <2>1 DEF Phase, ToSet
  <1>2. /\ ToSet(KindOrder) = {KindOrder[i] : i \in 1 .. 3}
        /\ KindOrder[1] = "R" /\ KindOrder[2] = "L" /\ KindOrder[3] = "C"
    BY DEF ToSet, KindOrder
  <1>3. \A i \in 1 .. 3 * N : BankOrder[i] \in Bank
    <2> TAKE i \in 1 .. 3 * N
    <2>1. ((i - 1) \div 3) + 1 \in 1 .. N /\ ((i - 1) % 3) + 1 \in 1 .. 3
      BY <1>1
    <2>2. BankOrder[i] = <<PhaseOrder[((i - 1) \div 3) + 1], KindOrder[((i - 1) % 3) + 1]>>
      BY DEF BankOrder
    <2>3. QED
      BY <1>1, <1>2, <2>1, <2>2 DEF Bank
  <1>4. BankOrder \in Seq(Bank) /\ Len(BankOrder) = 3 * N
    <2>1. BankOrder = [i \in 1 .. 3 * N |-> BankOrder[i]]
      BY DEF BankOrder
    <2>2. 3 * N \in Nat
      BY <1>1
    <2>3. BankOrder \in [1 .. 3 * N -> Bank]
      BY <1>3, <2>1
    <2> HIDE DEF N
    <2>4. QED
      BY <2>2, <2>3, IsASeq, LenProperties
  <1>5. ASSUME NEW b \in Bank PROVE \E i \in 1 .. 3 * N : BankOrder[i] = b
    <2>1. PICK m \in 1 .. N, k \in 1 .. 3 : b = <<PhaseOrder[m], KindOrder[k]>>
      BY <1>1, <1>2 DEF Bank
    <2> DEFINE i == 3 * (m - 1) + k
    <2>2. i \in 1 .. 3 * N /\ ((i - 1) \div 3) + 1 = m /\ ((i - 1) % 3) + 1 = k
      BY <1>1
    <2>3. BankOrder[i] = <<PhaseOrder[((i - 1) \div 3) + 1], KindOrder[((i - 1) % 3) + 1]>>
      BY <2>2 DEF BankOrder
    <2>4. QED
      BY <2>1, <2>2, <2>3
  <1>6. QED
    BY <1>4, <1>5

LEMMA Positions ==
    /\ Len(Order) \in Nat /\ Len(Order) >= 3
    /\ Order[1] = Active /\ Order[2] = Reactive /\ Order[Len(Order)] = Switch
    /\ \A p \in 3 .. Len(Order) - 1 : Order[p] \in Bank
    /\ \A b \in Bank : \E p \in 3 .. Len(Order) - 1 : Order[p] = b
  <1> DEFINE N == Len(BankOrder)
  <1>1. BankOrder \in Seq(Reg) /\ N \in Nat
    <2>1. BankOrder \in Seq(Bank) /\ Bank \subseteq Reg
      BY BankOrderType, Registers
    <2>2. QED
      BY <2>1
  <1>2. <<Active, Reactive>> \in Seq(Reg) /\ Len(<<Active, Reactive>>) = 2
        /\ <<Switch>> \in Seq(Reg) /\ Len(<<Switch>>) = 1
    BY Registers
  <1>3. /\ <<Active, Reactive>> \o BankOrder \in Seq(Reg)
        /\ Len(<<Active, Reactive>> \o BankOrder) = N + 2
        /\ \A p \in 1 .. N + 2 : (<<Active, Reactive>> \o BankOrder)[p] =
              IF p <= 2 THEN <<Active, Reactive>>[p] ELSE BankOrder[p - 2]
    BY <1>1, <1>2, ConcatProperties
  <1>4. /\ Len(Order) = N + 3
        /\ \A p \in 1 .. N + 3 : Order[p] =
              IF p <= N + 2 THEN (<<Active, Reactive>> \o BankOrder)[p] ELSE <<Switch>>[p - (N + 2)]
    BY <1>1, <1>2, <1>3, ConcatProperties DEF Order
  <1>5. Order[1] = Active /\ Order[2] = Reactive
    BY <1>1, <1>3, <1>4
  <1>6. Order[N + 3] = Switch
    BY <1>1, <1>4
  <1>7. \A p \in 3 .. N + 2 : Order[p] = BankOrder[p - 2] /\ p - 2 \in 1 .. N
    BY <1>1, <1>3, <1>4
  <1>8. \A p \in 3 .. N + 2 : Order[p] \in Bank
    BY <1>7, BankOrderType, ElementOfSeq
  <1>9. ASSUME NEW b \in Bank PROVE \E p \in 3 .. N + 2 : Order[p] = b
    <2>1. PICK i \in 1 .. N : BankOrder[i] = b
      BY BankOrderType
    <2>2. i + 2 \in 3 .. N + 2 /\ Order[i + 2] = b
      BY <1>1, <1>7, <2>1
    <2>3. QED
      BY <2>2
  <1> HIDE DEF N
  <1>10. QED
    BY <1>1, <1>4, <1>5, <1>6, <1>8, <1>9

(* The totals and the switch are no banks, and each has one position.      *)
LEMMA PositionOf ==
    ASSUME NEW p \in 1 .. Len(Order)
    PROVE  /\ Active \notin Bank /\ Reactive \notin Bank /\ Switch \notin Bank
           /\ Order[p] = Active => p = 1
           /\ Order[p] = Reactive => p = 2
           /\ Order[p] = Switch => p = Len(Order)
  <1>1. Active # Reactive /\ Active # Switch /\ Reactive # Switch
    <2>1. Active[2] = "R" /\ Reactive[2] = "Q" /\ Switch[2] = "switch"
      BY DEF Active, Reactive, Switch
    <2>2. QED
      BY <2>1
  <1>2. Active \notin Bank /\ Reactive \notin Bank /\ Switch \notin Bank
    <2>1. \A b \in Bank : b[1] # "all"
      BY RlcLoadAssumption DEF Bank
    <2>2. QED
      BY <2>1 DEF Active, Reactive, Switch
  <1>3. p = 1 \/ p = 2 \/ p \in 3 .. Len(Order) - 1 \/ p = Len(Order)
    BY Positions
  <1>4. QED
    BY <1>1, <1>2, <1>3, Positions

-----------------------------------------------------------------------------
(* What makes TotalsReachAllPhases inductive: a share of a total waits     *)
(* only where Preset still comes by in this call, and what a bank has      *)
(* taken or is about to take is its share of the last total.               *)
ComesBy(b) ==
    \E p \in 1 .. Len(Order) :
        next <= p /\ Order[p] = b /\ (p = next => writes = <<>>)

Aim(b) == IF cell[b].writed THEN cell[b].value ELSE commanded[b]

SharesWait == \A b \in Bank \ direct : cell[b].writed => next # 0 /\ ComesBy(b)

TotalOf(b) == IF b[2] = "R" THEN totals[Active] ELSE totals[Reactive]

SharesAgree == \A b \in Bank \ direct : Aim(b) = Share(b[2], TotalOf(b))

SharesInv == SharesWait /\ SharesAgree

LEMMA SharesInit == Init => SharesInv
  <1> SUFFICES ASSUME Init PROVE SharesInv
    OBVIOUS
  <1>1. \A b \in Bank : ~cell[b].writed /\ commanded[b] = 0
    BY Registers DEF Init
  <1>2. totals[Active] = 0 /\ totals[Reactive] = 0
    BY DEF Init
  <1>3. \A b \in Bank : TotalOf(b) = 0
    BY <1>2 DEF TotalOf
  <1>4. \A b \in Bank : Share(b[2], TotalOf(b)) = 0
    BY <1>3, Registers DEF Share
  <1>5. QED
    BY <1>1, <1>4 DEF SharesInv, SharesWait, SharesAgree, Aim

(* The banks keep their aims, and Preset still comes by those that wait.   *)
LEMMA SharesKept ==
    ASSUME SharesInv, direct \subseteq direct', totals' = totals,
           \A b \in Bank \ direct' : Aim(b)' = Aim(b),
           \A b \in Bank \ direct' : cell'[b].writed => next' # 0 /\ ComesBy(b)'
    PROVE  SharesInv'
  BY DEF SharesInv, SharesWait, SharesAgree, TotalOf

(* A command is stored as it is.                                           *)
LEMMA CommandStored ==
    ASSUME NEW c, NEW v
    PROVE  Stored(c, Data(v, TRUE))
             = [value |-> v, type |-> "INT", writed |-> TRUE, writed_num |-> 0]
  BY DEF Stored, Withholds, Data

LEMMA CommandShares ==
    ASSUME TypeOK, SharesInv, NEW r \in {Active, Reactive, Switch} \cup Direct, Command(r)
    PROVE  SharesInv'
  <1>1. \A b \in Bank \ direct' : b # r /\ b \notin direct
    BY PositionOf, Positions DEF Command
  <1>2. \A b \in Bank \ direct' : cell'[b] = cell[b]
    BY <1>1, Registers DEF Command, TypeOK
  <1>3. /\ next' = next /\ writes' = writes /\ commanded' = commanded
        /\ totals' = totals /\ direct \subseteq direct'
    BY DEF Command
  <1>4. \A b \in Bank \ direct' : Aim(b)' = Aim(b)
    BY <1>2, <1>3 DEF Aim
  <1>5. \A b \in Bank \ direct' : cell'[b].writed => next' # 0 /\ ComesBy(b)'
    BY <1>1, <1>2, <1>3 DEF SharesInv, SharesWait, ComesBy
  <1>6. QED
    BY <1>3, <1>4, <1>5, SharesKept

(* A share that waits elsewhere still waits for a later position.          *)
LEMMA PassOn ==
    ASSUME TypeOK, SharesInv, next # 0, next' = Following, writes' = <<>>,
           NEW b \in Bank \ direct, cell[b].writed, Current # b \/ writes # <<>>
    PROVE  next' # 0 /\ ComesBy(b)'
  <1>1. PICK p \in 1 .. Len(Order) : next <= p /\ Order[p] = b /\ (p = next => writes = <<>>)
    BY DEF SharesInv, SharesWait, ComesBy
  <1>2. p # next
    BY <1>1 DEF Current
  <1>3. next \in Nat /\ next + 1 <= p /\ next # Len(Order) /\ Len(Order) \in Nat
    BY <1>1, <1>2, Positions DEF TypeOK
  <1>4. next' = next + 1
    BY <1>3 DEF Following
  <1>5. QED
    BY <1>1, <1>3, <1>4 DEF ComesBy

LEMMA SkipShares == ASSUME TypeOK, SharesInv, Skip PROVE SharesInv'
  <1>1. /\ next # 0 /\ writes = <<>> /\ ~cell[Current].writed /\ next' = Following
        /\ writes' = <<>> /\ cell' = cell /\ commanded' = commanded /\ direct' = direct
        /\ totals' = totals
    BY DEF Skip, Visiting
  <1>2. \A b \in Bank \ direct' : cell'[b].writed => next' # 0 /\ ComesBy(b)'
    BY <1>1, PassOn
  <1>3. QED
    BY <1>1, <1>2, SharesKept DEF Aim

LEMMA BeginShares == ASSUME TypeOK, SharesInv, BeginPreset PROVE SharesInv'
  <1>1. \A b \in Bank \ direct : ~cell[b].writed
    BY DEF BeginPreset, SharesInv, SharesWait
  <1>2. QED
    BY <1>1, SharesKept DEF BeginPreset, Aim

(* A total becomes a command of every phase, at a position before all of   *)
(* them.                                                                   *)
LEMMA TotalShares ==
    ASSUME TypeOK, SharesInv, NEW kinds, next \in {1, 2}, Visiting, TakeTotal(kinds),
           next' = Following, writes' = writes, commanded' = commanded, direct' = direct,
           totals' = [totals EXCEPT ![Current] = cell[Current].value],
           \/ Current = Active /\ kinds = {"R"}
           \/ Current = Reactive /\ kinds = {"L", "C"}
    PROVE  SharesInv'
  <1> DEFINE total == cell[Current].value
  <1>1. next' = next + 1 /\ writes' = <<>>
    BY Positions DEF Following, Visiting
  <1>2. \A b \in Bank : ComesBy(b)' /\ next' # 0
    <2> TAKE b \in Bank
    <2>1. PICK p \in 3 .. Len(Order) - 1 : Order[p] = b
      BY Positions
    <2>2. p \in 1 .. Len(Order) /\ next' <= p /\ next' # 0
      BY <1>1, <2>1, Positions
    <2>3. QED
      BY <1>1, <2>1, <2>2 DEF ComesBy
  <1>3. total \in Int
    BY Registers DEF TypeOK, Cell
  <1>4. ASSUME NEW b \in Bank, b[2] \in kinds PROVE Aim(b)' = Share(b[2], total)
    <2>1. cell'[b] = Stored(Taken[b], Data(Share(b[2], total), TRUE))
      BY <1>4, Registers DEF TakeTotal
    <2>2. cell'[b] = [value |-> Share(b[2], total), type |-> "INT", writed |-> TRUE,
                      writed_num |-> 0]
      BY <2>1, CommandStored
    <2>3. cell'[b].writed /\ cell'[b].value = Share(b[2], total)
      BY <2>2
    <2>4. QED
      BY <2>3 DEF Aim
  <1>5. ASSUME NEW b \in Bank, b[2] \notin kinds PROVE Aim(b)' = Aim(b)
    <2>1. b # Current
      BY PositionOf, Positions
    <2>2. cell'[b] = cell[b]
      BY <1>5, <2>1, Registers DEF TakeTotal, Taken, TypeOK
    <2>3. QED
      BY <2>2 DEF Aim
  <1>6. Active # Reactive
    BY DEF Active, Reactive
  <1>7. ASSUME NEW b \in Bank
        PROVE  /\ b[2] \in kinds => TotalOf(b)' = total
               /\ b[2] \notin kinds => TotalOf(b)' = TotalOf(b)
    <2>1. b[2] \in {"R", "L", "C"}
      BY Registers
    <2>2. totals'[Current] = total
      BY DEF TypeOK
    <2>3. \A t \in {Active, Reactive} : t # Current => totals'[t] = totals[t]
      BY DEF TypeOK
    <2> HIDE DEF total
    <2>4. QED
      BY <1>6, <2>1, <2>2, <2>3 DEF TotalOf
  <1>8. SharesAgree'
    <2>1. ASSUME NEW b \in Bank \ direct PROVE Aim(b)' = Share(b[2], TotalOf(b)')
      <3> HIDE DEF total
      <3>1. CASE b[2] \in kinds
        BY <1>4, <1>7, <3>1
      <3>2. CASE b[2] \notin kinds
        BY <1>5, <1>7, <3>2 DEF SharesInv, SharesAgree
      <3>3. QED
        BY <3>1, <3>2
    <2>2. QED
      BY <2>1 DEF SharesAgree
  <1>9. QED
    BY <1>2, <1>8 DEF SharesInv, SharesWait

LEMMA TakeBankShares == ASSUME TypeOK, SharesInv, TakeBank PROVE SharesInv'
  <1>1. /\ Current \in Bank /\ cell[Current].writed /\ writes = <<>> /\ next # 0 /\ writes' # <<>>
        /\ cell' = Taken /\ next' = next /\ direct' = direct /\ totals' = totals
        /\ commanded' = [commanded EXCEPT ![Current] = cell[Current].value]
    BY DEF TakeBank, Visiting
  <1>2. /\ cell'[Current] = ClearWrited(cell[Current])
        /\ \A b \in Bank : b # Current => cell'[b] = cell[b]
    BY <1>1, Registers DEF Taken, TypeOK
  <1>3. ~cell'[Current].writed
    <2>1. cell[Current] \in Cell
      BY <1>1, Registers DEF TypeOK
    <2>2. QED
      BY <1>2, <2>1 DEF ClearWrited, Cell
  <1>4. commanded'[Current] = cell[Current].value
        /\ \A b \in Bank : b # Current => commanded'[b] = commanded[b]
    BY <1>1 DEF TypeOK
  <1>5. \A b \in Bank : Aim(b)' = Aim(b)
    BY <1>1, <1>2, <1>3, <1>4 DEF Aim
  <1>6. ASSUME NEW b \in Bank \ direct, cell'[b].writed
        PROVE  next' # 0 /\ ComesBy(b)'
    <2>1. b # Current /\ cell[b].writed
      BY <1>2, <1>3, <1>6
    <2>2. PICK p \in 1 .. Len(Order) : next <= p /\ Order[p] = b
      BY <2>1 DEF SharesInv, SharesWait, ComesBy
    <2>3. p # next
      BY <2>1, <2>2 DEF Current
    <2>4. QED
      BY <1>1, <2>2, <2>3 DEF ComesBy
  <1>7. QED
    BY <1>1, <1>5, <1>6, SharesKept

(* At the switch no share waits any more: the zeros of unloading evict no  *)
(* command of a total.                                                     *)
LEMMA TakeSwitchShares == ASSUME TypeOK, SharesInv, TakeSwitch PROVE SharesInv'
  <1>1. /\ Current = Switch /\ next # 0 /\ next' = next /\ direct' = direct
        /\ commanded' = commanded /\ totals' = totals
        /\ \A b \in Bank : cell'[b] \in {Stored(cell[b], Data(0, FALSE)), Taken[b]}
    BY Registers DEF TakeSwitch, Visiting
  <1>2. next = Len(Order)
    BY <1>1, PositionOf DEF Current, TypeOK
  <1>3. ASSUME NEW b \in Bank \ direct PROVE ~cell[b].writed
    <2>1. SUFFICES ASSUME cell[b].writed PROVE FALSE
      OBVIOUS
    <2>2. PICK p \in 1 .. Len(Order) : next <= p /\ Order[p] = b
      BY <2>1 DEF SharesInv, SharesWait, ComesBy
    <2>3. p = Len(Order)
      BY <1>2, <2>2, Positions
    <2>4. QED
      BY <2>2, <2>3, Positions, PositionOf
  <1>4. ASSUME NEW b \in Bank \ direct PROVE ~cell'[b].writed
    <2>1. CASE cell'[b] = Stored(cell[b], Data(0, FALSE))
      BY <1>3, <2>1 DEF Stored, Withholds, Data
    <2>2. CASE cell'[b] = Taken[b]
      <3>1. b # Current /\ Taken[b] = cell[b]
        BY <1>1, Registers DEF Taken, TypeOK
      <3>2. QED
        BY <1>3, <2>2, <3>1
    <2>3. QED
      BY <1>1, <2>1, <2>2
  <1>5. \A b \in Bank \ direct : Aim(b)' = Aim(b)
    BY <1>1, <1>3, <1>4 DEF Aim
  <1>6. QED
    BY <1>1, <1>4, <1>5, SharesKept

LEMMA MakeWriteShares == ASSUME TypeOK, SharesInv, MakeWrite PROVE SharesInv'
  <1>1. /\ writes # <<>> /\ next # 0 /\ cell' = cell /\ commanded' = commanded
        /\ direct' = direct /\ next' = IF writes' = <<>> THEN Following ELSE next
        /\ totals' = totals
    BY DEF MakeWrite, TypeOK
  <1>2. ASSUME NEW b \in Bank \ direct, cell[b].writed
        PROVE  next' # 0 /\ ComesBy(b)'
    <2>1. CASE writes' = <<>>
      BY <1>1, <1>2, <2>1, PassOn
    <2>2. CASE writes' # <<>>
      BY <1>1, <1>2, <2>2 DEF SharesInv, SharesWait, ComesBy
    <2>3. QED
      BY <2>1, <2>2
  <1>3. QED
    BY <1>1, <1>2, SharesKept DEF Aim

LEMMA SharesStep == TypeOK /\ SharesInv /\ [Next]_vars => SharesInv'
  <1> SUFFICES ASSUME TypeOK, SharesInv, [Next]_vars PROVE SharesInv'
    OBVIOUS
  <1>1. CASE TakeActive
    <2>1. next = 1
      BY <1>1, PositionOf DEF TakeActive, Visiting, Current, TypeOK
    <2>2. QED
      BY <1>1, <2>1, TotalShares DEF TakeActive
  <1>2. CASE TakeReactive
    <2>1. next = 2
      BY <1>2, PositionOf DEF TakeReactive, Visiting, Current, TypeOK
    <2>2. QED
      BY <1>2, <2>1, TotalShares DEF TakeReactive
  <1>3. CASE UNCHANGED vars
    BY <1>3 DEF vars, SharesInv, SharesWait, SharesAgree, Aim, ComesBy, TotalOf
  <1>4. QED
    BY <1>1, <1>2, <1>3, CommandShares, SkipShares, BeginShares, TakeBankShares,
       TakeSwitchShares, MakeWriteShares DEF Next, Preset

(* RLC_a_Preset: between two of its calls every phase has the last total   *)
(* connected, inductive or capacitive and never both, however the commands *)
(* of masters fall among its visits; for any number of phases, powers and  *)
(* failures.                                                               *)
THEOREM TotalsAreShared == Spec => []TotalsReachAllPhases
  <1>1. IInv /\ SharesInv => TotalsReachAllPhases
    <2> SUFFICES ASSUME IInv, SharesInv, next = 0, NEW b \in Bank \ (faulty \cup direct)
                 PROVE  PowerOf(steps[b]) = Within(Wanted(b))
      BY DEF TotalsReachAllPhases
    <2>1. writes = <<>>
      BY DEF IInv, TypeOK
    <2>2. /\ steps[b] = Cmd(b, commanded[b]) /\ commanded[b] \in Int
          /\ commanded[b] = Share(b[2], TotalOf(b))
      BY <2>1 DEF IInv, TypeOK, StepsOfCommand, Settled, SharesInv, SharesWait, SharesAgree, Aim
    <2>3. /\ totals[Active] \in Int /\ totals[Reactive] \in Int
          /\ b[2] \in {"R", "L", "C"}
      BY Registers DEF IInv, TypeOK
    <2>4. Within(Share(b[2], TotalOf(b))) = Within(Wanted(b))
      BY <2>3 DEF Share, TotalOf, Within, Wanted
    <2>5. QED
      BY <2>2, <2>4, PowerOfCmd
  <1>2. Spec => [](IInv /\ SharesInv)
    <2>1. IInv /\ SharesInv /\ [Next]_vars => SharesInv'
      BY SharesStep DEF IInv
    <2>2. QED
      BY <2>1, InitInv, InvStep, SharesInit, PTL DEF Spec
  <1>3. QED
    BY <1>1, <1>2, PTL

-----------------------------------------------------------------------------
(* EcmPcs.  Its state is apart from that of RlcLoad: another device.       *)
Undisturbed(c) == c \in Dev \ disturbed
Writing == query # NoQuery

PcsType ==
    /\ \E V : word \in [Dev -> [Word -> V]]
    /\ \E V : intended \in [Dev -> [Word -> V]]
    /\ \E V : shared \in [Word -> V]
    /\ at \in 1 .. Len(DevOrder) /\ stage \in Nat
    /\ disturbed \subseteq Dev
    /\ \E S : stream \in Seq(S)

(* The write under way: of the converter that is visited, while its        *)
(* commands are.                                                           *)
QueryType ==
    Writing =>
        /\ stage \in 3 .. Len(RegisterOrder) + 2
        /\ query.dev = Converter /\ query.fn \in {"write", "float"}

(* The members, once they are read, are the words of the converter as the  *)
(* commands want them.                                                     *)
MembersIntended ==
    Undisturbed(Converter) =>
        /\ stage >= 2 => shared[512] = intended[Converter][512]
        /\ stage >= 3 => shared[701] = intended[Converter][701]

(* A converter's words are as intended, but for the one being written,     *)
(* which is going to be.                                                   *)
WordsIntended ==
    \A c \in Dev \ disturbed : \A w \in Word :
        IF Writing /\ query.dev = c /\ query.reg = w
        THEN query.value = intended[c][w] ELSE word[c][w] = intended[c][w]

(* The bytes unread of the echoes of writes to a word: the device has what *)
(* they say.  During a write to the word, those that are equal to it come  *)
(* last, and there are some only when the device has it.                   *)
EchoOf(byte, c, w) == byte[1].fn = "write" /\ byte[1].dev = c /\ byte[1].reg = w

EchoesTrue(bytes, c, w) ==
    \A i \in DOMAIN bytes : EchoOf(bytes[i], c, w) => bytes[i][1].value = word[c][w]

EchoesOrdered(bytes, c, w, v) ==
    \A i \in DOMAIN bytes :
        EchoOf(bytes[i], c, w) /\ bytes[i][1].value = v
            => /\ word[c][w] = v
               /\ \A j \in DOMAIN bytes :
                     i < j /\ EchoOf(bytes[j], c, w) => bytes[j][1].value = v

WritingTo(c, w) == Writing /\ query.dev = c /\ query.reg = w

Echoes(c, w) ==
    IF WritingTo(c, w) THEN EchoesOrdered(stream, c, w, query.value)
                       ELSE EchoesTrue(stream, c, w)

EchoesKnown == \A c \in Dev, w \in Word : <<c, w>> \notin givenUp => Echoes(c, w)

PcsInv == PcsType /\ QueryType /\ MembersIntended /\ WordsIntended /\ EchoesKnown
            /\ DoneIsWritten

-----------------------------------------------------------------------------
(* The converter that is visited is one of them.                           *)
LEMMA ConverterType == ASSUME PcsType PROVE Converter \in Dev
  BY EcmPcsAssumption DEF PcsType, Converter

(* The bytes of an answer, as many as its kind has.                        *)
LEMMA BytesOf ==
    ASSUME NEW a
    PROVE  /\ Size(a.fn) \in {11, 12}
           /\ Bytes(a) \in Seq({a} \X Nat) /\ Len(Bytes(a)) = Size(a.fn)
           /\ \A i \in 1 .. Size(a.fn) : Bytes(a)[i] = <<a, i>>
  <1>1. Size(a.fn) \in {11, 12}
    BY DEF Size
  <1> DEFINE n == Size(a.fn)
  <1>2. Bytes(a) = [i \in 1 .. n |-> <<a, i>>]
    BY DEF Bytes
  <1>3. n \in Nat /\ Bytes(a) \in [1 .. n -> {a} \X Nat]
    BY <1>1, <1>2
  <1> HIDE DEF n
  <1>4. Bytes(a) \in Seq({a} \X Nat) /\ Len(Bytes(a)) = n
    BY <1>3, IsASeq, LenProperties
  <1>5. QED
    BY <1>1, <1>2, <1>4 DEF n

(* A sequence cut in two.                                                  *)
LEMMA Cut ==
    ASSUME NEW S, NEW s \in Seq(S), NEW m \in 0 .. Len(s)
    PROVE  /\ SubSeq(s, 1, m) \in Seq(S) /\ Len(SubSeq(s, 1, m)) = m
           /\ \A i \in 1 .. m : SubSeq(s, 1, m)[i] = s[i]
           /\ SubSeq(s, m + 1, Len(s)) \in Seq(S)
           /\ Len(SubSeq(s, m + 1, Len(s))) = Len(s) - m
           /\ \A i \in 1 .. Len(s) - m : SubSeq(s, m + 1, Len(s))[i] = s[m + i]
  <1>1. Len(s) \in Nat /\ m \in Nat /\ m <= Len(s) /\ \A i \in 1 .. Len(s) : s[i] \in S
    BY ElementOfSeq
  <1>2. /\ SubSeq(s, 1, m) \in Seq(S)
        /\ Len(SubSeq(s, 1, m)) = IF 1 <= m THEN m - 1 + 1 ELSE 0
        /\ \A i \in 1 .. m - 1 + 1 : SubSeq(s, 1, m)[i] = s[1 + i - 1]
    <2>1. \A i \in 1 .. m : s[i] \in S
      BY <1>1
    <2>2. QED
      BY <1>1, <2>1, SubSeqProperties
  <1>3. /\ SubSeq(s, m + 1, Len(s)) \in Seq(S)
        /\ Len(SubSeq(s, m + 1, Len(s))) =
              IF m + 1 <= Len(s) THEN Len(s) - (m + 1) + 1 ELSE 0
        /\ \A i \in 1 .. Len(s) - (m + 1) + 1 : SubSeq(s, m + 1, Len(s))[i] = s[m + 1 + i - 1]
    <2>1. \A i \in m + 1 .. Len(s) : s[i] \in S
      BY <1>1
    <2>2. QED
      BY <1>1, <2>1, SubSeqProperties
  <1>4. \A i \in 1 .. m : i \in 1 .. m - 1 + 1 /\ 1 + i - 1 = i
    BY <1>1
  <1>5. \A i \in 1 .. Len(s) - m : i \in 1 .. Len(s) - (m + 1) + 1 /\ m + 1 + i - 1 = m + i
    BY <1>1
  <1>6. Len(SubSeq(s, 1, m)) = m /\ Len(SubSeq(s, m + 1, Len(s))) = Len(s) - m
    BY <1>1, <1>2, <1>3
  <1>7. QED
    BY <1>2, <1>3, <1>4, <1>5, <1>6

(* A sequence taken as a whole.                                            *)
LEMMA Whole ==
    ASSUME NEW S, NEW s \in Seq(S) PROVE SubSeq(s, 1, Len(s)) = s
  <1>1. Len(s) \in 0 .. Len(s)
    BY LenProperties
  <1>2. /\ SubSeq(s, 1, Len(s)) \in Seq(S) /\ Len(SubSeq(s, 1, Len(s))) = Len(s)
        /\ \A i \in 1 .. Len(s) : SubSeq(s, 1, Len(s))[i] = s[i]
    BY <1>1, Cut
  <1>3. QED
    BY <1>2, SeqEqual

(* A sequence is one over any larger set.                                  *)
LEMMA Larger ==
    ASSUME NEW S, NEW T, S \subseteq T, NEW s \in Seq(S) PROVE s \in Seq(T)
  <1>1. /\ Len(s) \in Nat /\ DOMAIN s = 1 .. Len(s)
        /\ \A i \in 1 .. Len(s) : s[i] \in T
    BY ElementOfSeq, LenProperties
  <1>2. s \in [1 .. Len(s) -> T]
    BY <1>1, LenProperties
  <1>3. QED
    BY <1>1, <1>2, IsASeq

(* TxRxMsg: the bytes sent are those unread before, then the answer's; the *)
(* client takes the first n and leaves the others.                         *)
LEMMA Exchange ==
    ASSUME PcsType, NEW q, NEW fate \in Fate, NEW n \in Counts(q, fate)
    PROVE  LET sent == Sent(q, fate)
               rest == Unread(q, fate, n)
               read == Read(q, fate, n)
           IN  /\ \E k \in Nat : \A i \in DOMAIN sent :
                     /\ i \in Nat \ {0}
                     /\ i <= k => i \in DOMAIN stream /\ sent[i] = stream[i]
                     /\ i > k => sent[i][1] = AnswerTo(q) /\ Executed(fate)
               /\ n \in Nat /\ Len(read) = n
               /\ \A i \in 1 .. n : i \in DOMAIN sent /\ read[i] = sent[i]
               /\ \E S : rest \in Seq(S)
               /\ \A i \in DOMAIN rest :
                     i \in Nat \ {0} /\ n + i \in DOMAIN sent /\ rest[i] = sent[n + i]
  <1> DEFINE sent == Sent(q, fate)
             b == AnswerTo(q)
  <1>1. PICK T : stream \in Seq(T)
    BY DEF PcsType
  <1> DEFINE S == T \cup ({b} \X Nat)
  <1>2. stream \in Seq(S)
    BY <1>1, Larger
  <1>3. /\ Answer(q) \in Seq({b} \X Nat) /\ Len(Answer(q)) = Size(b.fn)
        /\ \A i \in 1 .. Size(b.fn) : Answer(q)[i] = <<b, i>>
    BY BytesOf DEF Answer
  <1>4. Answer(q) \in Seq(S)
    BY <1>3, Larger
  <1>5. Len(stream) \in Nat /\ DOMAIN stream = 1 .. Len(stream)
    BY <1>2, LenProperties
  <1>6. /\ sent \in Seq(S)
        /\ \E k \in Nat : \A i \in DOMAIN sent :
              /\ i \in Nat \ {0}
              /\ i <= k => i \in DOMAIN stream /\ sent[i] = stream[i]
              /\ i > k => sent[i][1] = b /\ Executed(fate)
    <2>1. CASE fate = "answered"
      <3>1. sent = stream \o Answer(q)
        BY <2>1 DEF Sent
      <3> DEFINE a == Answer(q)
      <3>2. /\ stream \o a \in Seq(S) /\ Len(stream \o a) = Len(stream) + Len(a)
            /\ \A i \in 1 .. Len(stream) + Len(a) :
                  (stream \o a)[i] = IF i <= Len(stream) THEN stream[i] ELSE a[i - Len(stream)]
        BY <1>2, <1>4, ConcatProperties
      <3>3. Len(a) \in Nat /\ \A i \in 1 .. Len(a) : a[i][1] = b
        BY <1>3, <1>4, LenProperties
      <3>4. DOMAIN sent = 1 .. Len(stream) + Len(a)
        BY <3>1, <3>2, LenProperties
      <3> HIDE DEF a, sent
      <3>5. ASSUME NEW i \in DOMAIN sent
            PROVE  /\ i \in Nat \ {0}
                   /\ i <= Len(stream) => i \in DOMAIN stream /\ sent[i] = stream[i]
                   /\ i > Len(stream) => sent[i][1] = b
        <4>1. i \in 1 .. Len(stream) + Len(a)
          BY <3>4
        <4>2. sent[i] = IF i <= Len(stream) THEN stream[i] ELSE a[i - Len(stream)]
          BY <3>1, <3>2, <4>1 DEF a
        <4>3. i > Len(stream) => i - Len(stream) \in 1 .. Len(a)
          BY <1>5, <3>3, <4>1
        <4>4. QED
          BY <1>5, <3>3, <4>1, <4>2, <4>3
      <3>6. Executed(fate)
        BY <2>1 DEF Executed
      <3>7. sent \in Seq(S)
        BY <3>1, <3>2 DEF a
      <3>8. QED
        BY <1>5, <3>5, <3>6, <3>7
    <2>2. CASE fate = "closed"
      <3>1. sent = <<>>
        BY <2>2 DEF Sent
      <3>2. QED
        BY <3>1, EmptySeq
    <2>3. CASE fate \notin {"answered", "closed"}
      <3>1. sent = stream
        BY <2>3 DEF Sent
      <3> HIDE DEF sent
      <3>2. QED
        BY <1>2, <1>5, <3>1
    <2>4. QED
      BY <2>1, <2>2, <2>3
  <1> HIDE DEF sent, S
  <1>7. n \in 0 .. Len(sent)
    <2>1. Len(sent) \in Nat
      BY <1>6, LenProperties
    <2>2. PICK p \in 0 .. Len(sent) : n = IF p < Size(q.fn) THEN p ELSE Size(q.fn)
      BY DEF Counts, Arrived, sent
    <2>3. Size(q.fn) \in Nat
      BY DEF Size
    <2>4. QED
      BY <2>1, <2>2, <2>3
  <1>8. Len(sent) \in Nat /\ DOMAIN sent = 1 .. Len(sent)
    BY <1>6, LenProperties
  <1> DEFINE rest == SubSeq(sent, n + 1, Len(sent))
             read == SubSeq(sent, 1, n)
  <1>9. /\ Len(read) = n /\ \A i \in 1 .. n : read[i] = sent[i]
        /\ rest \in Seq(S) /\ Len(rest) = Len(sent) - n
        /\ \A i \in 1 .. Len(sent) - n : rest[i] = sent[n + i]
    BY <1>6, <1>7, Cut
  <1>10. DOMAIN rest = 1 .. Len(sent) - n
    BY <1>9, LenProperties
  <1>11. rest = Unread(q, fate, n) /\ read = Read(q, fate, n)
    BY DEF Unread, Read, sent
  <1> HIDE DEF rest, read
  <1>12. \A i \in DOMAIN rest :
            i \in Nat \ {0} /\ n + i \in DOMAIN sent /\ rest[i] = sent[n + i]
    BY <1>7, <1>8, <1>9, <1>10
  <1>13. n \in Nat /\ \A i \in 1 .. n : i \in DOMAIN sent /\ read[i] = sent[i]
    BY <1>7, <1>8, <1>9
  <1>14. QED
    BY <1>6, <1>9, <1>11, <1>12, <1>13 DEF sent

(* A read that goes smoothly is accepted.                                  *)
LEMMA ReadAnswered ==
    ASSUME stream = <<>>, NEW q, q.fn = "read", NEW b, b.fn = "read", b.dev = q.dev,
           Answer(q) = Bytes(b), NEW n, n = Size(q.fn)
    PROVE  /\ Accepted(q, Read(q, "answered", n))
           /\ Read(q, "answered", n)[1][1] = b
  <1> DEFINE bytes == Bytes(b)
  <1>1. bytes \in Seq({b} \X Nat) /\ Len(bytes) = n
    BY BytesOf
  <1>2. Sent(q, "answered") = bytes
    <2>1. Sent(q, "answered") = stream \o bytes
      BY DEF Sent
    <2>2. QED
      BY <1>1, <2>1, ConcatEmptySeq
  <1>3. Read(q, "answered", n) = bytes
    BY <1>1, <1>2, Whole DEF Read
  <1>4. bytes[1] = <<b, 1>>
    BY DEF Bytes, Size
  <1>5. bytes[1][1] = b
    BY <1>4
  <1>6. QED
    BY <1>1, <1>3, <1>5 DEF Accepted, Matches

(* With nothing unread, nothing that was given up matters any more.        *)
LEMMA StillKnown ==
    ASSUME EchoesKnown, NEW c \in Dev, NEW w \in Word, <<c, w>> \notin StillGivenUp
    PROVE  Echoes(c, w)
  <1>1. CASE stream = <<>>
    <2>1. DOMAIN stream = {}
      BY <1>1
    <2>2. QED
      BY <2>1 DEF Echoes, EchoesOrdered, EchoesTrue
  <1>2. CASE stream # <<>>
    BY <1>2 DEF StillGivenUp, EchoesKnown
  <1>3. QED
    BY <1>1, <1>2

(* The answer of a read, behind the bytes unread, is no echo.              *)
LEMMA ReadEchoes ==
    ASSUME PcsType, EchoesKnown, ~Writing, NEW q, q.fn = "read", NEW fate \in Fate,
           NEW n \in Counts(q, fate), NEW c \in Dev, NEW w \in Word,
           <<c, w>> \notin StillGivenUp
    PROVE  EchoesTrue(Unread(q, fate, n), c, w)
  <1> DEFINE sent == Sent(q, fate)
             rest == Unread(q, fate, n)
  <1>1. EchoesTrue(stream, c, w)
    BY StillKnown DEF Echoes, WritingTo
  <1>2. AnswerTo(q).fn = "read"
    BY DEF AnswerTo
  <1>3. PICK k \in Nat : \A i \in DOMAIN sent :
           /\ i \in Nat \ {0}
           /\ i <= k => i \in DOMAIN stream /\ sent[i] = stream[i]
           /\ i > k => sent[i][1] = AnswerTo(q) /\ Executed(fate)
    BY Exchange, Zenon
  <1>4. \A i \in DOMAIN rest : n + i \in DOMAIN sent /\ rest[i] = sent[n + i]
    BY Exchange
  <1> HIDE DEF sent, rest
  <1>5. EchoesTrue(sent, c, w)
    <2>1. SUFFICES ASSUME NEW i \in DOMAIN sent, EchoOf(sent[i], c, w)
                   PROVE  sent[i][1].value = word[c][w]
      BY DEF EchoesTrue
    <2>2. i <= k
      BY <1>2, <1>3, <2>1 DEF EchoOf
    <2>3. QED
      BY <1>1, <1>3, <2>1, <2>2 DEF EchoesTrue
  <1>6. QED
    BY <1>4, <1>5 DEF EchoesTrue, rest

(* The echo of a write, behind the bytes unread, says what the device has; *)
(* wd is what it has afterwards.                                           *)
LEMMA WriteEchoes ==
    ASSUME PcsType, EchoesKnown, Writing, query.fn \in {"write", "float"}, NEW fate \in Fate,
           NEW n \in Counts(query, fate), NEW c \in Dev, NEW w \in Word,
           <<c, w>> \notin StillGivenUp, NEW wd,
           WritingTo(c, w) /\ Executed(fate) => wd = query.value,
           ~(WritingTo(c, w) /\ Executed(fate)) => wd = word[c][w]
    PROVE  LET rest == Unread(query, fate, n)
               v == query.value
           IN  /\ ~WritingTo(c, w) =>
                      \A i \in DOMAIN rest : EchoOf(rest[i], c, w) => rest[i][1].value = wd
               /\ WritingTo(c, w) =>
                     \A i \in DOMAIN rest :
                        EchoOf(rest[i], c, w) /\ rest[i][1].value = v
                           => /\ wd = v
                              /\ \A j \in DOMAIN rest : i < j /\ EchoOf(rest[j], c, w)
                                                           => rest[j][1].value = v
               /\ WritingTo(c, w) /\ Accepted(query, Read(query, fate, n)) =>
                     /\ wd = v
                     /\ \A i \in DOMAIN rest : EchoOf(rest[i], c, w) => rest[i][1].value = v
  <1> DEFINE sent == Sent(query, fate)
             rest == Unread(query, fate, n)
             read == Read(query, fate, n)
             v == query.value
  <1>1. Echoes(c, w)
    BY StillKnown
  <1>2. AnswerTo(query) = query
    BY DEF AnswerTo
  <1>3. PICK k \in Nat : \A i \in DOMAIN sent :
           /\ i \in Nat \ {0}
           /\ i <= k => i \in DOMAIN stream /\ sent[i] = stream[i]
           /\ i > k => sent[i][1] = query /\ Executed(fate)
    <2>1. \E k \in Nat : \A i \in DOMAIN sent :
             /\ i \in Nat \ {0}
             /\ i <= k => i \in DOMAIN stream /\ sent[i] = stream[i]
             /\ i > k => sent[i][1] = AnswerTo(query) /\ Executed(fate)
      BY Exchange, Zenon
    <2> HIDE DEF sent
    <2>2. QED
      BY <1>2, <2>1
  <1>4. n \in Nat /\ \A i \in DOMAIN rest :
           i \in Nat \ {0} /\ n + i \in DOMAIN sent /\ rest[i] = sent[n + i]
    BY Exchange
  <1>5. Len(read) = n /\ \A i \in 1 .. n : i \in DOMAIN sent /\ read[i] = sent[i]
    BY Exchange
  <1> HIDE DEF sent, rest, read
  <1>6. ASSUME ~WritingTo(c, w), NEW i \in DOMAIN sent, EchoOf(sent[i], c, w)
        PROVE  sent[i][1].value = wd
    <2>1. i <= k
      BY <1>3, <1>6 DEF EchoOf, WritingTo
    <2>2. stream[i][1].value = word[c][w]
      BY <1>1, <1>3, <1>6, <2>1 DEF Echoes, EchoesTrue
    <2>3. QED
      BY <1>3, <1>6, <2>1, <2>2
  <1>7. ASSUME WritingTo(c, w), NEW i \in DOMAIN sent, EchoOf(sent[i], c, w),
               sent[i][1].value = v
        PROVE  /\ wd = v
               /\ \A j \in DOMAIN sent : i < j /\ EchoOf(sent[j], c, w)
                                            => sent[j][1].value = v
    <2>1. EchoesOrdered(stream, c, w, v)
      BY <1>1, <1>7 DEF Echoes
    <2>2. CASE i <= k
      <3>1. i \in DOMAIN stream /\ sent[i] = stream[i]
        BY <1>3, <2>2
      <3>2. word[c][w] = v /\ \A j \in DOMAIN stream :
               i < j /\ EchoOf(stream[j], c, w) => stream[j][1].value = v
        BY <1>7, <2>1, <3>1 DEF EchoesOrdered
      <3>3. wd = v
        BY <1>7, <3>2
      <3>4. ASSUME NEW j \in DOMAIN sent, i < j, EchoOf(sent[j], c, w)
            PROVE  sent[j][1].value = v
        <4>1. CASE j <= k
          BY <1>3, <3>2, <3>4, <4>1
        <4>2. CASE j > k
          BY <1>3, <4>2
        <4>3. j <= k \/ j > k
          BY <1>3
        <4>4. QED
          BY <4>1, <4>2, <4>3
      <3>5. QED
        BY <3>3, <3>4
    <2>3. CASE i > k
      <3>1. wd = v
        BY <1>3, <1>7, <2>3
      <3>2. ASSUME NEW j \in DOMAIN sent, i < j PROVE sent[j][1].value = v
        <4>1. j > k
          BY <1>3, <2>3, <3>2
        <4>2. QED
          BY <1>3, <4>1
      <3>3. QED
        BY <3>1, <3>2
    <2>4. i <= k \/ i > k
      BY <1>3
    <2>5. QED
      BY <2>2, <2>3, <2>4
  <1>8. ASSUME WritingTo(c, w), Accepted(query, read)
        PROVE  /\ wd = v
               /\ \A j \in DOMAIN sent : 1 < j /\ EchoOf(sent[j], c, w)
                                            => sent[j][1].value = v
    <2>1. read[1][1] = query /\ query.fn = "write" /\ Len(read) = Size(query.fn)
      BY <1>8 DEF Accepted, Matches
    <2>2. 1 \in 1 .. n
      BY <1>4, <1>5, <2>1 DEF Size
    <2>3. 1 \in DOMAIN sent /\ sent[1][1] = query
      BY <1>5, <2>1, <2>2
    <2>4. EchoOf(sent[1], c, w) /\ sent[1][1].value = v
      BY <1>8, <2>1, <2>3 DEF EchoOf, WritingTo
    <2>5. QED
      BY <1>7, <1>8, <2>3, <2>4
  <1>9. ASSUME ~WritingTo(c, w), NEW i \in DOMAIN rest, EchoOf(rest[i], c, w)
        PROVE  rest[i][1].value = wd
    BY <1>4, <1>6, <1>9
  <1>10. ASSUME WritingTo(c, w), NEW i \in DOMAIN rest, EchoOf(rest[i], c, w),
                rest[i][1].value = v
         PROVE  /\ wd = v
                /\ \A j \in DOMAIN rest : i < j /\ EchoOf(rest[j], c, w)
                                             => rest[j][1].value = v
    <2>1. n + i \in DOMAIN sent /\ rest[i] = sent[n + i]
      BY <1>4
    <2>2. wd = v /\ \A j \in DOMAIN sent :
             n + i < j /\ EchoOf(sent[j], c, w) => sent[j][1].value = v
      BY <1>7, <1>10, <2>1
    <2>3. ASSUME NEW j \in DOMAIN rest, i < j, EchoOf(rest[j], c, w)
          PROVE  rest[j][1].value = v
      <3>1. n + j \in DOMAIN sent /\ rest[j] = sent[n + j] /\ n + i < n + j
        BY <1>4, <2>3
      <3>2. QED
        BY <2>2, <2>3, <3>1
    <2>4. QED
      BY <2>2, <2>3
  <1>11. ASSUME WritingTo(c, w), Accepted(query, read), NEW i \in DOMAIN rest,
                EchoOf(rest[i], c, w)
         PROVE  rest[i][1].value = v
    <2>1. n + i \in DOMAIN sent /\ rest[i] = sent[n + i]
      BY <1>4
    <2>2. n >= 1
      BY <1>4, <1>5, <1>11 DEF Accepted, Size
    <2>3. 1 < n + i
      BY <1>4, <2>2
    <2>4. QED
      BY <1>8, <1>11, <2>1, <2>3
  <1>12. QED
    BY <1>8, <1>9, <1>10, <1>11 DEF rest, read

-----------------------------------------------------------------------------
(* Changing a word, and a word of a converter.                             *)
LEMMA Put ==
    ASSUME NEW D, NEW V, NEW f \in [D -> V], NEW x \in D, NEW v
    PROVE  LET g == [f EXCEPT ![x] = v]
           IN  g \in [D -> V \cup {v}] /\ g[x] = v /\ \A y \in D \ {x} : g[y] = f[y]
  OBVIOUS

(* The same in the words of one of the converters.                         *)
LEMMA PutWord ==
    ASSUME NEW V, NEW f \in [Dev -> [Word -> V]], NEW c \in Dev,
           NEW w \in Word, NEW v
    PROVE  LET g == [f EXCEPT ![c][w] = v]
           IN  /\ g \in [Dev -> [Word -> V \cup {v}]]
               /\ g[c][w] = v /\ \A x \in Word \ {w} : g[c][x] = f[c][x]
               /\ \A d \in Dev \ {c} : g[d] = f[d]
  <1> DEFINE g == [f EXCEPT ![c][w] = v]
             h == [f[c] EXCEPT ![w] = v]
  <1>1. h \in [Word -> V \cup {v}]
    OBVIOUS
  <1>2. g = [f EXCEPT ![c] = h]
    OBVIOUS
  <1>3. [Word -> V] \subseteq [Word -> V \cup {v}]
    OBVIOUS
  <1>4. f \in [Dev -> [Word -> V \cup {v}]]
    BY <1>3
  <1>5. h[w] = v /\ \A x \in Word \ {w} : h[x] = f[c][x]
    OBVIOUS
  <1> HIDE DEF h
  <1>6. g \in [Dev -> [Word -> V \cup {v}]] /\ g[c] = h
        /\ \A d \in Dev \ {c} : g[d] = f[d]
    BY <1>1, <1>2, <1>4
  <1>7. QED
    BY <1>5, <1>6

(* The registers of commands are others than the words.                    *)
LEMMA OrderType ==
    ASSUME NEW i \in 1 .. Len(RegisterOrder)
    PROVE  RegisterOrder[i] \in 1 .. 14 /\ RegisterOrder[i] \notin Word
  <1>1. Len(RegisterOrder) = 13
    BY DEF RegisterOrder
  <1>2. i \in {1, 2, 3, 4, 5, 6, 7, 8, 9, 10, 11, 12, 13}
    BY <1>1
  <1>3. RegisterOrder[i] \in 1 .. 14
    BY <1>2 DEF RegisterOrder
  <1>4. QED
    BY <1>3 DEF Word

(* The register a command's bit is in.                                     *)
LEMMA BitType == ASSUME NEW n \in DOMAIN BitOf PROVE BitOf[n].word \in Word
  BY DEF BitOf, Word, WorkMode

(* Nothing is under way, unread or disturbed at the start.                 *)
LEMMA PcsInitInv == ASSUME PcsInit PROVE PcsInv
  <1>1. PcsType
    <2>1. \E V : word \in [Dev -> [Word -> V]]
      <3>1. word \in [Dev -> [Word -> {{6}, {}}]]
        BY DEF PcsInit
      <3>2. QED
        BY <3>1
    <2>2. \E V : shared \in [Word -> V]
      <3>1. shared \in [Word -> {{}, Bits}]
        BY DEF PcsInit
      <3>2. QED
        BY <3>1
    <2>3. at \in 1 .. Len(DevOrder)
      <3>1. Len(DevOrder) \in Nat \ {0}
        BY EmptySeq, EcmPcsAssumption
      <3>2. QED
        BY <3>1 DEF PcsInit
    <2>4. \E S : stream \in Seq(S)
      <3>1. stream \in Seq({})
        BY EmptySeq DEF PcsInit
      <3>2. QED
        BY <3>1
    <2>5. QED
      BY <2>1, <2>2, <2>3, <2>4 DEF PcsInit, PcsType
  <1>2. QueryType /\ MembersIntended /\ WordsIntended /\ DoneIsWritten
    BY DEF PcsInit, QueryType, MembersIntended, WordsIntended, Writing, DoneIsWritten
  <1>3. EchoesKnown
    <2>1. stream = <<>>
      BY DEF PcsInit
    <2>2. DOMAIN stream = {}
      BY <2>1
    <2>3. QED
      BY <2>2 DEF EchoesKnown, Echoes, EchoesTrue, EchoesOrdered
  <1>4. QED
    BY <1>1, <1>2, <1>3 DEF PcsInv

(* A master's command changes the bank only.                               *)
LEMMA CommandStep == ASSUME PcsInv, NEW c \in Commanded, PcsCommand(c) PROVE PcsInv'
  <1>1. UNCHANGED <<word, shared, at, stage, query, stream, intended, disturbed,
                   givenUp>>
        /\ done' = NoQuery
    BY DEF PcsCommand
  <1>2. PcsType' /\ QueryType' /\ MembersIntended' /\ WordsIntended'
    <2>1. PcsType'
      BY <1>1 DEF PcsInv, PcsType
    <2>2. QueryType'
      BY <1>1 DEF PcsInv, QueryType, Writing, Converter
    <2>3. MembersIntended'
      BY <1>1 DEF PcsInv, MembersIntended, Undisturbed, Converter
    <2>4. WordsIntended'
      BY <1>1 DEF PcsInv, WordsIntended, Writing
    <2>5. QED
      BY <2>1, <2>2, <2>3, <2>4
  <1>5. EchoesKnown'
    BY <1>1 DEF PcsInv, EchoesKnown, Echoes, EchoesTrue, EchoesOrdered, WritingTo, Writing
  <1>3. DoneIsWritten'
    BY <1>1 DEF DoneIsWritten
  <1>4. QED
    BY <1>2, <1>3, <1>5 DEF PcsInv

(* A register passed over.                                                 *)
LEMMA SkipStep == ASSUME PcsInv, PassOver PROVE PcsInv'
  <1>1. UNCHANGED <<word, shared, at, query, stream, intended, disturbed,
                   givenUp>>
        /\ done' = NoQuery /\ stage' = stage + 1 /\ ~Writing
    BY DEF PassOver, InCall, Writing
  <1>2. stage \in Nat /\ stage >= 3
    <2>1. stage \in 3 .. Len(RegisterOrder) + 2
      BY DEF PassOver, InCall
    <2>2. QED
      BY <2>1 DEF PcsInv, PcsType
  <1>3. stage' \in Nat
    BY <1>1, <1>2
  <1>4. PcsType'
    BY <1>1, <1>3 DEF PcsInv, PcsType
  <1>5. QueryType' /\ WordsIntended' /\ EchoesKnown' /\ DoneIsWritten'
    <2>1. QueryType' /\ WordsIntended' /\ DoneIsWritten'
      BY <1>1 DEF PcsInv, QueryType, WordsIntended, Writing, DoneIsWritten
    <2>2. EchoesKnown'
      BY <1>1 DEF PcsInv, EchoesKnown, Echoes, EchoesTrue, EchoesOrdered, WritingTo, Writing
    <2>3. QED
      BY <2>1, <2>2
  <1>6. MembersIntended'
    <2>1. stage >= 2
      BY <1>2
    <2>2. QED
      BY <1>1, <1>2, <2>1 DEF PcsInv, MembersIntended, Undisturbed, Converter
  <1>7. QED
    BY <1>4, <1>5, <1>6 DEF PcsInv

(* The end of a call: the members are read anew for the next converter.    *)
LEMMA EndStep == ASSUME PcsInv, EndCall PROVE PcsInv'
  <1>1. UNCHANGED <<word, shared, query, stream, intended, disturbed,
                   givenUp>>
        /\ done' = NoQuery /\ stage' = 1 /\ stage = Len(RegisterOrder) + 3
        /\ at' = (at % Len(DevOrder)) + 1
    BY DEF EndCall
  <1>2. ~Writing
    <2>1. Len(RegisterOrder) \in Nat
      BY DEF RegisterOrder
    <2>2. stage \notin 3 .. Len(RegisterOrder) + 2
      BY <1>1, <2>1
    <2>3. QED
      BY <2>2 DEF PcsInv, QueryType
  <1>3. at' \in 1 .. Len(DevOrder)
    <2>1. PICK n \in Nat \ {0} : n = Len(DevOrder)
      BY EmptySeq, EcmPcsAssumption
    <2>2. at \in 1 .. n
      BY <2>1 DEF PcsInv, PcsType
    <2>3. (at % n) + 1 \in 1 .. n
      BY <2>2
    <2>4. QED
      BY <1>1, <2>1, <2>3
  <1>4. PcsType'
    BY <1>1, <1>3 DEF PcsInv, PcsType
  <1>5. QueryType' /\ WordsIntended' /\ EchoesKnown' /\ DoneIsWritten'
    <2>1. QueryType' /\ WordsIntended' /\ DoneIsWritten'
      BY <1>1, <1>2 DEF PcsInv, QueryType, WordsIntended, Writing, DoneIsWritten
    <2>2. EchoesKnown'
      BY <1>1 DEF PcsInv, EchoesKnown, Echoes, EchoesTrue, EchoesOrdered, WritingTo, Writing
    <2>3. QED
      BY <2>1, <2>2
  <1>6. MembersIntended'
    BY <1>1 DEF MembersIntended
  <1>7. QED
    BY <1>4, <1>5, <1>6 DEF PcsInv

(* A new write: what is unread of the word says what the device has.       *)
LEMMA TakeEchoes ==
    ASSUME EchoesKnown, ~Writing, UNCHANGED <<word, stream, givenUp>>
    PROVE  EchoesKnown'
  <1>1. SUFFICES ASSUME NEW c \in Dev, NEW w \in Word, <<c, w>> \notin givenUp
                 PROVE  Echoes(c, w)'
    BY DEF EchoesKnown
  <1>2. EchoesTrue(stream, c, w)
    BY <1>1 DEF EchoesKnown, Echoes, WritingTo
  <1>3. EchoesTrue(stream, c, w)'
    BY <1>2 DEF EchoesTrue, EchoOf
  <1>4. \A v : EchoesOrdered(stream, c, w, v)'
    BY <1>3 DEF EchoesTrue, EchoesOrdered
  <1>5. QED
    BY <1>3, <1>4 DEF Echoes

(* A command to a bit changes it in the member and in the intended word    *)
(* alike.                                                                  *)
LEMMA TakeStep == ASSUME PcsInv, Take PROVE PcsInv'
  <1> DEFINE c == Converter
             n == Register
  <1>1. /\ UNCHANGED <<word, at, stage, stream, disturbed, givenUp>> /\ done' = NoQuery /\ ~Writing
        /\ stage \in 3 .. Len(RegisterOrder) + 2
    BY DEF Take, InCall, Writing
  <1>2. c \in Dev /\ c' = c
    BY <1>1, ConverterType DEF PcsInv, Converter
  <1>3. n \notin Word
    <2>1. Len(RegisterOrder) \in Nat
      BY DEF RegisterOrder
    <2>2. stage - 2 \in 1 .. Len(RegisterOrder)
      BY <1>1, <2>1
    <2>3. QED
      BY <2>2, OrderType DEF Register
  <1>4. stage >= 3 /\ stage >= 2 /\ stage \in Nat
    <2>1. Len(RegisterOrder) \in Nat
      BY DEF RegisterOrder
    <2>2. QED
      BY <1>1, <2>1
  <1>5. PICK value : value = command[Here(n)].value
    OBVIOUS
  <1>9. EchoesKnown' /\ DoneIsWritten'
    BY <1>1, TakeEchoes DEF PcsInv, DoneIsWritten
  <1>6. CASE n \notin DOMAIN BitOf
    <2>1. /\ UNCHANGED <<shared, intended>>
          /\ query' = [dev |-> c, fn |-> IF n \in 6 .. 11 THEN "float" ELSE "write",
                       reg |-> n, value |-> {value}]
      BY <1>5, <1>6 DEF Take
    <2> HIDE DEF c, n
    <2>2. query'.dev = c /\ query'.reg = n /\ query'.fn \in {"write", "float"}
      BY <2>1
    <2>3. PcsType' /\ QueryType'
      BY <1>1, <1>2, <2>1, <2>2 DEF PcsInv, PcsType, QueryType, c
    <2>4. MembersIntended' /\ DoneIsWritten'
      BY <1>1, <2>1 DEF PcsInv, MembersIntended, Undisturbed, Converter, DoneIsWritten
    <2>5. WordsIntended'
      BY <1>1, <1>3, <2>1, <2>2 DEF PcsInv, WordsIntended, Writing
    <2>6. QED
      BY <1>9, <2>3, <2>4, <2>5 DEF PcsInv
  <1>7. CASE n \in DOMAIN BitOf
    <2>1. PICK w : w = BitOf[n].word
      OBVIOUS
    <2>2. w \in Word
      BY <1>7, <2>1, BitType
    <2>3. PICK s : s = SetBitValue(shared[w], n, value)
      OBVIOUS
    <2>4. PICK t : t = SetBitValue(intended[c][w], n, value)
      OBVIOUS
    <2>5. PICK V : shared \in [Word -> V]
      BY DEF PcsInv, PcsType
    <2>6. PICK U : intended \in [Dev -> [Word -> U]]
      BY DEF PcsInv, PcsType
    <2>7. /\ shared' = [shared EXCEPT ![w] = s]
          /\ query' = [dev |-> c, fn |-> "write", reg |-> w, value |-> shared'[w]]
      BY <1>5, <1>7, <2>1, <2>3 DEF Take
    <2>8. intended' = [intended EXCEPT ![c][w] = t]
      BY <1>5, <1>7, <2>1, <2>4 DEF Take
    <2> HIDE DEF c, n
    <2>9. /\ shared' \in [Word -> V \cup {s}] /\ shared'[w] = s
          /\ \A x \in Word \ {w} : shared'[x] = shared[x]
      BY <2>2, <2>5, <2>7, Put
    <2>10. /\ intended' \in [Dev -> [Word -> U \cup {t}]] /\ intended'[c][w] = t
           /\ \A x \in Word \ {w} : intended'[c][x] = intended[c][x]
           /\ \A d \in Dev \ {c} : intended'[d] = intended[d]
      BY <1>2, <2>2, <2>6, <2>8, PutWord
    <2>11. query'.dev = c /\ query'.reg = w /\ query'.fn \in {"write", "float"} /\ query'.value = s
      BY <2>7, <2>9
    <2>12. PcsType' /\ QueryType'
      <3>1. PcsType'
        BY <1>1, <2>9, <2>10 DEF PcsInv, PcsType
      <3>2. QED
        BY <1>1, <1>2, <2>11, <3>1 DEF QueryType, c
    <2>13. Undisturbed(c) => s = t /\ \A x \in Word : shared[x] = intended[c][x]
      <3>1. Undisturbed(c) => shared[512] = intended[c][512] /\ shared[701] = intended[c][701]
        BY <1>4 DEF PcsInv, MembersIntended, c
      <3>2. Undisturbed(c) => \A x \in Word : shared[x] = intended[c][x]
        BY <3>1 DEF Word
      <3>3. QED
        BY <2>2, <2>3, <2>4, <3>2
    <2>14. Undisturbed(c) => \A x \in Word : shared'[x] = intended'[c][x]
      BY <2>9, <2>10, <2>13
    <2>15. MembersIntended'
      <3>1. 512 \in Word /\ 701 \in Word
        BY DEF Word
      <3>2. SUFFICES ASSUME Undisturbed(c)' 
                     PROVE  shared'[512] = intended'[c][512] /\ shared'[701] = intended'[c][701]
        BY <1>1, <1>2 DEF MembersIntended, c
      <3>3. Undisturbed(c)
        BY <1>1, <1>2, <3>2 DEF Undisturbed
      <3>4. QED
        BY <2>14, <3>1, <3>3
    <2>16. WordsIntended'
      <3>1. SUFFICES ASSUME NEW d \in Dev \ disturbed, NEW x \in Word
                     PROVE  /\ d = c /\ x = w => s = intended'[d][x]
                            /\ ~(d = c /\ x = w) => word[d][x] = intended'[d][x]
        <4>1. Writing'
          BY <2>11 DEF Writing, NoQuery
        <4>2. QED
          BY <1>1, <2>11, <4>1 DEF WordsIntended
      <3>2. word[d][x] = intended[d][x]
        BY <1>1 DEF PcsInv, WordsIntended
      <3>3. ASSUME d = c, x = w PROVE s = intended'[d][x]
        BY <2>10, <2>13, <3>3 DEF Undisturbed
      <3>4. ASSUME d = c, x # w PROVE word[d][x] = intended'[d][x]
        BY <2>10, <3>2, <3>4
      <3>5. ASSUME d # c PROVE word[d][x] = intended'[d][x]
        BY <2>10, <3>2, <3>5
      <3>6. QED
        BY <3>3, <3>4, <3>5
    <2>17. QED
      BY <1>9, <2>12, <2>15, <2>16 DEF PcsInv
  <1>8. QED
    BY <1>6, <1>7

(* A read: the member is the converter's word when nothing disturbs it.    *)
LEMMA ReadStep == ASSUME PcsInv, ReadWord PROVE PcsInv'
  <1> DEFINE c == Converter
  <1>1. PICK w : w = IF stage = 1 THEN 512 ELSE 701
    OBVIOUS
  <1>2. PICK q : q = [dev |-> c, fn |-> "read", reg |-> w, value |-> {}]
    OBVIOUS
  <1>18. PICK fate \in Fate : \E n \in Counts(q, fate) :
           /\ Heard(q, fate, n)
           /\ shared' = IF Accepted(q, Read(q, fate, n))
                        THEN [shared EXCEPT ![w] = Read(q, fate, n)[1][1].value] ELSE shared
    BY <1>1, <1>2 DEF ReadWord
  <1>3. PICK n \in Counts(q, fate) :
           /\ Heard(q, fate, n)
           /\ shared' = IF Accepted(q, Read(q, fate, n))
                        THEN [shared EXCEPT ![w] = Read(q, fate, n)[1][1].value] ELSE shared
    BY <1>18
  <1>4. /\ stage \in {1, 2} /\ stage' = stage + 1 /\ done' = NoQuery
        /\ UNCHANGED <<word, at, query, intended>> /\ givenUp' = StillGivenUp
    BY DEF ReadWord
  <1>5. w \in Word /\ q.fn = "read" /\ q.dev = c /\ q.reg = w
    BY <1>1, <1>2, <1>4 DEF Word
  <1>6. c \in Dev /\ c' = c
    BY <1>4, ConverterType DEF PcsInv, Converter
  <1>7. ~Writing /\ ~Writing'
    BY <1>4 DEF PcsInv, QueryType, Writing
  <1>8. PICK b : b = [q EXCEPT !.value = word[c][w]]
    OBVIOUS
  <1>9. b.fn = "read" /\ b.dev = c /\ b.value = word[c][w] /\ Answer(q) = Bytes(b)
    BY <1>2, <1>5, <1>8 DEF Answer, AnswerTo
  <1>10. /\ stream' = Unread(q, fate, n)
         /\ disturbed' = IF fate = "answered" /\ n = Size(q.fn) /\ stream = <<>> THEN disturbed
                         ELSE disturbed \cup {c}
    BY <1>3, <1>5 DEF Heard, InTime
  <1> HIDE DEF c
  <1>11. \E S : stream' \in Seq(S)
    BY <1>10, Exchange DEF PcsInv
  <1>12. PcsType'
    <2>1. \E V : shared' \in [Word -> V]
      <3>1. PICK V : shared \in [Word -> V]
        BY DEF PcsInv, PcsType
      <3>2. CASE Accepted(q, Read(q, fate, n))
        <4>1. PICK v : v = Read(q, fate, n)[1][1].value
          OBVIOUS
        <4>2. shared' = [shared EXCEPT ![w] = v]
          BY <1>3, <3>2, <4>1
        <4>3. shared' \in [Word -> V \cup {v}]
          BY <1>5, <3>1, <4>2, Put
        <4>4. QED
          BY <4>3
      <3>3. CASE ~Accepted(q, Read(q, fate, n))
        BY <1>3, <3>1, <3>3
      <3>4. QED
        BY <3>2, <3>3
    <2>2. stage' \in Nat
      BY <1>4
    <2>3. disturbed' \subseteq Dev
      BY <1>6, <1>10 DEF PcsInv, PcsType
    <2>4. QED
      BY <1>4, <1>11, <2>1, <2>2, <2>3 DEF PcsInv, PcsType
  <1>13. disturbed \subseteq disturbed'
    BY <1>10
  <1>14. QueryType' /\ EchoesKnown' /\ DoneIsWritten'
    <2>1. QueryType' /\ DoneIsWritten'
      BY <1>4, <1>7 DEF QueryType, DoneIsWritten
    <2>2. ASSUME NEW d \in Dev, NEW x \in Word, <<d, x>> \notin givenUp'
          PROVE  Echoes(d, x)'
      <3>1. EchoesTrue(Unread(q, fate, n), d, x)
        BY <1>4, <1>5, <1>7, <2>2, ReadEchoes DEF PcsInv
      <3>2. EchoesTrue(stream, d, x)'
        BY <1>4, <1>10, <3>1 DEF EchoesTrue
      <3>3. QED
        BY <1>7, <3>2 DEF Echoes, WritingTo
    <2>3. QED
      BY <2>1, <2>2 DEF EchoesKnown
  <1>15. WordsIntended'
    BY <1>4, <1>7, <1>13 DEF PcsInv, WordsIntended
  <1>16. MembersIntended'
    <2>1. SUFFICES ASSUME Undisturbed(c)'
                   PROVE  /\ stage' >= 2 => shared'[512] = intended[c][512]
                          /\ stage' >= 3 => shared'[701] = intended[c][701]
      BY <1>4, <1>6 DEF MembersIntended, c
    <2>2. fate = "answered" /\ n = Size(q.fn) /\ stream = <<>> /\ Undisturbed(c)
      BY <1>6, <1>10, <2>1 DEF Undisturbed
    <2>3. Accepted(q, Read(q, fate, n)) /\ Read(q, fate, n)[1][1] = b
      BY <1>5, <1>9, <2>2, ReadAnswered
    <2>4. shared' = [shared EXCEPT ![w] = word[c][w]]
      BY <1>3, <1>9, <2>3
    <2>5. word[c][w] = intended[c][w]
      BY <1>5, <1>6, <1>7, <2>2 DEF PcsInv, WordsIntended, Undisturbed
    <2>6. PICK V : shared \in [Word -> V]
      BY DEF PcsInv, PcsType
    <2>7. shared'[w] = intended[c][w] /\ \A x \in Word \ {w} : shared'[x] = shared[x]
      BY <1>5, <2>4, <2>5, <2>6, Put
    <2>8. CASE stage = 1
      BY <1>1, <1>4, <2>7, <2>8
    <2>9. CASE stage = 2
      <3>1. shared[512] = intended[c][512]
        BY <2>2, <2>9 DEF PcsInv, MembersIntended, c
      <3>2. w = 701 /\ 512 \in Word \ {w}
        BY <1>1, <2>9 DEF Word
      <3>3. QED
        BY <2>7, <3>1, <3>2
    <2>10. QED
      BY <1>4, <2>8, <2>9
  <1>17. QED
    BY <1>12, <1>14, <1>15, <1>16 DEF PcsInv

(* A try of a write: a device that carries it out has the intended word,   *)
(* and a write is reported as done only when it was carried out.           *)
LEMMA TryStep == ASSUME PcsInv, TryWrite PROVE PcsInv'
  <1> DEFINE c == Converter
  <1>18. PICK fate \in Fate : \E n \in Counts(query, fate) :
           LET accepted == Accepted(query, Read(query, fate, n)) IN
           /\ Heard(query, fate, n)
           /\ word' = IF Executed(fate) /\ query.reg \in Word
                      THEN [word EXCEPT ![c][query.reg] = query.value] ELSE word
           /\ \/ /\ query' = NoQuery /\ stage' = stage + 1
                 /\ ~accepted => <<query.dev, query.reg>> \in givenUp'
              \/ query' = query /\ stage' = stage /\ ~accepted
           /\ StillGivenUp \subseteq givenUp'
           /\ done' = IF accepted THEN query ELSE NoQuery
    BY Zenon DEF TryWrite
  <1>1. PICK n \in Counts(query, fate) :
           LET accepted == Accepted(query, Read(query, fate, n)) IN
           /\ Heard(query, fate, n)
           /\ word' = IF Executed(fate) /\ query.reg \in Word
                      THEN [word EXCEPT ![c][query.reg] = query.value] ELSE word
           /\ \/ /\ query' = NoQuery /\ stage' = stage + 1
                 /\ ~accepted => <<query.dev, query.reg>> \in givenUp'
              \/ query' = query /\ stage' = stage /\ ~accepted
           /\ StillGivenUp \subseteq givenUp'
           /\ done' = IF accepted THEN query ELSE NoQuery
    BY <1>18, Zenon
  <1>2. Writing /\ UNCHANGED <<shared, at, intended>>
    BY DEF TryWrite, Writing
  <1>3. /\ stage \in 3 .. Len(RegisterOrder) + 2
        /\ query.dev = c /\ query.fn \in {"write", "float"}
    BY <1>2 DEF PcsInv, QueryType
  <1>4. c \in Dev /\ c' = c
    BY <1>2, ConverterType DEF PcsInv, Converter
  <1>5. /\ stream' = Unread(query, fate, n)
        /\ disturbed' = IF fate = "answered" /\ n = Size(query.fn) /\ stream = <<>>
                        THEN disturbed ELSE disturbed \cup {c}
    BY <1>1, <1>3 DEF Heard, InTime
  <1>6. stage \in Nat /\ stage' \in Nat /\ stage >= 3 /\ stage' >= 3 /\ stage >= 2
    <2>1. Len(RegisterOrder) \in Nat
      BY DEF RegisterOrder
    <2>2. stage \in Nat /\ stage >= 3
      BY <1>3, <2>1
    <2>3. QED
      BY <1>1, <2>2
  <1> HIDE DEF c
  <1>7. \E S : stream' \in Seq(S)
    BY <1>5, Exchange DEF PcsInv
  <1>8. PICK V : word \in [Dev -> [Word -> V]]
    BY DEF PcsInv, PcsType
  <1>9. /\ \E U : word' \in [Dev -> [Word -> U]]
        /\ Executed(fate) /\ query.reg \in Word => word'[c][query.reg] = query.value
        /\ \A x \in Word : x # query.reg => word'[c][x] = word[c][x]
        /\ \A d \in Dev \ {c} : word'[d] = word[d]
    <2>1. CASE Executed(fate) /\ query.reg \in Word
      <3>1. PICK v, w : v = query.value /\ w = query.reg
        OBVIOUS
      <3>2. word' = [word EXCEPT ![c][w] = v] /\ w \in Word
        BY <1>1, <2>1, <3>1
      <3>3. /\ word' \in [Dev -> [Word -> V \cup {v}]]
            /\ word'[c][w] = v /\ \A x \in Word \ {w} : word'[c][x] = word[c][x]
            /\ \A d \in Dev \ {c} : word'[d] = word[d]
        BY <1>4, <1>8, <3>2, PutWord
      <3>4. QED
        BY <3>1, <3>3
    <2>2. CASE ~(Executed(fate) /\ query.reg \in Word)
      BY <1>1, <1>8, <2>2
    <2>3. QED
      BY <2>1, <2>2
  <1>10. PcsType'
    <2>1. disturbed' \subseteq Dev
      BY <1>4, <1>5 DEF PcsInv, PcsType
    <2>2. QED
      BY <1>2, <1>6, <1>7, <1>9, <2>1 DEF PcsInv, PcsType
  <1>11. QueryType'
    <2>1. CASE query' = NoQuery
      BY <2>1 DEF QueryType, Writing
    <2>2. CASE query' = query /\ stage' = stage
      BY <1>3, <1>4, <2>2 DEF QueryType, c
    <2>3. QED
      BY <1>1, <2>1, <2>2
  <1>12. disturbed \subseteq disturbed'
    BY <1>5
  <1>13. MembersIntended'
    <2>1. SUFFICES ASSUME Undisturbed(c)'
                   PROVE  shared[512] = intended[c][512] /\ shared[701] = intended[c][701]
      BY <1>2, <1>4 DEF MembersIntended, c
    <2>2. Undisturbed(c)
      BY <1>4, <1>12, <2>1 DEF Undisturbed
    <2>3. QED
      BY <1>6, <2>2 DEF PcsInv, MembersIntended, c
  <1>14. WordsIntended'
    <2>1. SUFFICES ASSUME NEW d \in Dev \ disturbed', NEW x \in Word
                   PROVE  /\ d = c /\ x = query.reg =>
                                /\ query.value = intended[d][x] /\ word'[d][x] = intended[d][x]
                          /\ ~(d = c /\ x = query.reg) => word'[d][x] = intended[d][x]
      BY <1>1, <1>2, <1>3 DEF WordsIntended, Writing
    <2>2. IF d = c /\ query.reg = x THEN query.value = intended[d][x]
          ELSE word[d][x] = intended[d][x]
      BY <1>2, <1>3, <1>12 DEF PcsInv, WordsIntended
    <2>3. CASE d = c /\ x = query.reg
      <3>1. fate = "answered"
        BY <1>5, <2>3
      <3>2. Executed(fate)
        BY <3>1 DEF Executed
      <3>3. QED
        BY <1>9, <2>2, <2>3, <3>2
    <2>4. CASE d = c /\ x # query.reg
      BY <1>9, <2>2, <2>4
    <2>5. CASE d # c
      BY <1>9, <2>2, <2>5
    <2>6. QED
      BY <2>3, <2>4, <2>5
  <1>15. ASSUME NEW d \in Dev, NEW x \in Word, <<d, x>> \notin givenUp'
         PROVE  /\ Echoes(d, x)'
                /\ WritingTo(d, x) /\ Accepted(query, Read(query, fate, n))
                      => word'[d][x] = query.value
    <2> DEFINE rest == Unread(query, fate, n)
               v == query.value
               wd == word'[d][x]
               accepted == Accepted(query, Read(query, fate, n))
    <2>1. /\ WritingTo(d, x) /\ Executed(fate) => wd = v
          /\ ~(WritingTo(d, x) /\ Executed(fate)) => wd = word[d][x]
      <3>1. CASE d = c /\ x = query.reg
        <4>0. WritingTo(d, x)
          BY <1>2, <1>3, <3>1 DEF WritingTo
        <4>1. CASE Executed(fate)
          BY <1>9, <3>1, <4>0, <4>1
        <4>2. CASE ~Executed(fate)
          BY <1>1, <3>1, <4>2
        <4>3. QED
          BY <1>2, <1>3, <3>1, <4>1, <4>2 DEF WritingTo
      <3>2. CASE ~(d = c /\ x = query.reg)
        BY <1>3, <1>9, <3>2 DEF WritingTo
      <3>3. QED
        BY <3>1, <3>2
    <2>2. <<d, x>> \notin StillGivenUp
      BY <1>1, <1>15
    <2>3. /\ ~WritingTo(d, x) =>
                \A i \in DOMAIN rest : EchoOf(rest[i], d, x) => rest[i][1].value = wd
          /\ WritingTo(d, x) =>
                \A i \in DOMAIN rest :
                   EchoOf(rest[i], d, x) /\ rest[i][1].value = v
                      => /\ wd = v
                         /\ \A j \in DOMAIN rest : i < j /\ EchoOf(rest[j], d, x)
                                                      => rest[j][1].value = v
          /\ WritingTo(d, x) /\ accepted =>
                /\ wd = v
                /\ \A i \in DOMAIN rest : EchoOf(rest[i], d, x) => rest[i][1].value = v
      <3>1. query.fn \in {"write", "float"}
        BY <1>3
      <3> HIDE DEF wd
      <3>2. QED
        BY <1>2, <2>1, <2>2, <3>1, WriteEchoes DEF PcsInv
    <2>4. stream' = rest
      BY <1>5
    <2> HIDE DEF rest
    <2>5. CASE ~WritingTo(d, x)
      <3>1. ~WritingTo(d, x)'
        BY <1>1, <2>5 DEF WritingTo, Writing
      <3>2. EchoesTrue(stream, d, x)'
        BY <2>3, <2>4, <2>5 DEF EchoesTrue
      <3>3. QED
        BY <2>5, <3>1, <3>2 DEF Echoes
    <2>6. CASE WritingTo(d, x) /\ query' = query
      <3>1. WritingTo(d, x)'
        BY <2>6 DEF WritingTo, Writing
      <3>2. EchoesOrdered(stream, d, x, query.value)'
        BY <2>3, <2>4, <2>6 DEF EchoesOrdered
      <3>3. QED
        BY <2>3, <2>6, <3>1, <3>2 DEF Echoes
    <2>7. CASE WritingTo(d, x) /\ query' = NoQuery
      <3>1. query # NoQuery /\ <<d, x>> = <<query.dev, query.reg>>
        BY <2>7 DEF WritingTo, Writing
      <3>2. accepted
        BY <1>1, <1>15, <2>7, <3>1
      <3>3. ~WritingTo(d, x)'
        BY <2>7 DEF WritingTo, Writing
      <3>4. EchoesTrue(stream, d, x)'
        BY <2>3, <2>4, <2>7, <3>2 DEF EchoesTrue
      <3>5. QED
        BY <2>3, <2>7, <3>2, <3>3, <3>4 DEF Echoes
    <2>8. QED
      BY <1>1, <2>5, <2>6, <2>7
  <1>16. EchoesKnown' /\ DoneIsWritten'
    <2>1. EchoesKnown'
      BY <1>15 DEF EchoesKnown
    <2>2. ASSUME done' # NoQuery, done'.reg \in Word, <<done'.dev, done'.reg>> \notin givenUp'
          PROVE  word'[done'.dev][done'.reg] = done'.value
      <3>1. Accepted(query, Read(query, fate, n)) /\ done' = query
        BY <1>1, <2>2
      <3>2. WritingTo(query.dev, query.reg)
        BY <1>2 DEF WritingTo
      <3>3. query.dev \in Dev /\ query.reg \in Word
        BY <1>3, <1>4, <2>2, <3>1
      <3>4. QED
        BY <1>15, <2>2, <3>1, <3>2, <3>3
    <2>3. QED
      BY <2>1, <2>2 DEF DoneIsWritten
  <1>17. QED
    BY <1>10, <1>11, <1>13, <1>14, <1>16 DEF PcsInv

(* Every step keeps the invariant.                                         *)
LEMMA PcsStep == ASSUME PcsInv, [PcsNext]_pcsVars PROVE PcsInv'
  <1>1. CASE UNCHANGED pcsVars
    <2>1. UNCHANGED <<word, shared, at, stage, query, stream, intended, disturbed, givenUp,
                      done>>
      BY <1>1 DEF pcsVars
    <2>2. PcsType' /\ QueryType' /\ MembersIntended' /\ WordsIntended'
      <3>1. PcsType'
        BY <2>1 DEF PcsInv, PcsType
      <3>2. QueryType'
        BY <2>1 DEF PcsInv, QueryType, Writing, Converter
      <3>3. MembersIntended'
        BY <2>1 DEF PcsInv, MembersIntended, Undisturbed, Converter
      <3>4. WordsIntended'
        BY <2>1 DEF PcsInv, WordsIntended, Writing
      <3>5. QED
        BY <3>1, <3>2, <3>3, <3>4
    <2>3. EchoesKnown' /\ DoneIsWritten'
      <3>1. EchoesKnown'
        BY <2>1 DEF PcsInv, EchoesKnown, Echoes, EchoesTrue, EchoesOrdered, WritingTo, Writing
      <3>2. DoneIsWritten'
        BY <2>1 DEF PcsInv, DoneIsWritten
      <3>3. QED
        BY <3>1, <3>2
    <2>4. QED
      BY <2>2, <2>3 DEF PcsInv
  <1>2. CASE PcsNext
    BY <1>2, ReadStep, SkipStep, TakeStep, TryStep, EndStep, CommandStep
       DEF PcsNext, EcmPcsPreset
  <1>3. QED
    BY <1>1, <1>2

(* PresetSingleRegister: a write reported as done is in the device,        *)
(* although the echo that it accepted may be that of an earlier write,     *)
(* unless a write to the same register was given up since the client last  *)
(* had nothing unread; for any number of converters, tries, commands,      *)
(* losses and late answers.  The echoes unread of writes to a word that    *)
(* were not given up say what the device has, and those of the write under *)
(* way come behind any other.                                              *)
THEOREM WritesAreDone == PcsSpec => []DoneIsWritten
  <1>1. PcsInit => PcsInv
    BY PcsInitInv
  <1>2. PcsInv /\ [PcsNext]_pcsVars => PcsInv'
    BY PcsStep
  <1>3. PcsInv => DoneIsWritten
    BY DEF PcsInv
  <1>4. QED
    BY <1>1, <1>2, <1>3, PTL DEF PcsSpec

(* EcmPcsPreset: although all converters of the thread share m_state and   *)
(* m_mode, a command changes its bit in the word of its converter and      *)
(* nothing else, as long as no query of that converter was lost or late or *)
(* met a late answer; for any number of converters, commands and faults.   *)
THEOREM BitsAreKept == PcsSpec => []UndisturbedIsIntended
  <1>1. PcsInit => PcsInv
    BY PcsInitInv
  <1>2. PcsInv /\ [PcsNext]_pcsVars => PcsInv'
    BY PcsStep
  <1>3. PcsInv => UndisturbedIsIntended
    <2>1. SUFFICES ASSUME PcsInv, NEW c \in Dev \ disturbed, ~(Writing /\ query.dev = c)
                   PROVE  word[c] = intended[c]
      BY DEF UndisturbedIsIntended, Writing
    <2>2. PICK V : word \in [Dev -> [Word -> V]]
      BY <2>1 DEF PcsInv, PcsType
    <2>3. PICK U : intended \in [Dev -> [Word -> U]]
      BY <2>1 DEF PcsInv, PcsType
    <2>4. \A w \in Word : word[c][w] = intended[c][w]
      BY <2>1 DEF PcsInv, WordsIntended
    <2>5. word[c] \in [Word -> V] /\ intended[c] \in [Word -> U]
      BY <2>2, <2>3
    <2>6. QED
      BY <2>4, <2>5
  <1>4. QED
    BY <1>1, <1>2, <1>3, PTL DEF PcsSpec
==============================================================================
