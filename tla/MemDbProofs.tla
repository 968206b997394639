----------------------------- MODULE MemDbProofs -----------------------------
(* Theorems of MemDb: its invariants hold, and it implements a CommandSlot *)
(* in every register, for any registers, threads and bounds.               *)
EXTENDS MemDb, SequenceTheorems, TLAPS

-----------------------------------------------------------------------------
(* SetRealData turns a cell into a cell.                                   *)
LEMMA StoredType ==
    ASSUME NEW c \in Cell,
           NEW data \in [value : Nat, type : DataType, writed : BOOLEAN]
    PROVE  Stored(c, data) \in Cell
  BY MemDbAssumption, RealDataAssumption DEF Stored, Withholds, Cell, DataType

(* A command is never withheld.                                            *)
LEMMA CommandStored ==
    ASSUME NEW c, NEW n, NEW type
    PROVE  Stored(c, [value |-> n, type |-> type, writed |-> TRUE])
             = [value |-> n, type |-> type, writed |-> TRUE, writed_num |-> 0]
  BY DEF Stored, Withholds

(* Storing a command keeps the bank well typed, whatever it is stored in.  *)
LEMMA StoreCommandType ==
    ASSUME TypeOK, NEW a \in Addr, NEW type \in DataType, StoreCommand(a, type)
    PROVE  cell' \in [Addr -> Cell] /\ issued' \in 0 .. MaxCommand
  <1>1. [value |-> issued + 1, type |-> type, writed |-> TRUE]
            \in [value : Nat, type : DataType, writed : BOOLEAN]
    BY DEF TypeOK
  <1>2. Stored(cell[a], [value |-> issued + 1, type |-> type, writed |-> TRUE]) \in Cell
    BY <1>1, StoredType DEF TypeOK
  <1>3. QED
    BY <1>2, MemDbAssumption, RealDataAssumption DEF TypeOK, StoreCommand, SetRealData

(* The bank, the requests and the histories keep their types.              *)
LEMMA TypeStep == TypeOK /\ WaitingIsNewest /\ [Next]_vars => TypeOK'
  <1> SUFFICES ASSUME TypeOK, WaitingIsNewest, [Next]_vars PROVE TypeOK'
    OBVIOUS
  <1>1. ASSUME NEW a \in Addr, NEW type \in DataType, SaveCtrlData(a, type) PROVE TypeOK'
    BY <1>1, StoreCommandType DEF SaveCtrlData, TypeOK
  <1>2. ASSUME NEW a \in Addr, NEW s \in Service, ReadType(s, a) PROVE TypeOK'
    <2>1. cell[a].type \in DataType
      BY DEF TypeOK, Cell
    <2>2. QED
      BY <1>2, <2>1 DEF ReadType, TypeOK
  <1>3. ASSUME NEW a \in Addr, Measure(a) PROVE TypeOK'
    <2>1. [value |-> Measured, type |-> SensorType[a], writed |-> FALSE]
              \in [value : Nat, type : DataType, writed : BOOLEAN]
      BY MemDbAssumption, RealDataAssumption DEF Measured
    <2>2. Stored(cell[a], [value |-> Measured, type |-> SensorType[a], writed |-> FALSE]) \in Cell
      BY <2>1, StoredType DEF TypeOK
    <2>3. QED
      BY <1>3, <2>2 DEF Measure, SetRealData, TypeOK
  <1>4. ASSUME NEW a \in Addr, GetRealDataWrited(a) PROVE TypeOK'
    <2>1. cell[a].value \in 1 .. MaxCommand
      BY <1>4, MemDbAssumption, RealDataAssumption DEF WaitingIsNewest, GetRealDataWrited, TypeOK
    <2>2. ClearWrited(cell[a]) \in Cell
      BY DEF ClearWrited, TypeOK, Cell
    <2>3. taken' \in [Addr -> Seq(1 .. MaxCommand)]
      BY <1>4, <2>1 DEF GetRealDataWrited, TypeOK
    <2>4. QED
      BY <1>4, <2>2, <2>3 DEF GetRealDataWrited, TypeOK
  <1>5. ASSUME NEW s \in Service, SetRealDataUnknown(s) PROVE TypeOK'
    BY <1>5, StoreCommandType DEF SetRealDataUnknown, TypeOK
  <1>6. CASE UNCHANGED vars
    BY <1>6 DEF vars, TypeOK
  <1>7. QED
    BY <1>1, <1>2, <1>3, <1>4, <1>5, <1>6 DEF Next

-----------------------------------------------------------------------------
(* A measurement that is stored leaves no waiting command; one that is     *)
(* withheld leaves the waiting command as it was.                          *)
LEMMA MeasureEffect ==
    ASSUME TypeOK, NEW a \in Addr, Measure(a), cell'[a].writed
    PROVE  /\ cell[a].writed
           /\ cell'[a].value = cell[a].value
           /\ cell'[a].writed_num = cell[a].writed_num + 1
           /\ cell[a].writed_num < WRITED_NUM
  <1>1. cell[a] \in Cell
    BY DEF TypeOK
  <1>2. cell'[a] = Stored(cell[a],
                     [value |-> Measured, type |-> SensorType[a], writed |-> FALSE])
    BY DEF Measure, SetRealData, TypeOK
  <1>3. QED
    BY <1>1, <1>2 DEF Stored, Withholds, Cell

(* Other registers are untouched by a step of register a.                  *)
LEMMA Elsewhere ==
    ASSUME TypeOK, NEW a \in Addr, NEW d, NEW b \in Addr, b # a, SetRealData(a, d)
    PROVE  cell'[b] = cell[b]
  BY DEF SetRealData, TypeOK

(* The numbers of the commands taken increase, and what waits is newer.    *)
LEMMA OrderStep == IInv /\ [Next]_vars => (TakenOnceInOrder /\ WaitingIsNewest)'
  <1> SUFFICES ASSUME IInv, [Next]_vars PROVE (TakenOnceInOrder /\ WaitingIsNewest)'
    OBVIOUS
  <1> USE DEF IInv
  <1>0. TypeOK /\ TypeOK'
    BY TypeStep
  <1>1. ASSUME NEW a \in Addr, NEW type \in DataType, StoreCommand(a, type), taken' = taken
        PROVE  (TakenOnceInOrder /\ WaitingIsNewest)'
    <2>1. issued' = issued + 1 /\ issued \in Nat
      BY <1>0, <1>1, MemDbAssumption, RealDataAssumption DEF StoreCommand, TypeOK
    <2>2. /\ cell'[a].value = issued + 1
          /\ \A b \in Addr : b # a => cell'[b] = cell[b]
      <3>1. cell'[a] = Stored(cell[a], [value |-> issued + 1, type |-> type, writed |-> TRUE])
        BY <1>0, <1>1 DEF StoreCommand, SetRealData, TypeOK
      <3>2. cell'[a] = [value |-> issued + 1, type |-> type, writed |-> TRUE, writed_num |-> 0]
        BY <3>1, CommandStored
      <3>3. \A b \in Addr : b # a => cell'[b] = cell[b]
        BY <1>0, <1>1, Elsewhere DEF StoreCommand
      <3>4. QED
        BY <3>2, <3>3
    <2>3. taken \in [Addr -> Seq(Nat)]
      BY <1>0, MemDbAssumption, RealDataAssumption DEF TypeOK
    <2>4. \A b \in Addr : \A i \in 1 .. Len(taken[b]) : taken[b][i] \in Nat
      BY <2>3
    <2>5. QED
      BY <1>1, <2>1, <2>2, <2>4 DEF TakenOnceInOrder, WaitingIsNewest
  <1>2. ASSUME NEW a \in Addr, NEW type \in DataType, SaveCtrlData(a, type)
        PROVE  (TakenOnceInOrder /\ WaitingIsNewest)'
    BY <1>1, <1>2 DEF SaveCtrlData
  <1>3. ASSUME NEW s \in Service, SetRealDataUnknown(s)
        PROVE  (TakenOnceInOrder /\ WaitingIsNewest)'
    <2>1. request[s].addr \in Addr /\ request[s].type \in DataType
      BY <1>0, <1>3 DEF SetRealDataUnknown, TypeOK
    <2>2. QED
      BY <1>1, <1>3, <2>1 DEF SetRealDataUnknown
  <1>4. ASSUME NEW a \in Addr, NEW s \in Service, ReadType(s, a)
        PROVE  (TakenOnceInOrder /\ WaitingIsNewest)'
    BY <1>4 DEF ReadType, TakenOnceInOrder, WaitingIsNewest
  <1>5. ASSUME NEW a \in Addr, Measure(a)
        PROVE  (TakenOnceInOrder /\ WaitingIsNewest)'
    <2>1. \A b \in Addr : b # a => cell'[b] = cell[b]
      BY <1>0, <1>5, Elsewhere DEF Measure
    <2>2. cell'[a].writed => cell[a].writed /\ cell'[a].value = cell[a].value
      BY <1>0, <1>5, MeasureEffect
    <2>3. QED
      BY <1>5, <2>1, <2>2 DEF Measure, TakenOnceInOrder, WaitingIsNewest
  <1>6. ASSUME NEW a \in Addr, GetRealDataWrited(a)
        PROVE  (TakenOnceInOrder /\ WaitingIsNewest)'
    <2> DEFINE n == Len(taken[a])
    <2>1. /\ taken[a] \in Seq(1 .. MaxCommand)
          /\ cell[a] \in Cell /\ cell[a].writed
          /\ cell[a].value \in 1 .. MaxCommand /\ cell[a].value <= issued
          /\ issued' = issued /\ issued \in Nat
      BY <1>0, <1>6, MemDbAssumption, RealDataAssumption DEF GetRealDataWrited, TypeOK, WaitingIsNewest
    <2>2. /\ taken'[a] = Append(taken[a], cell[a].value)
          /\ cell'[a] = ClearWrited(cell[a])
          /\ \A b \in Addr : b # a => cell'[b] = cell[b] /\ taken'[b] = taken[b]
      BY <1>0, <1>6 DEF GetRealDataWrited, TypeOK
    <2>3. ~ cell'[a].writed
      BY <2>1, <2>2 DEF ClearWrited, Cell
    <2>4. /\ n \in Nat /\ Len(taken'[a]) = n + 1
          /\ taken'[a][n + 1] = cell[a].value
          /\ \A i \in 1 .. n : taken'[a][i] = taken[a][i] /\ taken[a][i] \in 1 .. MaxCommand
      <3>1. n \in Nat /\ \A i \in 1 .. n : taken[a][i] \in 1 .. MaxCommand
        BY <2>1, LenProperties, ElementOfSeq
      <3>2. QED
        BY <2>1, <2>2, <3>1, AppendProperties
    <2>5. \A i \in 1 .. n : taken[a][i] <= issued /\ taken[a][i] < cell[a].value
      BY <2>1 DEF WaitingIsNewest
    <2>6. \A i, j \in 1 .. n + 1 : i < j => taken'[a][i] < taken'[a][j]
      <3>1. \A i, j \in 1 .. n : i < j => taken[a][i] < taken[a][j]
        BY DEF TakenOnceInOrder
      <3>2. \A i \in 1 .. n : taken'[a][i] < taken'[a][n + 1]
        BY <2>4, <2>5
      <3>3. \A i, j \in 1 .. n : i < j => taken'[a][i] < taken'[a][j]
        BY <2>4, <3>1
      <3>4. SUFFICES ASSUME NEW i \in 1 .. n + 1, NEW j \in 1 .. n + 1, i < j
                     PROVE  taken'[a][i] < taken'[a][j]
        OBVIOUS
      <3>5. i \in 1 .. n
        BY <2>4, <3>4
      <3>6. CASE j = n + 1
        BY <3>2, <3>5, <3>6
      <3>7. CASE j # n + 1
        <4>1. j \in 1 .. n
          BY <2>4, <3>7
        <4>2. QED
          BY <3>3, <3>4, <3>5, <4>1
      <3>8. QED
        BY <3>6, <3>7
    <2>7. \A i \in 1 .. n + 1 : taken'[a][i] <= issued
      BY <2>1, <2>4, <2>5
    <2>8. TakenOnceInOrder'
      BY <2>2, <2>4, <2>6 DEF TakenOnceInOrder
    <2>9. WaitingIsNewest'
      BY <2>1, <2>2, <2>3, <2>4, <2>7 DEF WaitingIsNewest
    <2>10. QED
      BY <2>8, <2>9
  <1>7. CASE UNCHANGED vars
    BY <1>7 DEF vars, TakenOnceInOrder, WaitingIsNewest
  <1>8. QED
    BY <1>2, <1>3, <1>4, <1>5, <1>6, <1>7 DEF Next

LEMMA InitIInv == Init => IInv
  <1> SUFFICES ASSUME Init PROVE IInv
    OBVIOUS
  <1>1. cell \in [Addr -> Cell] /\ \A a \in Addr : ~ cell[a].writed
    BY MemDbAssumption, RealDataAssumption DEF Init, Cell, Measured
  <1>2. \A a \in Addr : taken[a] = << >>
    BY DEF Init
  <1>3. TypeOK
    BY <1>1, <1>2, MemDbAssumption, RealDataAssumption DEF Init, TypeOK
  <1>4. QED
    BY <1>1, <1>2, <1>3, EmptySeq DEF IInv, TakenOnceInOrder, WaitingIsNewest

LEMMA Inductive == Spec => []IInv
  <1>1. IInv /\ [Next]_vars => IInv'
    BY TypeStep, OrderStep DEF IInv
  <1>2. QED
    BY <1>1, InitIInv, PTL DEF Spec

(* The bank is well typed: in particular a command number is never a       *)
(* measurement and the withheld count never passes WRITED_NUM.             *)
THEOREM TypeCorrect == Spec => []TypeOK
  BY Inductive, PTL DEF IInv

(* Every command is taken at most once and in the order of issue.          *)
THEOREM CommandsInOrder == Spec => []TakenOnceInOrder
  BY Inductive, PTL DEF IInv

(* A command that waits is newer than every command that was taken.        *)
THEOREM WaitingStaysNewest == Spec => []WaitingIsNewest
  BY Inductive, PTL DEF IInv

-----------------------------------------------------------------------------
(* The refinement: each step of the bank is a step of the slots or leaves  *)
(* them as they are.                                                       *)
LEMMA SlotInit == Init => Slot!Init
  BY DEF Init, Slot!Init, Slot!NoCommand, Waiting, Outlived, Measured

(* A command put in a register, whichever thread stores it.                *)
LEMMA SlotPut ==
    ASSUME TypeOK, NEW a \in Addr, NEW type \in DataType, StoreCommand(a, type), taken' = taken
    PROVE  Slot!Put(a)
  <1>1. cell' = [cell EXCEPT ![a] = [value |-> issued + 1, type |-> type,
                                    writed |-> TRUE, writed_num |-> 0]]
    BY CommandStored DEF StoreCommand, SetRealData
  <1>2. QED
    BY <1>1 DEF StoreCommand, TypeOK, Slot!Put, Waiting, Outlived

(* A measurement is withheld, evicts an expired command, or meets none.    *)
LEMMA SlotMeasure ==
    ASSUME TypeOK, NEW a \in Addr, Measure(a), WaitingIsNewest
    PROVE  Slot!Outlive(a) \/ Slot!Evict(a) \/ UNCHANGED Slot!slotVars
  <1> DEFINE data == [value |-> Measured, type |-> SensorType[a], writed |-> FALSE]
  <1>1. /\ cell' = [cell EXCEPT ![a] = Stored(cell[a], data)]
        /\ UNCHANGED <<issued, taken>>
    BY DEF Measure, SetRealData
  <1>2. cell[a] \in Cell /\ cell \in [Addr -> Cell]
    BY DEF TypeOK
  <1>3. cell[a].writed => cell[a].value # 0
    BY DEF WaitingIsNewest, TypeOK
  <1>4. CASE Withholds(cell[a], data)
    <2>1. cell' = [cell EXCEPT ![a] = [cell[a] EXCEPT !.writed_num = cell[a].writed_num + 1]]
      BY <1>1, <1>4 DEF Stored
    <2>2. Waiting(cell[a]) # 0 /\ Outlived(cell[a]) < WRITED_NUM
      BY <1>3, <1>4 DEF Withholds, Waiting, Outlived
    <2>3. cell[a].writed /\ cell'[a].writed /\ cell'[a].value = cell[a].value
      BY <1>2, <1>4, <2>1 DEF Withholds, Cell
    <2>4. \A b \in Addr : Waiting(cell[b])' = Waiting(cell[b])
      BY <1>2, <2>1, <2>3 DEF Waiting
    <2>5. \A b \in Addr : Outlived(cell[b])' =
              IF b = a THEN Outlived(cell[b]) + 1 ELSE Outlived(cell[b])
      BY <1>2, <2>1, <2>3 DEF Outlived, Cell
    <2>6. Slot!Outlive(a)
      BY <1>1, <2>2, <2>4, <2>5 DEF Slot!Outlive, Slot!NoCommand
    <2>7. QED
      BY <2>6
  <1>5. CASE ~ Withholds(cell[a], data)
    <2>1. cell' = [cell EXCEPT ![a] = [value |-> Measured, type |-> SensorType[a],
                                      writed |-> FALSE, writed_num |-> 0]]
      BY <1>1, <1>5 DEF Stored
    <2>2. CASE cell[a].writed
      <3>1. cell[a].writed_num = WRITED_NUM
        BY <1>2, <1>5, <2>2, MemDbAssumption, RealDataAssumption DEF Withholds, Cell
      <3>2. Waiting(cell[a]) # 0 /\ Outlived(cell[a]) = WRITED_NUM
        BY <1>3, <2>2, <3>1 DEF Waiting, Outlived
      <3>3. \A b \in Addr : Waiting(cell[b])' = IF b = a THEN 0 ELSE Waiting(cell[b])
        BY <1>2, <2>1 DEF Waiting, Measured
      <3>4. \A b \in Addr : Outlived(cell[b])' = IF b = a THEN 0 ELSE Outlived(cell[b])
        BY <1>2, <2>1 DEF Outlived
      <3>5. Slot!Evict(a)
        BY <1>1, <3>2, <3>3, <3>4 DEF Slot!Evict, Slot!NoCommand
      <3>6. QED
        BY <3>5
    <2>3. CASE ~ cell[a].writed
      <3>1. \A b \in Addr : Waiting(cell[b])' = Waiting(cell[b]) /\ Outlived(cell[b])' = Outlived(cell[b])
        BY <1>2, <2>1, <2>3 DEF Waiting, Outlived, Measured
      <3>2. QED
        BY <1>1, <3>1 DEF Slot!slotVars
    <2>4. QED
      BY <2>2, <2>3
  <1>6. QED
    BY <1>4, <1>5

LEMMA SlotTake ==
    ASSUME TypeOK, NEW a \in Addr, GetRealDataWrited(a), WaitingIsNewest
    PROVE  Slot!Take(a)
  <1>1. cell[a] \in Cell /\ cell \in [Addr -> Cell]
    BY DEF TypeOK
  <1>2. cell[a].value # 0
    BY DEF WaitingIsNewest, TypeOK, GetRealDataWrited
  <1>3. cell' = [cell EXCEPT ![a] = [cell[a] EXCEPT !.writed = FALSE]]
    BY DEF GetRealDataWrited, ClearWrited
  <1>4. QED
    BY <1>1, <1>2, <1>3
       DEF GetRealDataWrited, Cell, Slot!Take, Slot!NoCommand, Waiting, Outlived, Measured

LEMMA SlotStep == IInv /\ [Next]_vars => [Slot!Next]_(Slot!slotVars)
  <1> SUFFICES ASSUME IInv, [Next]_vars PROVE [Slot!Next]_(Slot!slotVars)
    OBVIOUS
  <1>0. TypeOK /\ WaitingIsNewest
    BY DEF IInv
  <1>1. ASSUME NEW a \in Addr, NEW type \in DataType, SaveCtrlData(a, type) PROVE Slot!Next
    BY <1>0, <1>1, SlotPut DEF SaveCtrlData, Slot!Next
  <1>2. ASSUME NEW a \in Addr, NEW s \in Service, ReadType(s, a) PROVE UNCHANGED Slot!slotVars
    BY <1>2 DEF ReadType, Slot!slotVars
  <1>3. ASSUME NEW a \in Addr, Measure(a) PROVE [Slot!Next]_(Slot!slotVars)
    BY <1>0, <1>3, SlotMeasure DEF Slot!Next
  <1>4. ASSUME NEW a \in Addr, GetRealDataWrited(a) PROVE Slot!Next
    BY <1>0, <1>4, SlotTake DEF Slot!Next
  <1>5. ASSUME NEW s \in Service, SetRealDataUnknown(s) PROVE Slot!Next
    <2>1. request[s].addr \in Addr /\ request[s].type \in DataType
      BY <1>0, <1>5 DEF SetRealDataUnknown, TypeOK
    <2>2. QED
      BY <1>0, <1>5, <2>1, SlotPut DEF SetRealDataUnknown, Slot!Next
  <1>6. CASE UNCHANGED vars
    BY <1>6 DEF vars, Slot!slotVars
  <1>7. QED
    BY <1>1, <1>2, <1>3, <1>4, <1>5, <1>6 DEF Next

(* The bank implements the slot of every register: a waiting command goes  *)
(* away by being taken, by a newer one, or after WRITED_NUM withheld       *)
(* measurements, and in no other way.                                      *)
THEOREM BankImplementsSlots == Spec => SlotSpec
  BY SlotInit, SlotStep, Inductive, PTL DEF Spec, SlotSpec, Slot!Spec
==============================================================================
