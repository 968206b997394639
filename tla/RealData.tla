------------------------------ MODULE RealData -------------------------------
(***************************************************************************)
(* One register of the bank (RealData in db/MemDb.h) and what a store and  *)
(* a read that takes the command make of it.                               *)
(***************************************************************************)
EXTENDS Integers

CONSTANT WRITED_NUM   \* measurements withheld from a commanded register

ASSUME RealDataAssumption == WRITED_NUM \in Nat

DataType == {"INT", "DB"}

(* The register after SetRealData(addr, data): a measurement that meets a  *)
(* waiting command is counted and dropped, until WRITED_NUM were dropped.  *)
Withholds_OneMore(c, data) == c.writed /\ ~data.writed /\ c.writed_num <= WRITED_NUM  \* mutant
Withholds(c, data) == c.writed /\ ~data.writed /\ c.writed_num < WRITED_NUM

Stored_KeepsCount(c, data) ==  \* mutant: writed_num is not reset
    IF Withholds(c, data)
    THEN [c EXCEPT !.writed_num = @ + 1]
    ELSE [value |-> data.value, type |-> data.type, writed |-> data.writed,
          writed_num |-> c.writed_num]

Stored_KeepsFlag(c, data) ==  \* mutant: a measurement leaves the flag of the command it evicts
    IF Withholds(c, data)
    THEN [c EXCEPT !.writed_num = @ + 1]
    ELSE [value |-> data.value, type |-> data.type, writed |-> data.writed \/ c.writed,
          writed_num |-> 0]

Stored(c, data) ==
    IF Withholds(c, data)
    THEN [c EXCEPT !.writed_num = @ + 1]
    ELSE [value |-> data.value, type |-> data.type, writed |-> data.writed, writed_num |-> 0]

ClearWrited_Not(c) == c  \* mutant: clear is ignored
ClearWrited(c) == [c EXCEPT !.writed = FALSE]
==============================================================================
