------------------------------- MODULE MCMemDb -------------------------------
(* MemDb with two registers, one stored as INT and one as float.           *)
EXTENDS MemDb
MCAddr == {"start", "power"}
MCSensorType == [a \in MCAddr |-> IF a = "power" THEN "DB" ELSE "INT"]

==============================================================================
