---------------------------- MODULE MCModbusServer ----------------------------
(* ModbusServer with words of two bits and a bank of two registers, stored *)
(* as INT and as float.  The waiting client reads both, commands both,     *)
(* gives two registers one word, and asks for what Check refuses or for    *)
(* register RegEnd, which Check lets pass and the bank does not have; the  *)
(* pipelining one commands one or both and reads.                          *)
EXTENDS ModbusServer
CONSTANTS waiting, pipelining

R(order, start, length, words) ==
    [order |-> order, start |-> start, length |-> length, words |-> words]

MCConn == {waiting, pipelining}
MCSends == [c \in MCConn |->
    IF c = waiting THEN {R("registers", 0, 2, <<>>), R("multiple", 0, 2, <<1, 0>>),
                         R("multiple", 0, 2, <<1>>), R("registers", 1, 2, <<>>),
                         R("single", 2, 1, <<1>>), R("unknown", 0, 1, <<>>)}
    ELSE {R("single", 1, 1, <<2>>), R("multiple", 0, 2, <<2, 3>>),
          R("registers", 1, 1, <<>>), R("coils", 0, 1, <<>>)}]
MCMaxRequest == [c \in MCConn |-> IF c = waiting THEN 1 ELSE 2]
MCSensorType == [a \in 0 .. 1 |-> IF a = 0 THEN "INT" ELSE "DB"]
===============================================================================
