------------------------------ MODULE MCTcpLink ------------------------------
(* TcpLink with two descriptors and two request numbers.                 *)
EXTENDS TcpLink
CONSTANTS k1, k2
MCConns == {k1, k2}
MCRequests == 1 .. 2
==============================================================================
