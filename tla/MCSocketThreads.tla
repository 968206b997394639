--------------------------- MODULE MCSocketThreads ---------------------------
(* SocketThreads with two device addresses.                                *)
EXTENDS SocketThreads
CONSTANTS a1, a2
MCAddr == {a1, a2}
==============================================================================
