---------------------------- MODULE MCControlLink ----------------------------
(* ControlLink over one network and over two.                              *)
EXTENDS ControlLink
MCOne == {"A"}
MCTwo == {"A", "B"}
==============================================================================
