------------------------------- MODULE MCEcmPcs ------------------------------
(* Two converters: start and set-point of the first, start and working     *)
(* mode of the second.                                                     *)
EXTENDS EcmPcs
MCDevOrder == <<1, 2>>
MCCommanded == {<<1, 1>>, <<1, 6>>, <<2, 1>>, <<2, 3>>}
==============================================================================
