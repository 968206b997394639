------------------------------ MODULE MCRlcLoad ------------------------------
(* Two phases; one bank that is also commanded by itself.  When the        *)
(* program starts the device is loaded, and phase B has steps connected    *)
(* that Preset never connects.                                             *)
EXTENDS RlcLoad
MCPhaseOrder == <<"A", "B">>
MCPower == {-2, 10}
MCDirect == {<<"B", "L">>}
MCAtStart == {[steps |-> [b \in Bank |-> IF b[1] = "A" THEN {} ELSE {2, 4}],
               coil |-> [c \in Coils |-> c = "load"]]}
==============================================================================
