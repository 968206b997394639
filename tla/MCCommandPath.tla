---------------------------- MODULE MCCommandPath ----------------------------
(* A contactor, a device without commands, another station's contactor and *)
(* a photovoltaic plant, of which two registers are commanded.  Where they *)
(* are in the bank is what DeviceMap computes of their rows.               *)
EXTENDS CommandPath
DM == INSTANCE DeviceMap
MCNet == {"A"}
PvRow(type, no) == [sysType |-> DM!PVS, subType1 |-> DM!PVS, subType1No |-> 1,
                    subType2 |-> type, subType2No |-> no]
MCRange == DM!InitSlaveDevConfig(<<PvRow(34, 1), PvRow(22000, 1), PvRow(34, 2), PvRow(15, 1)>>)
MCSlaveDev == << [own |-> 1, devType |-> "DC_DO", regStart |-> MCRange[1].start],
                 [own |-> 1, devType |-> "HC201", regStart |-> MCRange[2].start],
                 [own |-> 2, devType |-> "DC_DO", regStart |-> MCRange[3].start],
                 [own |-> 1, devType |-> "PV", regStart |-> MCRange[4].start] >>
MCCommanded == {9000, 9200, 9201}
==============================================================================
