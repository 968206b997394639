------------------------------ MODULE DeviceMap ------------------------------
(***************************************************************************)
(* Which registers of the bank a device of the configuration has           *)
(* (db/Device): GetMemAddr and the functions it calls, and the loop of     *)
(* InitSlaveDevConfig over the rows of the table dev_slave.                *)
(***************************************************************************)
EXTENDS Integers, Sequences

MAX_LENGTH == 65535   \* registers of the bank

(* DeviceType, as far as the addresses depend on it.                       *)
MCCS == 0
GRID == 1
DGS == 2
LOADS == 3
PVS == 4
WTS == 5
DCS == 6
EVN == 28
Outputs == {10, 32, 33, 34}      \* DO, DO_OPT, DC_DO_OPT, DC_DO
Inputs == {11, 35}               \* DI, DC_DI
Storage == {26, 27}              \* SUPCAP, LIION
SIGNAL_MODULE == 39
CNCU == 54
SIMU_CABLE == 43
SIMU_PV == 41
Blocks == {2000 * k : k \in 1 .. 18}   \* FJ .. HJ_DCLOAD: each has its own block

(* Registers of one device in its block.                                   *)
BlockLen(type) ==
    CASE type \in {2000, 14000, 18000, 20000} -> 200
      [] type \in {4000, 6000, 8000, 10000, 12000, 16000} -> 100
      [] type = 26000 -> 10
      [] type = 32000 -> 350
      [] OTHER -> 50

(* GetType2Addr: the first device of a type, the distance of the next, and *)
(* the number of registers.                                                *)
Row(base, step, len) == [base |-> base, step |-> step, len |-> len]

AcPlace(type) ==
    IF type \in Blocks THEN Row(type, BlockLen(type), BlockLen(type))
    ELSE CASE type \in Storage -> Row(400, 0, 400)
           [] type \in Outputs -> Row(0, 1, 1)
           [] type \in Inputs -> Row(100, 1, 1)
           [] type = EVN -> Row(0, 0, 100)
           [] type = SIGNAL_MODULE -> Row(3200, 100, 100)
           [] type = 60 -> Row(6900, 50, 50)
           [] type = 61 -> Row(9250, 10, 10)
           [] type = 62 -> Row(0, 200, 200)
           [] type = 63 -> Row(9650, 50, 50)
           [] OTHER -> Row(200, 100, 100)

DcPlace(type) ==
    CASE type \in Outputs -> Row(70, 1, 1)
      [] type \in Inputs -> Row(80, 1, 1)
      [] type = CNCU -> Row(0, 300, 300)
      [] type = SIMU_CABLE -> Row(0, 40, 40)
      [] type = SIMU_PV -> Row(0, 100, 100)
      [] OTHER -> Row(90, 1, 10)

Place(dev) == IF dev.subType1 = DCS THEN DcPlace(dev.subType2) ELSE AcPlace(dev.subType2)

GetType2Addr(dev) ==
    [start |-> Place(dev).base + Place(dev).step * (dev.subType2No - 1), len |-> Place(dev).len]

(* GetMemAddr; a system of another type leaves the parameters alone.       *)
System == {MCCS, GRID, DGS, LOADS, PVS, WTS, DCS, EVN}
SystemBase(sysType) ==
    CASE sysType = MCCS -> 0       [] sysType = DGS -> 1000   [] sysType = GRID -> 2000
      [] sysType = LOADS -> 5000   [] sysType = EVN -> 8800   [] sysType = PVS -> 9000
      [] sysType = WTS -> 13000    [] sysType = DCS -> 21000
SystemLen(sysType) ==
    CASE sysType = MCCS -> 1000 [] sysType = GRID -> 100 [] sysType = EVN -> 50 [] OTHER -> 200

GetMemAddr(before, dev) ==
    IF dev.sysType \notin System THEN before
    ELSE IF dev.sysType = MCCS \/ dev.subType1No <= 0
         THEN [start |-> SystemBase(dev.sysType), len |-> SystemLen(dev.sysType)]
         ELSE [start |-> SystemBase(dev.sysType) + GetType2Addr(dev).start,
               len |-> GetType2Addr(dev).len]

(* InitSlaveDevConfig: start and len are declared before the loop, so a    *)
(* row of another system gets the registers of the row before it.          *)
InitSlaveDevConfig(rows) ==
    LET range[i \in 0 .. Len(rows)] ==
          IF i = 0 THEN [start |-> 0, len |-> 0] ELSE GetMemAddr(range[i - 1], rows[i])
    IN  [i \in DOMAIN rows |-> range[i]]

(* The registers of a range.                                               *)
Registers(range) == range.start .. range.start + range.len - 1

(* A device with a block of its own and a number within its block.         *)
Fits(type, no) == no * BlockLen(type) <= 2000

InBlock(dev) ==
    /\ dev.sysType \in System \ {MCCS} /\ dev.subType1No \in Nat \ {0}
    /\ dev.subType1 # DCS /\ dev.subType2 \in Blocks
    /\ dev.subType2No \in Nat \ {0} /\ Fits(dev.subType2, dev.subType2No)
==============================================================================
