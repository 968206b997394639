---------------------------- MODULE UploadProofs -----------------------------
(* Theorems of DeviceMap: the devices with a block of their own have their *)
(* registers to themselves, and in the bank; and of Upload: a round sends  *)
(* each register once, such as those of these devices.                     *)
EXTENDS Upload, DeviceMap, FiniteSetTheorems, TLAPS

(* Literal ranges are slow to encode: bounds are stated one by one.        *)
Between(n, lo, hi) == n \in Int /\ lo <= n /\ n <= hi

LEMMA SystemBaseType ==
    ASSUME NEW s \in System \ {MCCS}
    PROVE  Between(SystemBase(s), 1000, 21000)
  BY DEF Between, System, SystemBase, MCCS, GRID, DGS, LOADS, PVS, WTS, DCS, EVN

LEMMA BlockLenType == ASSUME NEW t PROVE BlockLen(t) \in {10, 50, 100, 200, 350}
  BY DEF BlockLen

LEMMA BlockType == ASSUME NEW t \in Blocks PROVE Between(t, 2000, 36000)
  BY DEF Blocks, Between

(* A block is not one of the other types GetType2Addr asks for.            *)
LEMMA PlaceOfBlock ==
    ASSUME NEW t \in Blocks
    PROVE  AcPlace(t) = Row(t, BlockLen(t), BlockLen(t))
  BY DEF AcPlace

(* What InBlock says of a device, field by field.                          *)
LEMMA DeviceType ==
    ASSUME NEW dev, InBlock(dev)
    PROVE  /\ Between(SystemBase(dev.sysType), 1000, 21000)
           /\ dev.sysType \in System /\ ~(dev.sysType = MCCS \/ dev.subType1No <= 0)
           /\ dev.subType1 # DCS
           /\ dev.subType2 \in Blocks /\ Between(dev.subType2, 2000, 36000)
           /\ dev.subType2No \in Nat \ {0} /\ Fits(dev.subType2, dev.subType2No)
           /\ BlockLen(dev.subType2) \in {10, 50, 100, 200, 350}
  <1>1. Between(SystemBase(dev.sysType), 1000, 21000)
    BY SystemBaseType DEF InBlock
  <1>2. Between(dev.subType2, 2000, 36000)
    BY BlockType DEF InBlock
  <1>3. ~(dev.sysType = MCCS \/ dev.subType1No <= 0)
    BY DEF InBlock
  <1>4. QED
    BY <1>1, <1>2, <1>3, BlockLenType DEF InBlock

(* The n-th range of length l within a block.                              *)
LEMMA WithinLength ==
    ASSUME NEW t, NEW n \in Nat \ {0}, Fits(t, n)
    PROVE  /\ BlockLen(t) * (n - 1) \in Int /\ 0 <= BlockLen(t) * (n - 1)
           /\ BlockLen(t) * (n - 1) + BlockLen(t) <= 2000
           /\ \A m \in Nat \ {0} : m < n => BlockLen(t) * (m - 1) + BlockLen(t) <= BlockLen(t) * (n - 1)
  <1> DEFINE l == BlockLen(t)
  <1>1. n * l <= 2000
    BY DEF Fits
  <1>2. l \in {10, 50, 100, 200, 350}
    BY BlockLenType
  <1> SUFFICES /\ l * (n - 1) \in Int /\ 0 <= l * (n - 1) /\ l * (n - 1) + l <= 2000
               /\ \A m \in Nat \ {0} : m < n => l * (m - 1) + l <= l * (n - 1)
    OBVIOUS
  <1> HIDE DEF l
  <1>3. CASE l = 10
    BY <1>1, <1>3
  <1>4. CASE l = 50
    BY <1>1, <1>4
  <1>5. CASE l = 100
    BY <1>1, <1>5
  <1>6. CASE l = 200
    BY <1>1, <1>6
  <1>7. CASE l = 350
    BY <1>1, <1>7
  <1>8. QED
    BY <1>2, <1>3, <1>4, <1>5, <1>6, <1>7

LEMMA Sums ==
    ASSUME NEW s \in Int, NEW t \in Int, NEW m \in Int, NEW l \in Int, 0 <= m, m + l <= 2000
    PROVE  /\ s + (t + m) = s + t + m /\ s + t \in Int /\ s + t + m \in Int
           /\ s + t <= s + t + m /\ s + t + m + l <= s + t + 2000
  OBVIOUS

(* A device's registers lie within the 2000 of its block.                  *)
Base(dev) == SystemBase(dev.sysType) + dev.subType2
Offset(dev) == BlockLen(dev.subType2) * (dev.subType2No - 1)

LEMMA WithinBlock ==
    ASSUME NEW before, NEW dev, InBlock(dev)
    PROVE  /\ GetMemAddr(before, dev).start = Base(dev) + Offset(dev)
           /\ GetMemAddr(before, dev).len = BlockLen(dev.subType2)
           /\ Base(dev) \in Int /\ Offset(dev) \in Int /\ 0 <= Offset(dev)
           /\ Offset(dev) + BlockLen(dev.subType2) <= 2000
  <1>1. SystemBase(dev.sysType) \in Int /\ dev.subType2 \in Int /\ BlockLen(dev.subType2) \in Int
    BY DeviceType DEF Between
  <1>2. Place(dev) = Row(dev.subType2, BlockLen(dev.subType2), BlockLen(dev.subType2))
    BY DeviceType, PlaceOfBlock DEF Place
  <1>3. /\ GetType2Addr(dev).start = dev.subType2 + Offset(dev)
        /\ GetType2Addr(dev).len = BlockLen(dev.subType2)
    BY <1>2 DEF GetType2Addr, Row, Offset
  <1>4. dev.sysType \in System /\ ~(dev.sysType = MCCS \/ dev.subType1No <= 0)
    BY DeviceType
  <1>5. /\ GetMemAddr(before, dev).start = SystemBase(dev.sysType) + (dev.subType2 + Offset(dev))
        /\ GetMemAddr(before, dev).len = BlockLen(dev.subType2)
    BY <1>3, <1>4 DEF GetMemAddr
  <1>6. /\ Offset(dev) \in Int /\ 0 <= Offset(dev)
        /\ Offset(dev) + BlockLen(dev.subType2) <= 2000
    BY DeviceType, WithinLength DEF Offset
  <1>7. QED
    BY <1>1, <1>5, <1>6, Sums DEF Base

-----------------------------------------------------------------------------
(* Device::GetMemAddr: every register of a device in a block is in the     *)
(* bank, so that MemDb::CheckAddr refuses none of them.                    *)
THEOREM BlockIsInBank ==
    ASSUME NEW before, NEW dev, InBlock(dev)
    PROVE  Registers(GetMemAddr(before, dev)) \subseteq 0 .. MAX_LENGTH - 1
  <1>1. Between(Base(dev), 3000, 57000)
    BY DeviceType DEF Base, Between
  <1>2. BlockLen(dev.subType2) \in Int
    BY BlockLenType
  <1>3. /\ Base(dev) <= GetMemAddr(before, dev).start
        /\ GetMemAddr(before, dev).start + GetMemAddr(before, dev).len <= Base(dev) + 2000
        /\ GetMemAddr(before, dev).start \in Int /\ GetMemAddr(before, dev).len \in Int
    BY <1>2, WithinBlock
  <1>4. ASSUME NEW m \in Int, 60000 <= m
        PROVE  Registers(GetMemAddr(before, dev)) \subseteq 0 .. m - 1
    BY <1>1, <1>3, <1>4 DEF Registers, Between
  <1>5. MAX_LENGTH \in Int /\ 60000 <= MAX_LENGTH
    BY DEF MAX_LENGTH
  <1>6. QED
    BY <1>4, <1>5

(* Ranges one of which ends before the other begins.                       *)
LEMMA Apart ==
    ASSUME NEW d, NEW e, d.start \in Int, e.start \in Int, d.len \in Int, e.len \in Int,
           d.start + d.len <= e.start \/ e.start + e.len <= d.start
    PROVE  Registers(d) \cap Registers(e) = {}
  BY DEF Registers

(* The second of two devices in a block begins where the first has ended.  *)
LEMMA NumbersApart ==
    ASSUME NEW dev, NEW other, InBlock(dev), InBlock(other),
           dev.subType2 = other.subType2, dev.subType2No < other.subType2No
    PROVE  Offset(dev) + BlockLen(dev.subType2) <= Offset(other)
  <1>1. /\ dev.subType2No \in Nat \ {0} /\ other.subType2No \in Nat \ {0}
        /\ Fits(other.subType2, other.subType2No)
    BY DeviceType
  <1>2. BlockLen(other.subType2) * (dev.subType2No - 1) + BlockLen(other.subType2)
          <= BlockLen(other.subType2) * (other.subType2No - 1)
    BY <1>1, WithinLength
  <1>3. QED
    BY <1>2 DEF Offset

(* The second of two blocks begins where the first has ended.              *)
LEMMA BlocksApart ==
    ASSUME NEW dev, NEW other, InBlock(dev), InBlock(other),
           dev.sysType = other.sysType, dev.subType2 < other.subType2
    PROVE  Base(dev) + 2000 <= Base(other)
  <1>1. dev.subType2 \in Blocks /\ other.subType2 \in Blocks
    BY DeviceType
  <1>2. PICK m \in 1 .. 18, n \in 1 .. 18 : dev.subType2 = 2000 * m /\ other.subType2 = 2000 * n
    BY <1>1 DEF Blocks
  <1>3. SystemBase(dev.sysType) \in Int
    BY DeviceType DEF Between
  <1>4. dev.subType2 + 2000 <= other.subType2 /\ dev.subType2 \in Int /\ other.subType2 \in Int
    BY <1>2
  <1>5. QED
    BY <1>3, <1>4 DEF Base

(* Of two devices one of which comes first in the bank.                    *)
LEMMA FirstEnds ==
    ASSUME NEW before, NEW dev, NEW other, InBlock(dev), InBlock(other),
           dev.sysType = other.sysType,
           \/ dev.subType2 < other.subType2
           \/ dev.subType2 = other.subType2 /\ dev.subType2No < other.subType2No
    PROVE  Registers(GetMemAddr(before, dev)) \cap Registers(GetMemAddr(before, other)) = {}
  <1>1. /\ BlockLen(dev.subType2) \in Int /\ BlockLen(other.subType2) \in Int
    BY BlockLenType
  <1>2. /\ GetMemAddr(before, dev).start = Base(dev) + Offset(dev)
        /\ GetMemAddr(before, dev).len = BlockLen(dev.subType2)
        /\ Base(dev) \in Int /\ Offset(dev) \in Int
        /\ Offset(dev) + BlockLen(dev.subType2) <= 2000
    BY WithinBlock
  <1>3. /\ GetMemAddr(before, other).start = Base(other) + Offset(other)
        /\ GetMemAddr(before, other).len = BlockLen(other.subType2)
        /\ Base(other) \in Int /\ Offset(other) \in Int /\ 0 <= Offset(other)
    BY WithinBlock
  <1>4. Base(dev) + Offset(dev) + BlockLen(dev.subType2) <= Base(other) + Offset(other)
    <2>1. CASE dev.subType2 < other.subType2
      <3>1. Base(dev) + 2000 <= Base(other)
        BY <2>1, BlocksApart
      <3>2. QED
        BY <1>1, <1>2, <1>3, <3>1
    <2>2. CASE dev.subType2 = other.subType2 /\ dev.subType2No < other.subType2No
      <3>1. Offset(dev) + BlockLen(dev.subType2) <= Offset(other)
        BY <2>2, NumbersApart
      <3>2. Base(dev) = Base(other)
        BY <2>2 DEF Base
      <3>3. QED
        BY <1>1, <1>2, <1>3, <3>1, <3>2
    <2>3. QED
      BY <2>1, <2>2
  <1>5. QED
    BY <1>1, <1>2, <1>3, <1>4, Apart

(* Device::GetMemAddr: two devices of one system, each with a number       *)
(* within its block, share no register.                                    *)
THEOREM BlocksAreDisjoint ==
    ASSUME NEW before, NEW dev, NEW other, InBlock(dev), InBlock(other),
           dev.sysType = other.sysType,
           <<dev.subType2, dev.subType2No>> # <<other.subType2, other.subType2No>>
    PROVE  Registers(GetMemAddr(before, dev)) \cap Registers(GetMemAddr(before, other)) = {}
  <1>1. /\ dev.subType2 \in Int /\ dev.subType2No \in Int
        /\ other.subType2 \in Int /\ other.subType2No \in Int
    BY DeviceType DEF Between
  <1>2. \/ dev.subType2 < other.subType2
        \/ dev.subType2 = other.subType2 /\ dev.subType2No < other.subType2No
        \/ other.subType2 < dev.subType2
        \/ other.subType2 = dev.subType2 /\ other.subType2No < dev.subType2No
    BY <1>1
  <1>3. CASE \/ dev.subType2 < other.subType2
             \/ dev.subType2 = other.subType2 /\ dev.subType2No < other.subType2No
    BY <1>3, FirstEnds
  <1>4. CASE \/ other.subType2 < dev.subType2
             \/ other.subType2 = dev.subType2 /\ other.subType2No < dev.subType2No
    <2>1. Registers(GetMemAddr(before, other)) \cap Registers(GetMemAddr(before, dev)) = {}
      BY <1>4, FirstEnds
    <2>2. QED
      BY <2>1
  <1>5. QED
    BY <1>2, <1>3, <1>4

-----------------------------------------------------------------------------
(* UploadClient::SendRealData: where a round is, and what it has sent.     *)
DisjointRanges ==
    \A a, b \in DOMAIN Ranges : a # b => RangeRegs(Ranges[a]) \cap RangeRegs(Ranges[b]) = {}

Done(r) == \/ \E b \in DOMAIN Ranges : b < k /\ r \in RangeRegs(Ranges[b])
           \/ k \in DOMAIN Ranges /\ r \in RangeRegs(Ranges[k]) /\ r < i

PositionInv == /\ k \in 1 .. Len(Ranges) + 1
               /\ k \in DOMAIN Ranges => i \in Start(k) .. End(k) - 1
SentInv == sent = [r \in Reg |-> IF Done(r) THEN 1 ELSE 0]
LengthInv == \A message \in net : Cardinality(DOMAIN message[2]) \in 1 .. MaxLength
UploadInv == PositionInv /\ SentInv /\ LengthInv

LEMMA RangeType ==
    ASSUME NEW b \in DOMAIN Ranges
    PROVE  /\ Start(b) \in Nat /\ End(b) \in Nat /\ Start(b) < End(b)
           /\ RangeRegs(Ranges[b]) = Start(b) .. End(b) - 1
           /\ RangeRegs(Ranges[b]) \subseteq Reg
  <1>1. Ranges[b] \in Nat \X (Nat \ {0})
    BY UploadAssumption
  <1>2. Ranges[b][1] \in Nat /\ Ranges[b][2] \in Nat \ {0}
    BY <1>1
  <1>3. QED
    BY <1>2 DEF Start, End, RangeRegs, Reg

LEMMA RangesType ==
    /\ Len(Ranges) \in Nat /\ DOMAIN Ranges = 1 .. Len(Ranges)
    /\ \A r \in Reg : r \in Int
  <1>1. Len(Ranges) \in Nat /\ DOMAIN Ranges = 1 .. Len(Ranges)
    BY UploadAssumption
  <1>2. \A r \in Reg : \E b \in DOMAIN Ranges : r \in Start(b) .. End(b) - 1
    BY RangeType DEF Reg
  <1>3. QED
    BY <1>1, <1>2

(* A frame has at least a value and at most MaxData, all of its range.     *)
LEMMA FrameLemma ==
    ASSUME PositionInv, k \in DOMAIN Ranges
    PROVE  LET len == NextLength(i, End(k)) IN
           /\ len \in 1 .. MaxData /\ i \in Nat
           /\ i .. i + len - 1 \subseteq RangeRegs(Ranges[k])
           /\ More(i, End(k)) => i + len < End(k)
           /\ ~More(i, End(k)) => i + len = End(k)
  <1>1. Start(k) \in Nat /\ End(k) \in Nat /\ i \in Start(k) .. End(k) - 1
    BY RangeType DEF PositionInv
  <1>2. MaxData \in Nat \ {0}
    BY UploadAssumption
  <1>3. CASE More(i, End(k))
    BY <1>1, <1>2, <1>3, RangeType DEF More, NextLength
  <1>4. CASE ~More(i, End(k))
    BY <1>1, <1>2, <1>4, RangeType DEF More, NextLength
  <1>5. QED
    BY <1>3, <1>4

LEMMA UploadInit == Init => UploadInv
  <1> SUFFICES ASSUME Init PROVE UploadInv  OBVIOUS
  <1>1. k = 1 /\ i = Start(1) /\ net = {}
    BY DEF Init
  <1>2. PositionInv
    BY <1>1, RangesType, RangeType DEF PositionInv
  <1>3. \A r \in Reg : ~Done(r)
    <2>1. k \in DOMAIN Ranges => \A r \in RangeRegs(Ranges[k]) : ~(r < i)
      BY <1>1, RangeType
    <2>2. QED
      BY <1>1, <2>1, RangesType DEF Done
  <1>4. QED
    BY <1>1, <1>2, <1>3 DEF Init, UploadInv, SentInv, LengthInv

LEMMA FrameSent ==
    ASSUME DisjointRanges, MaxData <= MaxLength, UploadInv, SendRealData
    PROVE  UploadInv'
  <1>1. PICK len : len = NextLength(i, End(k))
    OBVIOUS
  <1> DEFINE regs == i .. i + len - 1
             frame == [r \in regs \cap Reg |-> value[r]]
  <1>2. k \in DOMAIN Ranges
    BY RangesType DEF SendRealData, UploadInv, PositionInv
  <1>3. /\ len \in 1 .. MaxData /\ i \in Nat /\ regs \subseteq RangeRegs(Ranges[k])
        /\ More(i, End(k)) => i + len < End(k)
        /\ ~More(i, End(k)) => i + len = End(k)
    BY <1>1, <1>2, FrameLemma DEF UploadInv
  <1>4. /\ i \in Start(k) .. End(k) - 1 /\ Start(k) \in Nat /\ End(k) \in Nat
        /\ RangeRegs(Ranges[k]) = Start(k) .. End(k) - 1 /\ RangeRegs(Ranges[k]) \subseteq Reg
        /\ k \in 1 .. Len(Ranges) /\ Len(Ranges) \in Nat /\ DOMAIN Ranges = 1 .. Len(Ranges)
    BY <1>2, RangeType, RangesType DEF UploadInv, PositionInv
  <1>5. /\ SendFrame(i, len)
        /\ IF More(i, End(k)) THEN i' = i + len /\ k' = k
           ELSE /\ k' = k + 1
                /\ i' = IF k' <= Len(Ranges) THEN Start(k') ELSE i
    BY <1>1 DEF SendRealData
  <1>6. PositionInv'
    <2>1. CASE More(i, End(k))
      <3>1. i' = i + len /\ k' = k /\ i + len < End(k)
        BY <1>3, <1>5, <2>1
      <3>2. k' \in DOMAIN Ranges /\ i' \in Start(k') .. End(k') - 1
        BY <1>2, <1>3, <1>4, <3>1
      <3>3. QED
        BY <1>4, <3>1, <3>2 DEF PositionInv, Start, End
    <2>2. CASE ~More(i, End(k))
      <3>1. k' = k + 1 /\ (k' \in DOMAIN Ranges => i' = Start(k'))
        BY <1>4, <1>5, <2>2
      <3>2. k' \in DOMAIN Ranges => i' \in Start(k') .. End(k') - 1
        BY <3>1, RangeType
      <3>3. QED
        BY <1>4, <3>1, <3>2 DEF PositionInv, Start, End
    <2>3. QED
      BY <2>1, <2>2
  <1>7. ASSUME NEW r \in regs PROVE ~Done(r)
    <2>1. r \in RangeRegs(Ranges[k]) /\ ~(r < i)
      BY <1>3, <1>7
    <2>2. \A b \in DOMAIN Ranges : b < k => r \notin RangeRegs(Ranges[b])
      BY <1>2, <1>4, <2>1 DEF DisjointRanges
    <2>3. QED
      BY <2>1, <2>2 DEF Done
  <1>8. ASSUME NEW r \in Reg PROVE Done(r)' <=> Done(r) \/ r \in regs
    <2>0. r \in Int
      BY RangesType
    <2>1. CASE More(i, End(k))
      <3>1. i' = i + len /\ k' = k
        BY <1>5, <2>1
      <3>2. r \in RangeRegs(Ranges[k]) /\ r < i + len <=> (r \in RangeRegs(Ranges[k]) /\ r < i) \/ r \in regs
        BY <1>3, <2>0
      <3>3. QED
        BY <1>2, <3>1, <3>2 DEF Done
    <2>2. CASE ~More(i, End(k))
      <3>1. k' = k + 1 /\ (k' \in DOMAIN Ranges => i' = Start(k')) /\ i + len = End(k)
        BY <1>3, <1>4, <1>5, <2>2
      <3>2. r \in RangeRegs(Ranges[k]) <=> (r \in RangeRegs(Ranges[k]) /\ r < i) \/ r \in regs
        BY <1>3, <1>4, <2>0, <3>1
      <3>3. k' \in DOMAIN Ranges => ~(r \in RangeRegs(Ranges[k']) /\ r < i')
        BY <3>1, RangeType
      <3>4. Done(r)' <=> \E b \in DOMAIN Ranges : b < k + 1 /\ r \in RangeRegs(Ranges[b])
        BY <3>1, <3>3 DEF Done
      <3>5. \A b \in DOMAIN Ranges : b < k + 1 <=> b < k \/ b = k
        BY <1>4
      <3>6. QED
        BY <1>2, <3>2, <3>4, <3>5 DEF Done
    <2>3. QED
      BY <2>1, <2>2
  <1>9. SentInv'
    <2>1. sent' = [r \in Reg |-> IF r \in regs THEN sent[r] + 1 ELSE sent[r]]
      BY <1>5 DEF SendFrame
    <2>2. \A r \in Reg : sent[r] = IF Done(r) THEN 1 ELSE 0
      BY DEF UploadInv, SentInv
    <2>3. \A r \in Reg : sent'[r] = IF Done(r)' THEN 1 ELSE 0
      BY <1>7, <1>8, <2>1, <2>2
    <2>4. QED
      BY <2>1, <2>3 DEF SentInv
  <1>10. LengthInv'
    <2>1. DOMAIN frame = regs
      BY <1>3, <1>4
    <2>2. Cardinality(regs) = len
      BY <1>3, FS_Interval
    <2>3. len \in 1 .. MaxLength
      BY <1>3, UploadAssumption
    <2>4. net' \subseteq net \cup (Network \X {frame})
      BY <1>5 DEF SendFrame
    <2> HIDE DEF frame
    <2>5. \A message \in net' : message \in net \/ message[2] = frame
      BY <2>4
    <2>6. QED
      BY <2>1, <2>2, <2>3, <2>5 DEF LengthInv, UploadInv
  <1>11. QED
    BY <1>6, <1>9, <1>10 DEF UploadInv

LEMMA UploadStep ==
    ASSUME DisjointRanges, MaxData <= MaxLength, UploadInv, [Next]_vars
    PROVE  UploadInv'
  <1>1. CASE UNCHANGED <<k, i, sent>> /\ net' \subseteq net
    BY <1>1 DEF UploadInv, PositionInv, SentInv, LengthInv, Done, Start, End
  <1>2. CASE SendRealData
    BY <1>2, FrameSent
  <1>3. CASE NextRound
    <2>1. k' = 1 /\ i' = Start(1) /\ sent' = [r \in Reg |-> 0] /\ net' = net
      BY <1>3 DEF NextRound
    <2>2. PositionInv'
      BY <2>1, RangesType, RangeType DEF PositionInv, Start, End
    <2>3. \A r \in Reg : ~Done(r)'
      <3>1. 1 \in DOMAIN Ranges => \A r \in RangeRegs(Ranges[1]) : ~(r < Start(1))
        BY RangeType
      <3>2. QED
        BY <2>1, <3>1, RangesType DEF Done
    <2>4. QED
      BY <2>1, <2>2, <2>3 DEF UploadInv, SentInv, LengthInv
  <1>4. QED
    BY <1>1, <1>2, <1>3 DEF Next, vars, Measure, RecvInfo, Lose

(* A round of SendRealData uploads every register of the ranges once,      *)
(* whatever their number and lengths and whatever is lost, and no frame    *)
(* has more values than its length can say, when the ranges are disjoint.  *)
THEOREM EveryRoundCovers ==
    ASSUME DisjointRanges, MaxData <= MaxLength
    PROVE  Spec => []RoundCovers
  <1>1. UploadInv => RoundCovers
    <2> SUFFICES ASSUME UploadInv PROVE RoundCovers  OBVIOUS
    <2>1. \A r \in Reg : sent[r] = IF Done(r) THEN 1 ELSE 0
      BY DEF UploadInv, SentInv
    <2>2. k > Len(Ranges) => \A r \in Reg : Done(r)
      <3>1. k \in Int
        BY RangesType DEF UploadInv, PositionInv
      <3>2. k > Len(Ranges) => \A b \in DOMAIN Ranges : b < k
        BY <3>1, RangesType
      <3>3. QED
        BY <3>2 DEF Done, Reg
    <2>3. QED
      BY <2>1, <2>2 DEF UploadInv, LengthInv, RoundCovers
  <1>2. QED
    BY <1>1, UploadInit, UploadStep, PTL DEF Spec

(* What Device::InitSlaveDevConfig gives a station whose devices are of    *)
(* one system, have blocks and different numbers: the registers 0..399 and *)
(* those of the devices.                                                   *)
OneSystem(devs) ==
    \A a, b \in DOMAIN devs :
        /\ InBlock(devs[a]) /\ devs[a].sysType = devs[b].sysType
        /\ a # b => <<devs[a].subType2, devs[a].subType2No>> # <<devs[b].subType2, devs[b].subType2No>>
Uploaded(before, devs) ==
    /\ DOMAIN Ranges = 1 .. Len(devs) + 1 /\ DOMAIN devs = 1 .. Len(devs) /\ Len(devs) \in Nat
    /\ Ranges[1] = <<0, 400>>
    /\ \A a \in DOMAIN devs : LET range == GetMemAddr(before, devs[a]) IN
          Ranges[a + 1] = <<range.start, range.len>>

(* The ranges that such a station uploads are disjoint, as the theorem     *)
(* before this one asks.                                                   *)
THEOREM UploadedAreDisjoint ==
    ASSUME NEW before, NEW devs, OneSystem(devs), Uploaded(before, devs)
    PROVE  DisjointRanges
  <1> DEFINE range(d) == GetMemAddr(before, devs[d])
  <1>1. ASSUME NEW d \in DOMAIN devs
        PROVE  /\ RangeRegs(Ranges[d + 1]) = Registers(range(d))
               /\ \A r \in Registers(range(d)) : r >= 3000
    <2>1. Ranges[d + 1] = <<range(d).start, range(d).len>>
      BY DEF Uploaded
    <2>2. RangeRegs(Ranges[d + 1]) = Registers(range(d))
      BY <2>1 DEF RangeRegs, Registers
    <2>3. InBlock(devs[d])
      BY DEF OneSystem
    <2>4. /\ range(d).start = Base(devs[d]) + Offset(devs[d]) /\ range(d).len = BlockLen(devs[d].subType2)
          /\ Offset(devs[d]) \in Int /\ 0 <= Offset(devs[d])
      BY <2>3, WithinBlock
    <2>5. Between(Base(devs[d]), 3000, 57000)
      BY <2>3, DeviceType DEF Base, Between
    <2>6. BlockLen(devs[d].subType2) \in Int
      BY BlockLenType
    <2>7. range(d).start \in Int /\ range(d).len \in Int /\ 3000 <= range(d).start
      BY <2>4, <2>5, <2>6 DEF Between
    <2> HIDE DEF range
    <2>8. \A r \in Registers(range(d)) : r >= 3000
      BY <2>7 DEF Registers
    <2>9. QED
      BY <2>2, <2>8 DEF range
  <1>2. RangeRegs(Ranges[1]) = 0 .. 399
    BY DEF Uploaded, RangeRegs
  <1>3. ASSUME NEW d \in DOMAIN devs, NEW e \in DOMAIN devs, d # e
        PROVE  Registers(range(d)) \cap Registers(range(e)) = {}
    BY <1>3, BlocksAreDisjoint DEF OneSystem
  <1>4. \A a \in DOMAIN Ranges : a = 1 \/ \E d \in DOMAIN devs : a = d + 1
    <2>1. \A a \in DOMAIN Ranges : a # 1 => a - 1 \in DOMAIN devs /\ a = (a - 1) + 1
      BY DEF Uploaded
    <2>2. QED
      BY <2>1
  <1> HIDE DEF range
  <1>5. ASSUME NEW a \in DOMAIN Ranges, NEW b \in DOMAIN Ranges, a # b
        PROVE  RangeRegs(Ranges[a]) \cap RangeRegs(Ranges[b]) = {}
    <2>1. CASE a = 1 /\ \E e \in DOMAIN devs : b = e + 1
      BY <1>1, <1>2, <2>1
    <2>2. CASE b = 1 /\ \E d \in DOMAIN devs : a = d + 1
      BY <1>1, <1>2, <2>2
    <2>3. ASSUME NEW d \in DOMAIN devs, NEW e \in DOMAIN devs, a = d + 1, b = e + 1
          PROVE  RangeRegs(Ranges[a]) \cap RangeRegs(Ranges[b]) = {}
      BY <1>1, <1>3, <1>5, <2>3
    <2>4. QED
      BY <1>4, <1>5, <2>1, <2>2, <2>3
  <1>6. QED
    BY <1>5 DEF DisjointRanges
==============================================================================
