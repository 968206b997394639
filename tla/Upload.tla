------------------------------- MODULE Upload --------------------------------
(***************************************************************************)
(* The upload of measurements: net/slave/UploadClient sends the registers  *)
(* of a slave station in UDP frames of at most MaxData values, and         *)
(* net/master/UploadServer stores them under the same addresses.  A value  *)
(* is the number of times its register was measured; the registers hold no *)
(* waiting command (MemDb is about those).  Frames may be lost, and one    *)
(* network's frames may come after the other's and after later ones.       *)
(***************************************************************************)
EXTENDS Integers, Sequences, FiniteSets

CONSTANTS Ranges,     \* the <<start, length>> uploaded: 0..399, and the own devices
          MaxData,    \* ARRAY_LENGTH_128 - 1
          MaxLength,  \* the greatest dataLength of a frame: 7 bits
          Network,    \* the networks whose state is NORMAL
          Changing,   \* bound: the registers measured again and again
          MaxValue,   \* bound on the measurements of a register
          MaxNet      \* bound on the frames under way; more are lost

RangeRegs(range) == range[1] .. range[1] + range[2] - 1
Reg == UNION {RangeRegs(Ranges[k]) : k \in DOMAIN Ranges}

ASSUME UploadAssumption ==
    /\ Ranges \in Seq(Nat \X (Nat \ {0})) /\ MaxData \in Nat \ {0} /\ MaxLength \in Nat
    /\ IsFiniteSet(Network) /\ Changing \subseteq Reg /\ MaxValue \in Nat /\ MaxNet \in Nat

VARIABLES value,   \* the slave station's register bank
          bank,    \* the master station's
          k, i,    \* SendRealData: the range, and the next register of it
          net,     \* the frames under way, each on its network
          sent     \* history: how often this round has sent each register

vars == <<value, bank, k, i, net, sent>>

Start(range) == Ranges[range][1]
End(range) == Start(range) + Ranges[range][2]

Init ==
    /\ value = [r \in Reg |-> 0]
    /\ bank = [r \in Reg |-> 0]
    /\ k = 1 /\ i = Start(1)
    /\ net = {}
    /\ sent = [r \in Reg |-> 0]

(* The slave station's device threads.                                     *)
Measure(r) ==
    /\ value[r] < MaxValue
    /\ value' = [value EXCEPT ![r] = @ + 1]
    /\ UNCHANGED <<bank, k, i, net, sent>>

(* GetRealData and SendRealData(data) of the registers from .. from+len-1: *)
(* one frame, on each network; any frame under way may be lost to it.      *)
SendFrame(from, len) ==
    LET regs == from .. from + len - 1
        frame == [r \in regs \cap Reg |-> value[r]]
    IN  /\ net' \in {kept \in SUBSET (net \cup (Network \X {frame})) : Cardinality(kept) <= MaxNet}
        /\ sent' = [r \in Reg |-> IF r \in regs THEN sent[r] + 1 ELSE sent[r]]

(* A frame takes MaxData registers while more than that are left, then the *)
(* rest, which ends the range.                                             *)
More(from, end) == from < end - MaxData

NextLength_SkipsLast(from, end) ==  \* mutant: the rest is one too short
    IF More(from, end) THEN MaxData ELSE end - from - 1

NextLength(from, end) == IF More(from, end) THEN MaxData ELSE end - from

(* SendRealData, a frame of the range k, then the next range, then, after  *)
(* m_sendTime, the next round.                                             *)
SendRealData ==
    /\ k <= Len(Ranges)
    /\ LET len == NextLength(i, End(k)) IN
        /\ SendFrame(i, len)
        /\ IF More(i, End(k)) THEN i' = i + len /\ k' = k
           ELSE /\ k' = k + 1
                /\ i' = IF k' <= Len(Ranges) THEN Start(k') ELSE i
    /\ UNCHANGED <<value, bank>>

NextRound ==
    /\ k > Len(Ranges)
    /\ k' = 1 /\ i' = Start(1)
    /\ sent' = [r \in Reg |-> 0]
    /\ UNCHANGED <<value, bank, net>>

(* UploadServer::RecvInfo: every value is stored; the number of the frame  *)
(* is not looked at.                                                       *)
Store_First(frame) ==  \* mutant: only the first value is stored
    [r \in Reg |-> IF r \in DOMAIN frame /\ \A q \in DOMAIN frame : r <= q
                   THEN frame[r] ELSE bank[r]]

Store(frame) == [r \in Reg |-> IF r \in DOMAIN frame THEN frame[r] ELSE bank[r]]

RecvInfo(message) ==
    /\ message \in net
    /\ net' = net \ {message}
    /\ bank' = Store(message[2])
    /\ UNCHANGED <<value, k, i, sent>>

Lose(message) ==
    /\ message \in net
    /\ net' = net \ {message}
    /\ UNCHANGED <<value, bank, k, i, sent>>

Next == \/ \E r \in Changing : Measure(r)
        \/ SendRealData \/ NextRound
        \/ \E message \in net : RecvInfo(message) \/ Lose(message)

(* The slave's thread goes on; no frame with an old value of a register is *)
(* under way for ever; and of the frames with a register, sent again and   *)
(* again, not all are lost.                                                *)
Has(message, r) == r \in DOMAIN message[2]
IsOld(message, r) == Has(message, r) /\ message[2][r] # value[r]

Fairness ==
    /\ WF_vars(SendRealData \/ NextRound)
    /\ \A r \in Changing :
        /\ WF_vars(\E message \in net : IsOld(message, r) /\ (RecvInfo(message) \/ Lose(message)))
        /\ SF_vars(\E message \in net : Has(message, r) /\ RecvInfo(message))
        /\ SF_vars(SendRealData /\ \E message \in net' : Has(message, r))

Spec == Init /\ [][Next]_vars
FairSpec == Spec /\ Fairness

-----------------------------------------------------------------------------
(* A round uploads every register of the ranges once, whatever their       *)
(* lengths: none is left out at the end of a range and none is sent twice, *)
(* and the number of values of a frame fits its 7 bits (Iec103.cpp:245).   *)
RoundCovers == /\ \A r \in Reg : sent[r] <= 1
               /\ k > Len(Ranges) => \A r \in Reg : sent[r] = 1
               /\ \A message \in net : Cardinality(DOMAIN message[2]) \in 1 .. MaxLength

(* The frames lost and the frames late do not matter in the end: once the  *)
(* slave's registers have settled, the master has their values.            *)
Converges ==
    \A r \in Changing : \A v \in 0 .. MaxValue : <>[](value[r] = v) => <>[](bank[r] = v)

(* UploadServer.cpp:213, "check the address of the sender and the number   *)
(* of the data": a register of the master never goes back to an older      *)
(* value.  It does not hold: README, Behaviour that falls short.           *)
NeverBack == [][\A r \in Reg : bank'[r] >= bank[r]]_vars
==============================================================================
