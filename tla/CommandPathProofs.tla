-------------------------- MODULE CommandPathProofs --------------------------
(***************************************************************************)
(* Theorems of DataNumbers, ControlLink and CommandPath, in this order.    *)
(* The types hold for any networks and connections.  What the server saves *)
(* and confirms is proved for one connection: with two, the service        *)
(* threads save a frame twice (README, Behaviour that falls short).        *)
(***************************************************************************)
EXTENDS CommandPath, SequenceTheorems, FiniteSetTheorems, WellFoundedInduction, TLAPS

(* The greatest gap the comparison is sure to bridge at the wrap-around.   *)
Tolerates(gap) == gap < LowMark /\ gap < Modulus - HighMark

(* One step of the 16-bit counter is a step of 1 modulo the modulus.       *)
LEMMA WrapLemma ==
    ASSUME NEW seen \in Number, NEW gap \in Nat, gap < Modulus
    PROVE  \/ seen + gap < Modulus /\ (seen + gap) % Modulus = seen + gap
           \/ seen + gap >= Modulus /\ (seen + gap) % Modulus = seen + gap - Modulus
<1>. USE DataNumbersAssumption DEF Number
<1>1. CASE seen + gap < Modulus
  BY <1>1
<1>2. CASE seen + gap >= Modulus
  <2>1. seen + gap - Modulus \in 0 .. Modulus - 1
    BY <1>2
  <2>2. seen + gap = (seen + gap - Modulus) + 1 * Modulus
    OBVIOUS
  <2> QED
    BY <1>2, <2>1, <2>2
<1> QED
  BY <1>1, <1>2

(* Iec103::DataComparison accepts a frame that follows the last one saved, *)
(* also after lost frames and across the wrap-around, as long as no more   *)
(* than Tolerates numbers were skipped.                                    *)
THEOREM NextIsNewer ==
    ASSUME NEW seen \in Number, NEW gap \in Nat \ {0}, Tolerates(gap)
    PROVE  DataComparison((seen + gap) % Modulus, seen)
<1>. USE DataNumbersAssumption DEF Number, Tolerates
<1>1. gap < Modulus
  OBVIOUS
<1>2. CASE seen + gap < Modulus
  <2>1. (seen + gap) % Modulus > seen
    BY <1>1, <1>2, WrapLemma
  <2> QED
    BY <2>1 DEF DataComparison
<1>3. CASE seen + gap >= Modulus
  <2>1. (seen + gap) % Modulus = seen + gap - Modulus
    BY <1>1, <1>3, WrapLemma
  <2>2. seen > HighMark
    BY <1>3
  <2>3. seen + gap - Modulus < LowMark
    OBVIOUS
  <2> QED
    BY <2>1, <2>2, <2>3 DEF DataComparison
<1> QED
  BY <1>2, <1>3

(* A repetition of the last frame saved, or of one before it, is not       *)
(* accepted again: a resend is confirmed and not saved.  Only while the    *)
(* numbers have not wrapped: the comparison is one-sided, and after the    *)
(* wrap-around a frame from before it counts as new.                       *)
THEOREM RepetitionIsOld ==
    ASSUME NEW seen \in Number, NEW gap \in Nat, Tolerates(gap),
           LowMark + gap <= HighMark, seen + gap < Modulus
    PROVE  ~DataComparison(seen, (seen + gap) % Modulus)
<1>. USE DataNumbersAssumption DEF Number, Tolerates
<1>1. (seen + gap) % Modulus = seen + gap
  BY WrapLemma
<1>2. ~(seen < LowMark /\ seen + gap > HighMark)
  OBVIOUS
<1> QED
  BY <1>1, <1>2 DEF DataComparison

(* What the comparison does after the wrap-around: a frame from before it, *)
(* late by gap numbers, is taken for a new one (Iec103.cpp:166-180).       *)
THEOREM OldAfterWrapIsNewer ==
    ASSUME NEW seen \in Number, NEW gap \in Nat, gap < Modulus, seen + gap >= Modulus
    PROVE  DataComparison(seen, (seen + gap) % Modulus)
<1>. USE DataNumbersAssumption DEF Number
<1>1. (seen + gap) % Modulus = seen + gap - Modulus
  BY WrapLemma
<1> QED
  BY <1>1 DEF DataComparison

-----------------------------------------------------------------------------
(* ControlLink: the types.                                                 *)
LEMMA NumberType == \A n \in Int : Next16(n) \in Number
BY DataNumbersAssumption, ControlLinkAssumption DEF Next16, Number

LEMMA CurrentType ==
  ASSUME LinkType, NEW n \in Net, opens[n] > 0
  PROVE  Current(n) \in Conn
BY ControlLinkAssumption DEF LinkType, Current, Conn

LEMMA AppendType ==
  ASSUME NEW S, NEW s \in Seq(S), NEW e \in S
  PROVE  Append(s, e) \in Seq(S)
OBVIOUS

(* What Append adds to a channel.                                          *)
LEMMA AddTypes ==
  ASSUME NEW ch \in Channel
  PROVE  /\ \A f \in Frame : [ch EXCEPT !.frames = Append(@, f)] \in Channel
         /\ \A r \in Confirmation : [ch EXCEPT !.replies = Append(@, r)] \in Channel
<1>1. \A f \in Frame : Append(ch.frames, f) \in Seq(Frame)
  BY AppendType DEF Channel
<1>2. \A r \in Confirmation : Append(ch.replies, r) \in Seq(Confirmation)
  BY AppendType DEF Channel
<1> QED  BY <1>1, <1>2 DEF Channel

LEMMA NewTypes ==
  /\ NewChan \in Channel /\ [NewChan EXCEPT !.state = "closed"] \in Channel
  /\ NewServer \in Service /\ [NewServer EXCEPT !.pc = "gone"] \in Service
<1>1. [NewChan EXCEPT !.state = "closed"]
      = [state |-> "closed", frames |-> <<>>, replies |-> <<>>]
  BY DEF NewChan
<1>3. <<>> \in Seq(Frame) /\ <<>> \in Seq(Confirmation)
  OBVIOUS
<1>4. NewChan \in Channel /\ [NewChan EXCEPT !.state = "closed"] \in Channel
  BY <1>1, <1>3 DEF NewChan, Channel
<1>5. NewServer \in Service
  BY <1>3 DEF NewServer, Service
<1>6. [NewServer EXCEPT !.pc = "gone"] \in Service
  BY <1>5 DEF Service
<1> QED  BY <1>4, <1>5, <1>6

LEMMA ChannelTypes ==
  ASSUME NEW ch \in Channel
  PROVE  Closed(ch) \in Channel /\ AllRead(ch) \in Channel
<1>1. <<>> \in Seq(Confirmation) /\ "closed" \in {"up", "broken", "closed"}
  OBVIOUS
<1>2. [ch EXCEPT !.state = "closed", !.replies = <<>>] \in Channel
  BY <1>1 DEF Channel
<1>3. [ch EXCEPT !.replies = <<>>] \in Channel
  BY <1>1 DEF Channel
<1> QED  BY <1>2, <1>3 DEF Closed, AllRead

LEMMA ConnectType ==
  ASSUME LinkType, ServiceType, NEW nets \in SUBSET Net, Connect(nets)
  PROVE  LinkType' /\ ServiceType' /\ \A n \in Net : opens[n] > 0 => opens'[n] > 0
<1>1. opens' \in [Net -> 0 .. MaxOpen] /\ \A n \in Net : opens[n] > 0 => opens'[n] > 0
  BY ControlLinkAssumption DEF Connect, LinkType
<1>2. chan' \in [Conn -> Channel]
  BY NewTypes DEF Connect, LinkType
<1>3. server' \in [Conn -> Service]
  BY NewTypes DEF Connect, ServiceType
<1>4. \A c \in Conn : server'[c] \in {NewServer, server[c]}
  BY DEF Connect
<1>5. NewServer.pc = "recv"
  BY DEF NewServer
<1> QED  BY <1>1, <1>2, <1>3, <1>4, <1>5 DEF LinkType, ServiceType, Intact

(* What a step leaves alone keeps its type.                                *)
LEMMA SameClient == ClientType /\ UNCHANGED <<client, opens>> => ClientType'
BY DEF ClientType
LEMMA SameLink == LinkType /\ UNCHANGED <<opens, chan>> => LinkType'
BY DEF LinkType
LEMMA SameService == ServiceType /\ UNCHANGED server => ServiceType'
BY DEF ServiceType, Intact
LEMMA SameHistory == HistoryType /\ UNCHANGED <<dataNumber, applied, stale>> => HistoryType'
BY DEF HistoryType

LEMMA LinkInitType == Init => TypeOK
<1> SUFFICES ASSUME Init PROVE TypeOK  OBVIOUS
<1>0. 0 \in 0 .. MaxSeq /\ 0 \in 0 .. FailNumber - 1 /\ 1 \in Number /\ 0 \in Number
      /\ 0 \in 0 .. MaxOpen
  BY ControlLinkAssumption, DataNumbersAssumption DEF Number
<1>1. ClientType
  BY <1>0 DEF Init, ClientType, Client, Kind
<1>2. LinkType
  BY <1>0, NewTypes DEF Init, LinkType
<1>3. ServiceType
  <2>1. [NewServer EXCEPT !.pc = "gone"].pc = "gone"
    BY DEF NewServer
  <2> QED  BY <2>1, NewTypes DEF Init, ServiceType
<1>4. HistoryType
  BY <1>0, EmptySeq DEF Init, HistoryType
<1> QED  BY <1>1, <1>2, <1>3, <1>4 DEF TypeOK

LEMMA StartClientType == TypeOK /\ StartClient => TypeOK'
<1> SUFFICES ASSUME TypeOK, StartClient PROVE TypeOK'  OBVIOUS
<1> USE DEF TypeOK
<1>1. LinkType' /\ ServiceType' /\ \A n \in Net : opens[n] > 0 => opens'[n] > 0
  BY ConnectType DEF StartClient
<1>2. 1 \in Number
  BY ControlLinkAssumption, DataNumbersAssumption DEF Number
<1>3. client' \in Client /\ client'.toRead = client.toRead /\ client'.pc = "idle"
  BY <1>2 DEF StartClient, ClientType, Client
<1>4. ClientType'
  BY <1>1, <1>3 DEF ClientType, Client
<1>5. HistoryType'
  BY SameHistory DEF StartClient
<1> QED  BY <1>1, <1>4, <1>5

LEMMA NewRoundType ==
  ASSUME ClientType, NEW kind \in Kind, NewRound(kind)
  PROVE  client' \in Client /\ client'.toRead = client.toRead /\ client'.seq > 0
<1>1. client.number \in Int /\ client.seq \in Nat
  BY DataNumbersAssumption DEF ClientType, Client, Number
<1>2. client.seq + 1 \in 0 .. MaxSeq /\ 0 \in 0 .. FailNumber - 1 /\ client.seq + 1 > 0
  BY <1>1, ControlLinkAssumption DEF NewRound
<1>3. Next16(client.number) \in Number
  BY <1>1, NumberType
<1>4. (kind = "time") \in BOOLEAN
  OBVIOUS
<1> QED  BY <1>1, <1>2, <1>3, <1>4 DEF NewRound, ClientType, Client

LEMMA SendCtrlDataType == TypeOK /\ SendCtrlData => TypeOK'
<1> SUFFICES ASSUME TypeOK, SendCtrlData PROVE TypeOK'  OBVIOUS
<1> USE DEF TypeOK
<1>1. client' \in Client /\ client'.toRead = client.toRead /\ client'.seq > 0
  BY NewRoundType DEF SendCtrlData, Kind
<1>2. ClientType'
  BY <1>1 DEF SendCtrlData, ClientType
<1>3. LinkType' /\ ServiceType' /\ HistoryType'
  BY SameLink, SameService, SameHistory DEF SendCtrlData
<1> QED  BY <1>2, <1>3

LEMMA SendTimeSyncType == TypeOK /\ SendTimeSync => TypeOK'
<1> SUFFICES ASSUME TypeOK, SendTimeSync PROVE TypeOK'  OBVIOUS
<1> USE DEF TypeOK
<1>1. LinkType' /\ ServiceType' /\ \A n \in Net : opens[n] > 0 => opens'[n] > 0
  BY ConnectType DEF SendTimeSync
<1>2. client' \in Client /\ client'.toRead = client.toRead /\ client'.seq > 0
  BY NewRoundType DEF SendTimeSync, Kind
<1>3. ClientType'
  BY <1>1, <1>2 DEF ClientType, Client
<1>4. HistoryType'
  BY SameHistory DEF SendTimeSync
<1> QED  BY <1>1, <1>3, <1>4

LEMMA SendFramesType == TypeOK /\ SendFrames => TypeOK'
<1> SUFFICES ASSUME TypeOK, SendFrames PROVE TypeOK'  OBVIOUS
<1> USE DEF TypeOK
<1> DEFINE f == [seq |-> client.seq, kind |-> client.kind, number |-> client.number]
<1>1. f \in Frame
  BY DEF SendFrames, ClientType, Client, Frame
<1>2. \A c \in Conn : [chan[c] EXCEPT !.frames = Append(@, f)] \in Channel
  BY <1>1, AddTypes DEF LinkType
<1>3. LinkType'
  BY <1>2, ChannelTypes DEF SendFrames, LinkType
<1>4. {n \in OpenNets : chan[Current(n)].state = "up"} \in SUBSET Net
      /\ \A n \in OpenNets : opens[n] > 0
  BY DEF OpenNets
<1>5. client' \in Client
  BY <1>4 DEF SendFrames, ClientType, Client
<1>6. client'.toRead = {n \in OpenNets : chan[Current(n)].state = "up"} /\ client'.seq = client.seq
  BY DEF SendFrames, ClientType, Client
<1>7. ClientType'
  BY <1>4, <1>5, <1>6 DEF SendFrames, ClientType
<1>8. ServiceType' /\ HistoryType'
  BY SameService, SameHistory DEF SendFrames
<1> QED  BY <1>3, <1>7, <1>8

LEMMA RecvInfoType == ASSUME TypeOK, NEW n \in Net, RecvInfo(n) PROVE TypeOK'
<1> USE DEF TypeOK
<1> DEFINE c == Current(n)
<1>1. c \in Conn /\ chan[c] \in Channel
  BY CurrentType DEF RecvInfo, ClientType, LinkType
<1>2. LinkType'
  BY <1>1, ChannelTypes DEF RecvInfo, LinkType
<1>3. Confirmed(chan[c].replies) \in BOOLEAN
  BY <1>1 DEF Confirmed, Channel, Confirmation
<1>4. n \in {"A", "B"}
  BY ControlLinkAssumption
<1>5. client' \in Client /\ client'.toRead \subseteq client.toRead /\ client'.seq = client.seq
  BY <1>3, <1>4 DEF RecvInfo, ClientType, Client
<1>6. ClientType'
  BY <1>5 DEF RecvInfo, ClientType
<1>7. HistoryType'
  BY DEF RecvInfo, HistoryType
<1>8. ServiceType'
  BY SameService DEF RecvInfo
<1> QED  BY <1>2, <1>6, <1>7, <1>8

LEMMA EndRoundType == TypeOK /\ EndRound => TypeOK'
<1> SUFFICES ASSUME TypeOK, EndRound PROVE TypeOK'  OBVIOUS
<1> USE DEF TypeOK
<1>1. client.attempts + 1 < FailNumber => client.attempts + 1 \in 0 .. FailNumber - 1
  BY ControlLinkAssumption DEF ClientType, Client
<1>2. client' \in Client /\ client'.toRead = client.toRead /\ client'.seq = client.seq
  BY <1>1 DEF EndRound, Retry, ClientType, Client
<1>3. ClientType'
  BY <1>2 DEF EndRound, ClientType
<1>4. LinkType'
  BY ChannelTypes DEF EndRound, LinkType
<1>5. ServiceType' /\ HistoryType'
  BY SameService, SameHistory DEF EndRound
<1> QED  BY <1>3, <1>4, <1>5

LEMMA ExitType == TypeOK /\ Exit => TypeOK'
<1> SUFFICES ASSUME TypeOK, Exit PROVE TypeOK'  OBVIOUS
<1> USE DEF TypeOK
<1>1. ClientType'
  BY DEF Exit, ClientType, Client
<1>2. LinkType' /\ ServiceType' /\ HistoryType'
  BY SameLink, SameService, SameHistory DEF Exit
<1> QED  BY <1>1, <1>2

LEMMA RecvType == ASSUME TypeOK, NEW c \in Conn, Recv(c) PROVE TypeOK'
<1> USE DEF TypeOK
<1> DEFINE s == chan[c].frames
<1>0. chan[c] \in Channel /\ s \in Seq(Frame) /\ Len(s) \in Nat
  BY LenProperties DEF LinkType, Channel
<1>1. PICK k \in 1 .. Len(s) :
        /\ server' = [server EXCEPT ![c] = [pc |-> "compare", joined |-> TRUE,
                                            frames |-> SubSeq(s, 1, k)]]
        /\ chan' = [chan EXCEPT ![c].frames = SubSeq(s, k + 1, Len(s))]
  BY DEF Recv
<1>2. SubSeq(s, 1, k) \in Seq(Frame) /\ Len(SubSeq(s, 1, k)) = k
      /\ SubSeq(s, k + 1, Len(s)) \in Seq(Frame)
  BY <1>0
<1>3. LinkType'
  BY <1>1, <1>2 DEF Recv, LinkType, Channel
<1>4. SubSeq(s, 1, k) # <<>>
  BY <1>0, <1>2
<1>5. server' \in [Conn -> Service]
  BY <1>1, <1>2 DEF ServiceType, Service
<1>6. /\ server'[c].pc = "compare" /\ server'[c].frames # <<>>
      /\ \A d \in Conn : d # c => server'[d] = server[d]
  BY <1>1, <1>4 DEF ServiceType
<1>7. ServiceType'
  BY <1>5, <1>6 DEF ServiceType, Intact
<1>8. HistoryType'
  BY DataNumbersAssumption, ControlLinkAssumption DEF Recv, HistoryType, Number
<1>9. ClientType'
  BY SameClient DEF Recv
<1> QED  BY <1>3, <1>7, <1>8, <1>9

LEMMA ReplyType ==
  ASSUME TypeOK, NEW c \in Conn, server[c].frames # <<>>, NEW p \in BOOLEAN, Reply(c, p),
         UNCHANGED opens
  PROVE  LinkType' /\ ServiceType'
<1> USE DEF TypeOK
<1>1. chan[c] \in Channel /\ server[c] \in Service /\ Got(c) \in Frame
  BY DEF LinkType, ServiceType, Service, Got
<1>2. [frame |-> Got(c), positive |-> p] \in Confirmation
  BY <1>1 DEF Confirmation
<1>3. LinkType'
  <2> DEFINE r == [frame |-> Got(c), positive |-> p]
  <2>1. [chan[c] EXCEPT !.replies = Append(@, r)] \in Channel
    BY <1>1, <1>2, AddTypes
  <2>2. [chan[c] EXCEPT !.replies = IF chan[c].state = "up" THEN Append(@, r) ELSE @] \in Channel
    BY <1>1, <2>1 DEF Channel
  <2> HIDE DEF r
  <2> QED  BY <2>2 DEF Reply, LinkType, r
<1>4. server' \in [Conn -> Service]
  BY <1>1 DEF Reply, ServiceType, Service
<1>5. server'[c].pc = "recv" /\ \A d \in Conn : d # c => server'[d] = server[d]
  BY <1>1 DEF Reply, ServiceType, Service
<1>6. ServiceType'
  BY <1>4, <1>5 DEF ServiceType, Intact
<1> QED  BY <1>3, <1>6

LEMMA CompareType == ASSUME TypeOK, NEW c \in Conn, Compare(c) PROVE TypeOK'
<1> USE DEF TypeOK
<1> DEFINE isNew == DataComparison(Got(c).number, dataNumber)
<1>0. server[c].frames # <<>> /\ server[c] \in Service
  BY DEF Compare, ServiceType
<1>1. CASE isNew /\ Intact(c)
  <2>1. server' = [server EXCEPT ![c].pc = "save"] /\ UNCHANGED chan
    BY <1>1 DEF Compare
  <2>2. server' \in [Conn -> Service]
    BY <1>0, <2>1 DEF ServiceType, Service
  <2>3. server'[c].frames = server[c].frames /\ \A d \in Conn : d # c => server'[d] = server[d]
    BY <1>0, <2>1 DEF ServiceType, Service
  <2>4. ServiceType'
    BY <1>0, <1>1, <2>2, <2>3 DEF ServiceType, Intact
  <2>5. LinkType'
    BY <2>1, SameLink DEF Compare
  <2> QED  BY <2>4, <2>5, SameClient, SameHistory DEF Compare
<1>2. CASE ~(isNew /\ Intact(c))
  <2>1. Reply(c, ~isNew) /\ (~isNew) \in BOOLEAN
    BY <1>2 DEF Compare
  <2>2. LinkType' /\ ServiceType'
    BY <1>0, <2>1, ReplyType DEF Compare
  <2> QED  BY <2>2, SameClient, SameHistory DEF Compare
<1> QED  BY <1>1, <1>2

LEMMA SaveType == ASSUME TypeOK, NEW c \in Conn, Save(c) PROVE TypeOK'
<1> USE DEF TypeOK
<1>1. server[c].frames # <<>> /\ server[c] \in Service /\ Intact(c)
  BY DEF Save, ServiceType
<1>2. Got(c) \in Frame
  BY <1>1 DEF Got, Service
<1>3. applied' \in Seq(1 .. MaxSeq)
  BY <1>2, AppendType DEF Save, HistoryType, Frame
<1>4. server' \in [Conn -> Service]
  BY <1>1 DEF Save, ServiceType, Service
<1>5. server'[c].frames = server[c].frames /\ \A d \in Conn : d # c => server'[d] = server[d]
  BY <1>1 DEF Save, ServiceType, Service
<1>6. ServiceType'
  BY <1>1, <1>4, <1>5 DEF ServiceType, Intact
<1> QED  BY <1>3, <1>6, SameClient, SameLink DEF Save, HistoryType

LEMMA ConfirmType == ASSUME TypeOK, NEW c \in Conn, Confirm(c) PROVE TypeOK'
<1> USE DEF TypeOK
<1>1. server[c].frames # <<>> /\ server[c] \in Service
  BY DEF Confirm, ServiceType
<1>2. Got(c) \in Frame
  BY <1>1 DEF Got, Service
<1>3. LinkType' /\ ServiceType'
  BY <1>1, ReplyType DEF Confirm
<1>4. HistoryType'
  BY <1>2 DEF Confirm, HistoryType, Frame
<1> QED  BY <1>3, <1>4, SameClient DEF Confirm

LEMMA EndServiceType == ASSUME TypeOK, NEW c \in Conn, EndService(c) PROVE TypeOK'
<1> USE DEF TypeOK
<1>1. server' \in [Conn -> Service]
  BY DEF EndService, ServiceType, Service
<1>2. server'[c].pc = "gone" /\ \A d \in Conn : d # c => server'[d] = server[d]
  BY DEF EndService, ServiceType, Service
<1>3. ServiceType'
  BY <1>1, <1>2 DEF ServiceType, Intact
<1> QED  BY <1>3, SameClient, SameLink, SameHistory DEF EndService

LEMMA BreakType == ASSUME TypeOK, NEW c \in Conn, Break(c) PROVE TypeOK'
<1> USE DEF TypeOK
<1> DEFINE s == chan[c].frames
<1>1. s \in Seq(Frame) /\ Len(s) \in Nat
  BY LenProperties DEF LinkType, Channel
<1>2. PICK k \in 0 .. Len(s) :
        chan' = [chan EXCEPT ![c] = [state |-> "broken", frames |-> SubSeq(s, 1, k),
                                     replies |-> <<>>]]
  BY DEF Break
<1>3. SubSeq(s, 1, k) \in Seq(Frame)
  BY <1>1
<1>4. [state |-> "broken", frames |-> SubSeq(s, 1, k), replies |-> <<>>] \in Channel
  BY <1>3 DEF Channel
<1>5. LinkType'
  BY <1>2, <1>4 DEF Break, LinkType
<1> QED  BY <1>5, SameClient, SameService, SameHistory DEF Break

LEMMA LinkNextType == TypeOK /\ [Next]_vars => TypeOK'
<1> SUFFICES ASSUME TypeOK, [Next]_vars PROVE TypeOK'  OBVIOUS
<1>1. CASE UNCHANGED vars
  BY <1>1, SameClient, SameLink, SameService, SameHistory DEF TypeOK, vars
<1>2. CASE ClientStep
  BY <1>2, StartClientType, SendCtrlDataType, SendTimeSyncType, SendFramesType, RecvInfoType,
     EndRoundType, ExitType DEF ClientStep
<1>3. CASE \E c \in Conn : ServerStep(c) \/ Break(c)
  BY <1>3, RecvType, CompareType, SaveType, ConfirmType, EndServiceType, BreakType DEF ServerStep
<1> QED  BY <1>1, <1>2, <1>3 DEF Next

THEOREM LinkTypeCorrect == Spec => []TypeOK
BY LinkInitType, LinkNextType, PTL DEF Spec

-----------------------------------------------------------------------------
(* One connection: the frames on their way from the client to the last     *)
(* frame saved.  Before: a frame that follows another one is of a later    *)
(* round, or the same frame again.                                         *)
Before(f, g) == f.seq < g.seq \/ f = g
CurrentFrame == [seq |-> client.seq, kind |-> client.kind, number |-> client.number]

(* The frames read, the frames under way and the one the client repeats.   *)
InLine(read, sent, current) ==
    /\ \A i, j \in DOMAIN read : i < j => Before(read[i], read[j])
    /\ \A i, j \in DOMAIN sent : i < j => Before(sent[i], sent[j])
    /\ \A i \in DOMAIN read, j \in DOMAIN sent : Before(read[i], sent[j])
    /\ \A i \in DOMAIN read : Before(read[i], current)
    /\ \A j \in DOMAIN sent : Before(sent[j], current)
Line(c) == ToSet(server[c].frames) \cup ToSet(chan[c].frames) \cup {CurrentFrame}

OpeningInv(c) ==
    /\ opens[c[1]] = 0 => /\ client.seq = 0 /\ applied = <<>> /\ dataNumber = 0
                          /\ chan[c].frames = <<>> /\ server[c].frames = <<>>
    /\ client.pc # "exited" => opens[c[1]] # 0
    /\ server[c].pc \in {"recv", "gone"} => server[c].frames = <<>>
    /\ ~server[c].joined => server[c].pc \in {"recv", "gone"} /\ dataNumber = 0
LineInv(c) == InLine(server[c].frames, chan[c].frames, CurrentFrame)

(* No frame in the line is older than one that was saved, and one that was *)
(* saved already carries the number saved.                                 *)
SavedInv(c) ==
    /\ \A i \in 1 .. Len(applied) : \A f \in Line(c) :
          /\ applied[i] <= f.seq
          /\ applied[i] = f.seq => server[c].pc = "number" \/ f.number = dataNumber
    /\ server[c].pc = "save" => \A i \in 1 .. Len(applied) : applied[i] < Got(c).seq
OrderInv(c) == OpeningInv(c) /\ LineInv(c) /\ SavedInv(c) /\ AppliedOnceInOrder

(* Until the numbers wrap, a frame whose number is not new was saved.      *)
NumberInv(c) ==
    /\ \A f \in Line(c) : f.number = f.seq + 1
    /\ dataNumber <= client.number
    /\ \A f \in Line(c) : f.number <= dataNumber /\ f.kind = "ctrl" => f.seq \in ToSet(applied)
    /\ server[c].pc = "number" /\ Got(c).kind = "ctrl" => Got(c).seq \in ToSet(applied)

LEMMA TakenInLine ==
  ASSUME NEW S, NEW sent \in Seq(S), NEW current, InLine(<<>>, sent, current),
         NEW k \in 0 .. Len(sent)
  PROVE  /\ InLine(SubSeq(sent, 1, k), SubSeq(sent, k + 1, Len(sent)), current)
         /\ InLine(<<>>, SubSeq(sent, 1, k), current)
         /\ ToSet(SubSeq(sent, 1, k)) \subseteq ToSet(sent)
         /\ ToSet(SubSeq(sent, k + 1, Len(sent))) \subseteq ToSet(sent)
<1> DEFINE a == SubSeq(sent, 1, k)
           b == SubSeq(sent, k + 1, Len(sent))
<1>1. DOMAIN sent = 1 .. Len(sent) /\ DOMAIN a = 1 .. k /\ DOMAIN b = 1 .. Len(sent) - k
      /\ Len(sent) \in Nat
  OBVIOUS
<1>2. \A i \in DOMAIN a : i \in DOMAIN sent /\ a[i] = sent[i]
  BY <1>1
<1>3. \A i \in DOMAIN b : i + k \in DOMAIN sent /\ b[i] = sent[i + k]
  BY <1>1
<1> HIDE DEF a, b
<1>4. \A i \in DOMAIN a, j \in DOMAIN b : Before(a[i], b[j])
  BY <1>1, <1>2, <1>3 DEF InLine
<1>5. \A i, j \in DOMAIN a : i < j => Before(a[i], a[j])
  BY <1>2 DEF InLine
<1>6. \A i, j \in DOMAIN b : i < j => Before(b[i], b[j])
  BY <1>1, <1>3 DEF InLine
<1>7. (\A i \in DOMAIN a : Before(a[i], current)) /\ \A j \in DOMAIN b : Before(b[j], current)
  BY <1>2, <1>3 DEF InLine
<1>8. InLine(a, b, current) /\ InLine(<<>>, a, current)
  BY <1>4, <1>5, <1>6, <1>7 DEF InLine
<1>9. ToSet(a) \subseteq ToSet(sent) /\ ToSet(b) \subseteq ToSet(sent)
  BY <1>2, <1>3 DEF ToSet
<1> QED  BY <1>8, <1>9 DEF a, b

LEMMA AppendedInLine ==
  ASSUME NEW S, NEW read, NEW sent \in Seq(S), NEW current, InLine(read, sent, current)
  PROVE  /\ InLine(read, Append(sent, current), current)
         /\ ToSet(Append(sent, current)) = ToSet(sent) \cup {current}
<1> DEFINE b == Append(sent, current)
<1>1. DOMAIN b = 1 .. Len(sent) + 1 /\ DOMAIN sent = 1 .. Len(sent) /\ Len(sent) \in Nat
      /\ b[Len(sent) + 1] = current /\ \A i \in DOMAIN sent : b[i] = sent[i]
  OBVIOUS
<1> HIDE DEF b
<1>2. \A i, j \in DOMAIN b : i < j => Before(b[i], b[j])
  BY <1>1 DEF InLine
<1>3. \A i \in DOMAIN read, j \in DOMAIN b : Before(read[i], b[j])
  BY <1>1 DEF InLine
<1>4. \A j \in DOMAIN b : Before(b[j], current)
  BY <1>1 DEF InLine, Before
<1>5. InLine(read, b, current)
  BY <1>2, <1>3, <1>4 DEF InLine
<1>6. ToSet(b) = ToSet(sent) \cup {current}
  BY <1>1 DEF ToSet
<1> QED  BY <1>5, <1>6 DEF b

LEMMA NextInLine ==
  ASSUME NEW read \in Seq(Frame), NEW sent \in Seq(Frame), NEW current, NEW next,
         InLine(read, sent, current), current.seq \in Nat, next.seq = current.seq + 1
  PROVE  InLine(read, sent, next)
<1>1. \A f \in Frame : Before(f, current) => Before(f, next)
  BY DEF Before, Frame
<1> QED  BY <1>1 DEF InLine

LEMMA ReadInLine ==
  ASSUME NEW read, NEW sent, NEW current, InLine(read, sent, current)
  PROVE  InLine(<<>>, sent, current)
BY DEF InLine

NoWrap == MaxSeq + 1 < Modulus
LinkInv(c) == /\ OpeningInv(c) /\ LineInv(c) /\ SavedInv(c) /\ AppliedOnceInOrder
              /\ NoWrap => NumberInv(c) /\ ConfirmedWasSaved
OneConnection(net) == Net = {net} /\ MaxOpen = 1

LEMMA OneConnectionLemma ==
  ASSUME NEW net, OneConnection(net)
  PROVE  /\ Conn = {<<net, 1>>} /\ \A n \in Net : n = net
         /\ LinkType => /\ opens[net] \in {0, 1}
                        /\ opens[net] > 0 => Current(net) = <<net, 1>>
<1>1. 1 .. MaxOpen = {1}
  BY DEF OneConnection
<1>2. Conn = {<<net, 1>>} /\ \A n \in Net : n = net
  BY <1>1 DEF Conn, OneConnection
<1>3. LinkType => opens[net] \in {0, 1} /\ (opens[net] > 0 => opens[net] = 1)
  BY DEF LinkType, OneConnection
<1> QED  BY <1>2, <1>3 DEF Current

LEMMA LineType ==
  ASSUME TypeOK, NEW c \in Conn
  PROVE  /\ server[c].frames \in Seq(Frame) /\ chan[c].frames \in Seq(Frame)
         /\ chan[c].replies \in Seq(Confirmation)
         /\ \A f \in Line(c) : f.seq \in 0 .. MaxSeq /\ f.number \in Number
         /\ \A i \in 1 .. Len(applied) : applied[i] \in 1 .. MaxSeq
         /\ client.seq \in 0 .. MaxSeq /\ client.number \in Number /\ dataNumber \in Number
<1>1. server[c].frames \in Seq(Frame) /\ chan[c].frames \in Seq(Frame)
      /\ chan[c].replies \in Seq(Confirmation)
  BY DEF TypeOK, ServiceType, Service, LinkType, Channel
<1>2. client.seq \in 0 .. MaxSeq /\ client.number \in Number
  BY DEF TypeOK, ClientType, Client
<1>3. \A f \in Frame : f.seq \in 0 .. MaxSeq /\ f.number \in Number
  BY DEF Frame
<1>4. \A S : \A s \in Seq(S) : ToSet(s) \subseteq S
  BY DEF ToSet
<1>5. ToSet(server[c].frames) \subseteq Frame /\ ToSet(chan[c].frames) \subseteq Frame
  BY <1>1, <1>4
<1>6. CurrentFrame.seq \in 0 .. MaxSeq /\ CurrentFrame.number \in Number
  BY <1>2 DEF CurrentFrame
<1>7. \A i \in 1 .. Len(applied) : applied[i] \in 1 .. MaxSeq
  <2>1. applied \in Seq(1 .. MaxSeq)
    BY DEF TypeOK, HistoryType
  <2> QED  BY <2>1, ElementOfSeq
<1>8. \A f \in Line(c) : f \in Frame \/ f = CurrentFrame
  BY <1>5 DEF Line
<1>9. \A f \in Line(c) : f.seq \in 0 .. MaxSeq /\ f.number \in Number
  BY <1>3, <1>6, <1>8
<1> QED  BY <1>1, <1>2, <1>7, <1>9 DEF TypeOK, HistoryType

LEMMA LinkInvInit ==
  ASSUME NEW c \in Conn, Init
  PROVE  LinkInv(c)
<1> USE ControlLinkAssumption, DataNumbersAssumption
<1>0. c[1] \in Net
  BY DEF Conn
<1>1. /\ opens[c[1]] = 0 /\ chan[c].frames = <<>> /\ server[c].frames = <<>>
      /\ server[c].pc = "gone" /\ applied = <<>> /\ dataNumber = 0
      /\ client.seq = 0 /\ client.pc = "exited" /\ client.number = 1
  BY <1>0 DEF Init, NewChan, NewServer
<1>2. \A d \in Conn : chan[d].replies = <<>>
  BY DEF Init, NewChan
<1>3. OpeningInv(c)
  BY <1>1 DEF OpeningInv
<1>4. Line(c) = {CurrentFrame}
  BY <1>1 DEF Line, ToSet
<1>5. LineInv(c)
  BY <1>1 DEF LineInv, InLine
<1>6. SavedInv(c) /\ AppliedOnceInOrder
  BY <1>1 DEF SavedInv, AppliedOnceInOrder
<1>7. NumberInv(c)
  BY <1>1, <1>4 DEF NumberInv, CurrentFrame
<1>8. ConfirmedWasSaved
  BY <1>2 DEF ConfirmedWasSaved, ToSet
<1> QED  BY <1>3, <1>5, <1>6, <1>7, <1>8 DEF LinkInv

(* Steps that do not touch the line.                                       *)
LEMMA QuietInv ==
  ASSUME TypeOK, NEW c \in Conn, LinkInv(c), Conn = {c},
         CurrentFrame' = CurrentFrame, UNCHANGED <<opens, server, dataNumber, applied>>,
         chan'[c].frames = chan[c].frames,
         ToSet(chan'[c].replies) \subseteq ToSet(chan[c].replies),
         client'.pc # "exited" => client.pc # "exited"
  PROVE  LinkInv(c)'
<1>1. client'.seq = client.seq /\ client'.number = client.number
  BY DEF CurrentFrame
<1>2. OpeningInv(c)'
  BY <1>1 DEF LinkInv, OpeningInv
<1>3. LineInv(c)'
  BY DEF LinkInv, LineInv
<1>4. Line(c)' = Line(c)
  BY DEF Line
<1>5. SavedInv(c)' /\ AppliedOnceInOrder'
  BY <1>4 DEF LinkInv, SavedInv, AppliedOnceInOrder, Got
<1>6. NoWrap => NumberInv(c)' /\ ConfirmedWasSaved'
  BY <1>1, <1>4 DEF LinkInv, NumberInv, ConfirmedWasSaved, Got
<1> QED  BY <1>2, <1>3, <1>5, <1>6 DEF LinkInv

Sent(channel, f) == [channel EXCEPT !.frames = Append(@, f)]

LEMMA ChannelParts ==
  ASSUME NEW ch \in Channel
  PROVE  /\ Closed(ch).frames = ch.frames /\ ToSet(Closed(ch).replies) = {}
         /\ AllRead(ch).frames = ch.frames /\ ToSet(AllRead(ch).replies) = {}
         /\ \A f : Sent(ch, f).frames = Append(ch.frames, f) /\ Sent(ch, f).replies = ch.replies
<1>1. ToSet(<<>>) = {}
  BY DEF ToSet
<1>2. Closed(ch).frames = ch.frames /\ Closed(ch).replies = <<>>
  BY DEF Closed, Channel
<1>3. AllRead(ch).frames = ch.frames /\ AllRead(ch).replies = <<>>
  BY DEF AllRead, Channel
<1>4. \A f : Sent(ch, f).frames = Append(ch.frames, f) /\ Sent(ch, f).replies = ch.replies
  BY DEF Sent, Channel
<1> QED  BY <1>1, <1>2, <1>3, <1>4

LEMMA StartClientInv ==
  ASSUME TypeOK, NEW net, OneConnection(net), LinkInv(<<net, 1>>), StartClient
  PROVE  LinkInv(<<net, 1>>)'
<1> DEFINE c == <<net, 1>>
<1>0. Conn = {c} /\ c[1] = net /\ c[2] = 1 /\ opens[net] \in {0, 1} /\ \A n \in Net : n = net
  BY OneConnectionLemma DEF TypeOK
<1>1. PICK nets \in SUBSET Net : nets # {} /\ Connect(nets)
  BY DEF StartClient
<1>2. net \in nets /\ opens[net] < MaxOpen
  BY <1>0, <1>1 DEF Connect
<1>3. opens[net] = 0
  BY <1>0, <1>2 DEF OneConnection
<1>4. opens' = [n \in Net |-> IF n \in nets THEN opens[n] + 1 ELSE opens[n]]
  BY <1>1 DEF Connect
<1>5. opens'[net] = 1
  BY <1>2, <1>3, <1>4
<1>6. chan'[c] = NewChan /\ server'[c] = NewServer
  BY <1>0, <1>1, <1>2, <1>5 DEF Connect
<1>7. /\ client.seq = 0 /\ applied' = <<>> /\ dataNumber' = 0
      /\ client'.seq = 0 /\ client'.number = 1
  BY <1>0, <1>3 DEF LinkInv, OpeningInv, StartClient, TypeOK, ClientType, Client
<1>8. /\ server'[c].frames = <<>> /\ server'[c].pc = "recv" /\ ~server'[c].joined
      /\ chan'[c].frames = <<>> /\ chan'[c].replies = <<>>
  BY <1>6 DEF NewChan, NewServer
<1>9. OpeningInv(c)'
  BY <1>0, <1>5, <1>7, <1>8 DEF OpeningInv
<1>10. Line(c)' = {CurrentFrame}'
  BY <1>8 DEF Line, ToSet
<1>11. LineInv(c)'
  BY <1>8 DEF LineInv, InLine
<1>12. SavedInv(c)' /\ AppliedOnceInOrder'
  BY <1>7, <1>8 DEF SavedInv, AppliedOnceInOrder
<1>13. NumberInv(c)'
  BY <1>7, <1>8, <1>10 DEF NumberInv, CurrentFrame
<1>14. ConfirmedWasSaved'
  BY <1>0, <1>8 DEF ConfirmedWasSaved, ToSet
<1> QED  BY <1>9, <1>11, <1>12, <1>13, <1>14 DEF LinkInv

(* A new round: its frame is younger than all under way.                   *)
LEMMA NewRoundInv ==
  ASSUME TypeOK, NEW c \in Conn, Conn = {c}, LinkInv(c), NEW kind \in Kind, NewRound(kind),
         UNCHANGED <<opens, chan, server, dataNumber, applied>>
  PROVE  LinkInv(c)'
<1> DEFINE a == server[c].frames
           b == chan[c].frames
<1>0. /\ client.seq \in 0 .. MaxSeq /\ client.number \in Number /\ dataNumber \in Number
      /\ a \in Seq(Frame) /\ b \in Seq(Frame)
      /\ \A i \in 1 .. Len(applied) : applied[i] \in 1 .. MaxSeq
  BY LineType
<1>1. client'.seq = client.seq + 1 /\ client'.number = Next16(client.number)
      /\ client'.pc = "send" /\ client.pc = "idle" /\ client.seq < MaxSeq
  BY DEF NewRound, TypeOK, ClientType, Client
<1>2. OpeningInv(c)'
  BY <1>1 DEF LinkInv, OpeningInv
<1>3. CurrentFrame.seq = client.seq /\ CurrentFrame'.seq = client.seq + 1
      /\ CurrentFrame.number = client.number /\ CurrentFrame'.number = client'.number
  BY <1>1 DEF CurrentFrame
<1>4. LineInv(c)'
  BY <1>0, <1>3, NextInLine DEF LinkInv, LineInv
<1>5. Line(c)' \subseteq Line(c) \cup {CurrentFrame'} /\ CurrentFrame \in Line(c)
  BY DEF Line
<1>6. \A i \in 1 .. Len(applied) : applied[i] < CurrentFrame'.seq
  BY <1>0, <1>3, <1>5 DEF LinkInv, SavedInv
<1>7. SavedInv(c)'
  <2>1. SavedInv(c)
    BY DEF LinkInv
  <2>2. /\ server' = server /\ applied' = applied /\ dataNumber' = dataNumber /\ Got(c)' = Got(c)
    BY DEF Got
  <2>3. \A i \in 1 .. Len(applied) : \A f \in Line(c)' :
           /\ applied[i] <= f.seq
           /\ applied[i] = f.seq => server[c].pc = "number" \/ f.number = dataNumber
    <3> SUFFICES ASSUME NEW i \in 1 .. Len(applied), NEW f \in Line(c)'
                 PROVE  /\ applied[i] <= f.seq
                        /\ applied[i] = f.seq => server[c].pc = "number" \/ f.number = dataNumber
      OBVIOUS
    <3>1. CASE f \in Line(c)
      BY <2>1, <3>1 DEF SavedInv
    <3>2. CASE f = CurrentFrame'
      BY <1>0, <1>3, <1>6, <3>2
    <3> QED  BY <1>5, <3>1, <3>2
  <2> QED  BY <2>1, <2>2, <2>3 DEF SavedInv
<1>8. AppliedOnceInOrder'
  BY DEF LinkInv, AppliedOnceInOrder
<1>9. NoWrap => NumberInv(c)'
  <2> SUFFICES ASSUME NoWrap PROVE NumberInv(c)'  OBVIOUS
  <2>1. client.number = client.seq + 1 /\ client.number + 1 \in 0 .. Modulus - 1
    BY <1>0, <1>1, <1>3, <1>5, ControlLinkAssumption, DataNumbersAssumption
       DEF LinkInv, NumberInv, NoWrap
  <2>2. client'.number = client.seq + 2
    <3>1. \A n \in 0 .. Modulus - 1 : n % Modulus = n
      BY DataNumbersAssumption
    <3> QED  BY <1>0, <1>1, <2>1, <3>1 DEF Next16
  <2>3. dataNumber < client'.number
    BY <1>0, <2>1, <2>2 DEF LinkInv, NumberInv, Number
  <2> QED  BY <1>0, <1>3, <1>5, <2>2, <2>3 DEF LinkInv, NumberInv, Got, Number
<1>10. NoWrap => ConfirmedWasSaved'
  BY DEF LinkInv, ConfirmedWasSaved
<1> QED  BY <1>2, <1>4, <1>7, <1>8, <1>9, <1>10 DEF LinkInv

LEMMA SendCtrlDataInv ==
  ASSUME TypeOK, NEW net, OneConnection(net), LinkInv(<<net, 1>>), SendCtrlData
  PROVE  LinkInv(<<net, 1>>)'
BY NewRoundInv, OneConnectionLemma DEF SendCtrlData, Kind

LEMMA SendTimeSyncInv ==
  ASSUME TypeOK, NEW net, OneConnection(net), LinkInv(<<net, 1>>), SendTimeSync
  PROVE  LinkInv(<<net, 1>>)'
<1> DEFINE c == <<net, 1>>
<1>0. Conn = {c} /\ c[1] = net /\ opens[net] \in {0, 1} /\ \A n \in Net : n = net
  BY OneConnectionLemma DEF TypeOK
<1>1. PICK nets \in SUBSET (Net \ OpenNets) : Connect(nets)
  BY DEF SendTimeSync
<1>2. client.pc = "idle"
  BY DEF SendTimeSync, NewRound
<1>3. opens[net] = 1
  BY <1>0, <1>2 DEF LinkInv, OpeningInv
<1>4. nets = {}
  BY <1>0, <1>1, <1>3 DEF Connect, OneConnection
<1>5. opens' = [n \in Net |-> opens[n]]
  BY <1>1, <1>4 DEF Connect
<1>6. chan' = [d \in Conn |-> chan[d]] /\ server' = [d \in Conn |-> server[d]]
  BY <1>1, <1>4 DEF Connect
<1>7. UNCHANGED <<opens, chan, server>>
  BY <1>5, <1>6 DEF TypeOK, LinkType, ServiceType
<1> QED  BY <1>0, <1>7, NewRoundInv DEF SendTimeSync, Kind

LEMMA SendFramesInv ==
  ASSUME TypeOK, NEW net, OneConnection(net), LinkInv(<<net, 1>>), SendFrames
  PROVE  LinkInv(<<net, 1>>)'
<1> DEFINE c == <<net, 1>>
<1>0. /\ Conn = {c} /\ c \in Conn /\ chan[c] \in Channel
      /\ chan[c].frames \in Seq(Frame)
  BY OneConnectionLemma, LineType DEF TypeOK, LinkType
<1>1. CurrentFrame' = CurrentFrame /\ client'.pc = "recv" /\ client.pc = "send"
  BY DEF SendFrames, CurrentFrame, TypeOK, ClientType, Client
<1>2. chan'[c] \in {chan[c], Closed(chan[c]), Sent(chan[c], CurrentFrame)}
  BY <1>0 DEF SendFrames, CurrentFrame, Sent
<1>3. CASE chan'[c].frames = chan[c].frames
  <2>1. chan'[c].replies = chan[c].replies \/ ToSet(chan'[c].replies) = {}
    <3>1. /\ ToSet(Closed(chan[c]).replies) = {}
          /\ Sent(chan[c], CurrentFrame).replies = chan[c].replies
      BY <1>0, ChannelParts
    <3> QED  BY <1>2, <3>1
  <2>2. ToSet(chan'[c].replies) \subseteq ToSet(chan[c].replies)
    BY <2>1
  <2> QED  BY <1>0, <1>1, <1>3, <2>2, QuietInv DEF SendFrames
<1>4. CASE chan'[c] = Sent(chan[c], CurrentFrame)
  <2>1. chan'[c].frames = Append(chan[c].frames, CurrentFrame) /\ chan'[c].replies = chan[c].replies
    BY <1>0, <1>4, ChannelParts
  <2>2. LineInv(c)' /\ Line(c)' = Line(c)
    <3>1. /\ InLine(server[c].frames, Append(chan[c].frames, CurrentFrame), CurrentFrame)
          /\ ToSet(Append(chan[c].frames, CurrentFrame)) = ToSet(chan[c].frames) \cup {CurrentFrame}
      <4>1. InLine(server[c].frames, chan[c].frames, CurrentFrame)
        BY DEF LinkInv, LineInv
      <4> QED  BY <1>0, <4>1, AppendedInLine
    <3>2. UNCHANGED server
      BY DEF SendFrames
    <3> QED  BY <1>1, <2>1, <3>1, <3>2 DEF LineInv, Line
  <2>3. client'.seq = client.seq /\ client'.number = client.number
    BY <1>1 DEF CurrentFrame
  <2>4. OpeningInv(c)'
    BY <1>1, <2>3 DEF LinkInv, OpeningInv, SendFrames
  <2>5. SavedInv(c)' /\ AppliedOnceInOrder'
    BY <2>2 DEF LinkInv, SavedInv, AppliedOnceInOrder, Got, SendFrames
  <2>6. NoWrap => NumberInv(c)' /\ ConfirmedWasSaved'
    BY <1>0, <2>1, <2>2, <2>3 DEF LinkInv, NumberInv, ConfirmedWasSaved, Got, SendFrames
  <2> QED  BY <2>2, <2>4, <2>5, <2>6 DEF LinkInv
<1> QED  BY <1>0, <1>2, <1>3, <1>4, ChannelParts

LEMMA RecvInfoInv ==
  ASSUME TypeOK, NEW net, OneConnection(net), LinkInv(<<net, 1>>), NEW n \in Net, RecvInfo(n)
  PROVE  LinkInv(<<net, 1>>)'
<1> DEFINE c == <<net, 1>>
<1>0. Conn = {c} /\ c \in Conn /\ chan[c] \in Channel /\ n = net
  BY OneConnectionLemma DEF TypeOK, LinkType
<1>1. Current(n) = c
  BY <1>0, OneConnectionLemma DEF RecvInfo, TypeOK, ClientType
<1>2. CurrentFrame' = CurrentFrame /\ client.pc = "recv"
  BY DEF RecvInfo, CurrentFrame, TypeOK, ClientType, Client
<1>3. chan'[c] \in {Closed(chan[c]), AllRead(chan[c])}
  BY <1>0, <1>1 DEF RecvInfo, TypeOK, LinkType
<1>4. chan'[c].frames = chan[c].frames /\ ToSet(chan'[c].replies) \subseteq ToSet(chan[c].replies)
  BY <1>0, <1>3, ChannelParts
<1> QED  BY <1>0, <1>2, <1>4, QuietInv DEF RecvInfo

LEMMA EndRoundInv ==
  ASSUME TypeOK, NEW net, OneConnection(net), LinkInv(<<net, 1>>), EndRound \/ Exit
  PROVE  LinkInv(<<net, 1>>)'
<1> DEFINE c == <<net, 1>>
<1>0. Conn = {c} /\ c \in Conn /\ chan[c] \in Channel
  BY OneConnectionLemma DEF TypeOK, LinkType
<1>1. CurrentFrame' = CurrentFrame /\ client.pc # "exited"
  BY DEF EndRound, Exit, CurrentFrame, TypeOK, ClientType, Client
<1>2. chan'[c] \in {chan[c], Closed(chan[c])}
  BY <1>0 DEF EndRound, Exit
<1>3. chan'[c].frames = chan[c].frames /\ ToSet(chan'[c].replies) \subseteq ToSet(chan[c].replies)
  BY <1>0, <1>2, ChannelParts
<1> QED  BY <1>0, <1>1, <1>3, QuietInv DEF EndRound, Exit

LEMMA RecvInv ==
  ASSUME TypeOK, NEW c \in Conn, Conn = {c}, LinkInv(c), Recv(c)
  PROVE  LinkInv(c)'
<1> DEFINE s == chan[c].frames
<1>0. s \in Seq(Frame) /\ Len(s) \in Nat /\ server[c].frames = <<>> /\ server[c].pc = "recv"
  BY LineType, LenProperties DEF Recv, LinkInv, OpeningInv
<1>1. PICK k \in 1 .. Len(s) :
        /\ server' = [server EXCEPT ![c] = [pc |-> "compare", joined |-> TRUE,
                                            frames |-> SubSeq(s, 1, k)]]
        /\ chan' = [chan EXCEPT ![c].frames = SubSeq(s, k + 1, Len(s))]
  BY DEF Recv
<1>2. /\ server'[c].pc = "compare" /\ server'[c].joined /\ server'[c].frames = SubSeq(s, 1, k)
      /\ chan'[c].frames = SubSeq(s, k + 1, Len(s)) /\ chan'[c].replies = chan[c].replies
  BY <1>1 DEF TypeOK, ServiceType, LinkType, Channel
<1>3. CurrentFrame' = CurrentFrame /\ UNCHANGED <<client, opens, applied, dataNumber>>
  BY DEF Recv, CurrentFrame, LinkInv, OpeningInv
<1>4. /\ InLine(SubSeq(s, 1, k), SubSeq(s, k + 1, Len(s)), CurrentFrame)
      /\ ToSet(SubSeq(s, 1, k)) \subseteq ToSet(s)
      /\ ToSet(SubSeq(s, k + 1, Len(s))) \subseteq ToSet(s)
  <2>1. InLine(<<>>, s, CurrentFrame)
    BY <1>0 DEF LinkInv, LineInv
  <2> QED  BY <1>0, <2>1, TakenInLine
<1>5. LineInv(c)' /\ Line(c)' \subseteq Line(c)
  BY <1>2, <1>3, <1>4 DEF LineInv, Line
<1>6. opens[c[1]] # 0
  BY <1>0 DEF LinkInv, OpeningInv
<1>7. OpeningInv(c)'
  BY <1>2, <1>3, <1>6 DEF LinkInv, OpeningInv
<1>8. SavedInv(c)' /\ AppliedOnceInOrder'
  BY <1>0, <1>2, <1>3, <1>5 DEF LinkInv, SavedInv, AppliedOnceInOrder
<1>9. NoWrap => NumberInv(c)' /\ ConfirmedWasSaved'
  BY <1>0, <1>2, <1>3, <1>5 DEF LinkInv, NumberInv, ConfirmedWasSaved
<1> QED  BY <1>5, <1>7, <1>8, <1>9 DEF LinkInv

LEMMA ReplyInv ==
  ASSUME TypeOK, NEW c \in Conn, Conn = {c}, LinkInv(c), NEW p \in BOOLEAN, Reply(c, p),
         UNCHANGED <<client, opens, applied>>, server[c].pc \in {"compare", "number"},
         dataNumber' = IF server[c].pc = "compare" THEN dataNumber ELSE Got(c).number,
         NoWrap /\ p /\ Got(c).kind = "ctrl" => Got(c).seq \in ToSet(applied)
  PROVE  LinkInv(c)'
<1> DEFINE r == [frame |-> Got(c), positive |-> p]
<1>0. /\ server[c].frames # <<>> /\ server[c].frames \in Seq(Frame)
      /\ chan[c].frames \in Seq(Frame) /\ chan[c].replies \in Seq(Confirmation)
      /\ chan[c] \in Channel /\ server[c] \in Service
  BY LineType DEF TypeOK, ServiceType, LinkType
<1>1. /\ server'[c].frames = <<>> /\ server'[c].pc = "recv" /\ server'[c].joined = server[c].joined
  BY <1>0 DEF Reply, TypeOK, ServiceType, Service
<1>2. chan'[c].frames = chan[c].frames
  BY <1>0 DEF Reply, TypeOK, LinkType, Channel
<1>3. chan'[c].replies \in {chan[c].replies, Append(chan[c].replies, r)}
  BY <1>0 DEF Reply, TypeOK, LinkType, Channel
<1>4. ToSet(chan'[c].replies) \subseteq ToSet(chan[c].replies) \cup {r}
  <2>1. ToSet(Append(chan[c].replies, r)) \subseteq ToSet(chan[c].replies) \cup {r}
    <3> HIDE DEF r
    <3> QED  BY <1>0 DEF ToSet
  <2> QED  BY <1>3, <2>1
<1>5. CurrentFrame' = CurrentFrame
  BY DEF CurrentFrame
<1>6. Line(c)' \subseteq Line(c) /\ Got(c) \in Line(c)
  BY <1>0, <1>1, <1>2, <1>5 DEF Line, ToSet, Got
<1>7. LineInv(c)'
  BY <1>1, <1>2, <1>5, ReadInLine DEF LinkInv, LineInv
<1>8. OpeningInv(c)'
  BY <1>0, <1>1 DEF LinkInv, OpeningInv
<1>9. \A f \in Line(c)' : Before(Got(c), f)
  <2>1. \A f \in ToSet(chan[c].frames) \cup {CurrentFrame} : Before(Got(c), f)
    BY <1>0 DEF LinkInv, LineInv, InLine, ToSet, Got
  <2> QED  BY <1>1, <1>2, <1>5, <2>1 DEF Line, ToSet
<1>10. /\ \A f \in Line(c) : f.seq \in 0 .. MaxSeq /\ f.number \in Number
       /\ \A i \in 1 .. Len(applied) : applied[i] \in 1 .. MaxSeq
       /\ client.number \in Number /\ dataNumber \in Number
  BY LineType
<1>11. SavedInv(c)'
  <2>1. \A i \in 1 .. Len(applied) : \A f \in Line(c)' :
          applied[i] <= f.seq /\ (applied[i] = f.seq => f.number = dataNumber')
    <3> TAKE i \in 1 .. Len(applied)
    <3> TAKE f \in Line(c)'
    <3>1. applied[i] <= f.seq /\ applied[i] <= Got(c).seq
      BY <1>6 DEF LinkInv, SavedInv
    <3>2. CASE server[c].pc = "compare"
      BY <1>6, <3>1, <3>2 DEF LinkInv, SavedInv
    <3>3. CASE server[c].pc = "number"
      BY <1>6, <1>9, <1>10, <3>1, <3>3 DEF Before
    <3> QED  BY <3>2, <3>3
  <2> QED  BY <1>1, <2>1 DEF SavedInv
<1>12. AppliedOnceInOrder'
  BY DEF LinkInv, AppliedOnceInOrder
<1>13. NoWrap => NumberInv(c)'
  <2> SUFFICES ASSUME NoWrap PROVE NumberInv(c)'  OBVIOUS
  <2>1. \A f \in Line(c)' : f.number = f.seq + 1
    BY <1>6 DEF LinkInv, NumberInv
  <2>2. Got(c).number = Got(c).seq + 1 /\ client.number = client.seq + 1
    BY <1>6 DEF LinkInv, NumberInv, Line, CurrentFrame
  <2>3. dataNumber' <= client.number
    <3>1. CASE server[c].pc = "compare"
      BY <3>1 DEF LinkInv, NumberInv
    <3>2. CASE server[c].pc = "number"
      <4>1. Before(Got(c), CurrentFrame)
        BY <1>5, <1>9 DEF Line
      <4>2. CurrentFrame.seq = client.seq /\ CurrentFrame.number = client.number
            /\ CurrentFrame \in Line(c)
        BY DEF CurrentFrame, Line
      <4>3. Got(c).number <= client.number
        BY <1>6, <1>10, <2>2, <4>1, <4>2 DEF Before, Number
      <4> QED  BY <3>2, <4>3
    <3> QED  BY <3>1, <3>2
  <2>4. \A f \in Line(c)' : f.number <= dataNumber' /\ f.kind = "ctrl" => f.seq \in ToSet(applied)
    <3>1. CASE server[c].pc = "compare"
      BY <1>6, <3>1 DEF LinkInv, NumberInv
    <3>2. CASE server[c].pc = "number"
      <4>1. \A f \in Line(c)' : f.number <= dataNumber' => f = Got(c)
        BY <1>6, <1>9, <1>10, <2>1, <2>2, <3>2 DEF Before, Number
      <4> QED  BY <3>2, <4>1 DEF LinkInv, NumberInv
    <3> QED  BY <3>1, <3>2
  <2> QED  BY <1>1, <2>1, <2>3, <2>4 DEF NumberInv
<1>14. NoWrap => ConfirmedWasSaved'
  BY <1>4 DEF LinkInv, ConfirmedWasSaved
<1> QED  BY <1>7, <1>8, <1>11, <1>12, <1>13, <1>14 DEF LinkInv

LEMMA CompareInv ==
  ASSUME TypeOK, NEW c \in Conn, Conn = {c}, LinkInv(c), Compare(c)
  PROVE  LinkInv(c)'
<1> DEFINE isNew == DataComparison(Got(c).number, dataNumber)
<1>0. server[c].frames # <<>> /\ server[c] \in Service /\ Got(c) \in Line(c)
  BY DEF TypeOK, ServiceType, Compare, Line, ToSet, Got, Service
<1>1. /\ Got(c).number \in Number /\ Got(c).seq \in 0 .. MaxSeq /\ dataNumber \in Number
      /\ \A i \in 1 .. Len(applied) : applied[i] \in 1 .. MaxSeq
  BY <1>0, LineType
<1>2. CASE isNew /\ Intact(c)
  <2>1. server' = [server EXCEPT ![c].pc = "save"]
        /\ UNCHANGED <<client, opens, chan, dataNumber, applied>>
    BY <1>2 DEF Compare
  <2>2. server'[c].frames = server[c].frames /\ server'[c].pc = "save"
        /\ server'[c].joined = server[c].joined /\ server[c].pc = "compare"
    BY <1>0, <2>1 DEF TypeOK, ServiceType, Service, Compare
  <2>3. Line(c)' = Line(c) /\ CurrentFrame' = CurrentFrame
    BY <2>1, <2>2 DEF Line, CurrentFrame
  <2>4. OpeningInv(c)' /\ LineInv(c)'
    BY <2>1, <2>2, <2>3 DEF LinkInv, OpeningInv, LineInv
  <2>5. Got(c)' = Got(c)
    BY <2>2 DEF Got
  <2>6. Got(c).number # dataNumber
    BY <1>1, <1>2, DataNumbersAssumption DEF DataComparison, Number
  <2>7. \A i \in 1 .. Len(applied) : applied[i] < Got(c).seq
    BY <1>0, <1>1, <2>2, <2>6 DEF LinkInv, SavedInv
  <2>8. SavedInv(c)' /\ AppliedOnceInOrder'
    BY <2>1, <2>2, <2>3, <2>5, <2>7 DEF LinkInv, SavedInv, AppliedOnceInOrder
  <2>9. NoWrap => NumberInv(c)' /\ ConfirmedWasSaved'
    BY <2>1, <2>2, <2>3 DEF LinkInv, NumberInv, ConfirmedWasSaved
  <2> QED  BY <2>4, <2>8, <2>9 DEF LinkInv
<1>3. CASE ~(isNew /\ Intact(c))
  <2>1. Reply(c, ~isNew) /\ server[c].pc = "compare"
        /\ UNCHANGED <<client, opens, dataNumber, applied>>
    BY <1>3 DEF Compare
  <2>2. NoWrap /\ ~isNew /\ Got(c).kind = "ctrl" => Got(c).seq \in ToSet(applied)
    <3>1. ~isNew => Got(c).number <= dataNumber
      BY <1>1, DataNumbersAssumption DEF DataComparison, Number
    <3> QED  BY <1>0, <3>1 DEF LinkInv, NumberInv
  <2>3. (~isNew) \in BOOLEAN
    OBVIOUS
  <2> HIDE DEF isNew
  <2> QED  BY <2>1, <2>2, <2>3, ReplyInv
<1> QED  BY <1>2, <1>3

LEMMA SaveInv ==
  ASSUME TypeOK, NEW c \in Conn, Conn = {c}, LinkInv(c), Save(c)
  PROVE  LinkInv(c)'
<1>0. server[c].frames # <<>> /\ server[c] \in Service /\ Got(c) \in Line(c) /\ Intact(c)
  BY DEF TypeOK, ServiceType, Save, Line, ToSet, Got, Service
<1>1. /\ \A f \in Line(c) : f.seq \in 0 .. MaxSeq
      /\ applied \in Seq(1 .. MaxSeq) /\ \A i \in 1 .. Len(applied) : applied[i] \in 1 .. MaxSeq
  BY LineType DEF TypeOK, HistoryType
<1>2. /\ server'[c].frames = server[c].frames /\ server'[c].pc = "number"
      /\ server'[c].joined = server[c].joined /\ server[c].pc = "save"
  BY <1>0 DEF Save, TypeOK, ServiceType, Service
<1>3. Line(c)' = Line(c) /\ CurrentFrame' = CurrentFrame /\ Got(c)' = Got(c)
      /\ UNCHANGED <<client, opens, chan, dataNumber>>
  BY <1>2 DEF Save, Line, CurrentFrame, Got
<1>4. opens[c[1]] # 0
  BY <1>0 DEF LinkInv, OpeningInv
<1>5. OpeningInv(c)' /\ LineInv(c)'
  BY <1>2, <1>3, <1>4 DEF LinkInv, OpeningInv, LineInv
<1>6. \A f \in Line(c) : Got(c).seq <= f.seq
  <2>1. server[c].frames = <<Got(c)>>
    BY <1>0 DEF Intact, Got, Service
  <2>2. \A f \in Line(c) : Before(Got(c), f)
    BY <2>1 DEF LinkInv, LineInv, InLine, Line, ToSet, Before
  <2> QED  BY <1>0, <1>1, <2>2 DEF Before
<1>7. \A i \in 1 .. Len(applied) : applied[i] < Got(c).seq
  BY <1>2 DEF LinkInv, SavedInv
<1>8. CASE Got(c).kind # "ctrl"
  <2>1. applied' = applied
    BY <1>8 DEF Save
  <2>2. SavedInv(c)' /\ AppliedOnceInOrder'
    BY <1>2, <1>3, <2>1 DEF LinkInv, SavedInv, AppliedOnceInOrder
  <2>3. NoWrap => NumberInv(c)' /\ ConfirmedWasSaved'
    BY <1>2, <1>3, <1>8, <2>1 DEF LinkInv, NumberInv, ConfirmedWasSaved
  <2> QED  BY <1>5, <2>2, <2>3 DEF LinkInv
<1>9. CASE Got(c).kind = "ctrl"
  <2>1. applied' = Append(applied, Got(c).seq)
    BY <1>9 DEF Save
  <2>2. /\ Len(applied') = Len(applied) + 1 /\ Len(applied) \in Nat
        /\ applied'[Len(applied) + 1] = Got(c).seq
        /\ \A i \in 1 .. Len(applied) : applied'[i] = applied[i]
    BY <1>1, <2>1
  <2>3. ToSet(applied') = ToSet(applied) \cup {Got(c).seq}
    <3>1. DOMAIN applied' = 1 .. Len(applied) + 1 /\ DOMAIN applied = 1 .. Len(applied)
      BY <1>1, <2>1
    <3> QED  BY <2>2, <3>1 DEF ToSet
  <2>4. \A i \in 1 .. Len(applied') : \A f \in Line(c) : applied'[i] <= f.seq
    BY <1>6, <2>2 DEF LinkInv, SavedInv
  <2>5. SavedInv(c)'
    BY <1>2, <1>3, <2>4 DEF SavedInv
  <2>6. AppliedOnceInOrder'
    BY <1>7, <2>2 DEF LinkInv, AppliedOnceInOrder
  <2>7. NoWrap => NumberInv(c)' /\ ConfirmedWasSaved'
    BY <1>2, <1>3, <2>3 DEF LinkInv, NumberInv, ConfirmedWasSaved
  <2> QED  BY <1>5, <2>5, <2>6, <2>7 DEF LinkInv
<1> QED  BY <1>8, <1>9

LEMMA ConfirmInv ==
  ASSUME TypeOK, NEW c \in Conn, Conn = {c}, LinkInv(c), Confirm(c)
  PROVE  LinkInv(c)'
<1>1. /\ server[c].pc = "number" /\ dataNumber' = Got(c).number
      /\ Reply(c, TRUE) /\ UNCHANGED <<client, opens, applied>>
  BY DEF Confirm
<1>2. NoWrap /\ Got(c).kind = "ctrl" => Got(c).seq \in ToSet(applied)
  BY <1>1 DEF LinkInv, NumberInv
<1> QED  BY <1>1, <1>2, ReplyInv

LEMMA EndServiceInv ==
  ASSUME TypeOK, NEW c \in Conn, Conn = {c}, LinkInv(c), EndService(c)
  PROVE  LinkInv(c)'
<1>1. /\ server'[c].frames = server[c].frames /\ server'[c].pc = "gone" /\ server[c].pc = "recv"
      /\ server'[c].joined = server[c].joined
      /\ UNCHANGED <<client, opens, chan, dataNumber, applied>>
  BY DEF EndService, TypeOK, ServiceType, Service
<1>2. Line(c)' = Line(c) /\ CurrentFrame' = CurrentFrame
  BY <1>1 DEF Line, CurrentFrame
<1>3. OpeningInv(c)' /\ LineInv(c)'
  BY <1>1, <1>2 DEF LinkInv, OpeningInv, LineInv
<1>4. SavedInv(c)' /\ AppliedOnceInOrder'
  BY <1>1, <1>2 DEF LinkInv, SavedInv, AppliedOnceInOrder
<1>5. NoWrap => NumberInv(c)' /\ ConfirmedWasSaved'
  BY <1>1, <1>2 DEF LinkInv, NumberInv, ConfirmedWasSaved
<1> QED  BY <1>3, <1>4, <1>5 DEF LinkInv

LEMMA BreakInv ==
  ASSUME TypeOK, NEW c \in Conn, Conn = {c}, LinkInv(c), Break(c)
  PROVE  LinkInv(c)'
<1> DEFINE s == chan[c].frames
<1>0. s \in Seq(Frame) /\ Len(s) \in Nat
  BY LineType, LenProperties
<1>1. PICK k \in 0 .. Len(s) :
        chan' = [chan EXCEPT ![c] = [state |-> "broken", frames |-> SubSeq(s, 1, k),
                                     replies |-> <<>>]]
  BY DEF Break
<1>2. chan'[c].frames = SubSeq(s, 1, k) /\ chan'[c].replies = <<>>
  BY <1>1 DEF TypeOK, LinkType
<1>3. CurrentFrame' = CurrentFrame /\ UNCHANGED <<client, opens, server, dataNumber, applied>>
  BY DEF Break, CurrentFrame
<1>4. InLine(server[c].frames, SubSeq(s, 1, k), CurrentFrame)
      /\ ToSet(SubSeq(s, 1, k)) \subseteq ToSet(s)
  <2>1. InLine(server[c].frames, s, CurrentFrame)
    BY DEF LinkInv, LineInv
  <2>2. InLine(<<>>, s, CurrentFrame)
    BY <2>1, ReadInLine
  <2>3. InLine(<<>>, SubSeq(s, 1, k), CurrentFrame) /\ ToSet(SubSeq(s, 1, k)) \subseteq ToSet(s)
    BY <1>0, <2>2, TakenInLine
  <2>4. DOMAIN SubSeq(s, 1, k) \subseteq DOMAIN s
        /\ \A i \in DOMAIN SubSeq(s, 1, k) : SubSeq(s, 1, k)[i] = s[i]
    BY <1>0
  <2> QED  BY <2>1, <2>3, <2>4 DEF InLine
<1>5. LineInv(c)' /\ Line(c)' \subseteq Line(c)
  BY <1>2, <1>3, <1>4 DEF LineInv, Line
<1>6. OpeningInv(c)'
  <2>1. s = <<>> => SubSeq(s, 1, k) = <<>>
    BY <1>0
  <2>2. chan[c].frames = <<>> => chan'[c].frames = <<>>
    BY <1>2, <2>1
  <2> QED  BY <1>3, <2>2 DEF LinkInv, OpeningInv
<1>7. SavedInv(c)' /\ AppliedOnceInOrder'
  BY <1>3, <1>5 DEF LinkInv, SavedInv, AppliedOnceInOrder, Got
<1>8. NoWrap => NumberInv(c)' /\ ConfirmedWasSaved'
  BY <1>2, <1>3, <1>5 DEF LinkInv, NumberInv, ConfirmedWasSaved, Got, ToSet
<1> QED  BY <1>5, <1>6, <1>7, <1>8 DEF LinkInv

LEMMA ServerInv ==
  ASSUME TypeOK, NEW c \in Conn, Conn = {c}, LinkInv(c), ServerStep(c) \/ Break(c)
  PROVE  LinkInv(c)'
<1>1. CASE Recv(c)        BY <1>1, RecvInv
<1>2. CASE Compare(c)     BY <1>2, CompareInv
<1>3. CASE Save(c)        BY <1>3, SaveInv
<1>4. CASE Confirm(c)     BY <1>4, ConfirmInv
<1>5. CASE EndService(c)  BY <1>5, EndServiceInv
<1>6. CASE Break(c)       BY <1>6, BreakInv
<1> QED  BY <1>1, <1>2, <1>3, <1>4, <1>5, <1>6 DEF ServerStep

LEMMA LinkInvStep ==
  ASSUME NEW net, OneConnection(net), TypeOK, LinkInv(<<net, 1>>), [Next]_vars
  PROVE  LinkInv(<<net, 1>>)'
<1> DEFINE c == <<net, 1>>
<1>0. c \in Conn /\ Conn = {c}
  BY OneConnectionLemma
<1>1. CASE UNCHANGED vars
  <2>1. CurrentFrame' = CurrentFrame
    BY <1>1 DEF vars, CurrentFrame
  <2> QED  BY <1>0, <1>1, <2>1, QuietInv DEF vars
<1>2. CASE ClientStep
  BY <1>2, StartClientInv, SendCtrlDataInv, SendTimeSyncInv, SendFramesInv, RecvInfoInv,
     EndRoundInv DEF ClientStep
<1>3. CASE \E d \in Conn : ServerStep(d) \/ Break(d)
  <2>1. ServerStep(c) \/ Break(c)
    BY <1>0, <1>3
  <2> QED  BY <1>0, <2>1, ServerInv
<1> QED  BY <1>1, <1>2, <1>3 DEF Next

(* ControlServer: over one connection a command is saved once, and never   *)
(* after a later one, whatever the client repeats, the network loses and   *)
(* the reads run together, also when the numbers wrap.                     *)
THEOREM SavedInOrder ==
  ASSUME NEW net, OneConnection(net)
  PROVE  Spec => []AppliedOnceInOrder
<1> DEFINE c == <<net, 1>>
<1>1. Init => LinkInv(c)
  BY LinkInvInit, OneConnectionLemma
<1>2. TypeOK /\ LinkInv(c) /\ [Next]_vars => LinkInv(c)'
  BY LinkInvStep
<1>3. LinkInv(c) => AppliedOnceInOrder
  BY DEF LinkInv
<1> QED  BY <1>1, <1>2, <1>3, LinkTypeCorrect, PTL DEF Spec

(* ControlServer: over one connection, and before the numbers wrap, what   *)
(* the server confirms as new or as already received it has saved.         *)
THEOREM ConfirmationsAreTrue ==
  ASSUME NEW net, OneConnection(net), NoWrap
  PROVE  Spec => []ConfirmedWasSaved
<1> DEFINE c == <<net, 1>>
<1>1. Init => LinkInv(c)
  BY LinkInvInit, OneConnectionLemma
<1>2. TypeOK /\ LinkInv(c) /\ [Next]_vars => LinkInv(c)'
  BY LinkInvStep
<1>3. LinkInv(c) => ConfirmedWasSaved
  BY DEF LinkInv
<1> QED  BY <1>1, <1>2, <1>3, LinkTypeCorrect, PTL DEF Spec

-----------------------------------------------------------------------------
(* CommandPath: the list of devices, and where GetControlData is in it.    *)
LessThan == {p \in Nat \X Nat : p[1] < p[2]}

LEMMA SmallestLemma ==
  ASSUME NEW S \in SUBSET Nat, S # {}
  PROVE  Min(S) \in S /\ \A y \in S : Min(S) <= y
<1>1. LessThan = OpToRel(<, Nat)
  BY Zenon DEF OpToRel, LessThan
<1>2. IsWellFoundedOn(LessThan, Nat)
  BY <1>1, NatLessThanWellFounded, Zenon
<1>3. PICK x \in S : \A y \in S : ~(<<y, x>> \in LessThan)
  BY <1>2, WFMin
<1>4. ASSUME NEW y \in S PROVE x <= y
  <2>1. x \in Nat /\ y \in Nat /\ <<y, x>> \in Nat \X Nat /\ ~(<<y, x>> \in LessThan)
    BY <1>3
  <2>2. y < x => <<y, x>> \in LessThan
    BY <2>1 DEF LessThan
  <2> QED  BY <2>1, <2>2
<1> QED  BY <1>4 DEF Min

LEMMA GreatestLemma ==
  ASSUME NEW n \in Nat, NEW S \in SUBSET (0 .. n), S # {}
  PROVE  Max(S) \in S /\ \A y \in S : y <= Max(S)
<1> DEFINE T == {n - y : y \in S}
<1>1. T \in SUBSET Nat /\ T # {}
  <2>1. \A y \in S : y \in Int /\ 0 <= n - y /\ n - y \in T
    OBVIOUS
  <2>2. \A t \in T : t \in Nat
    BY <2>1
  <2> QED  BY <2>1, <2>2
<1>2. PICK m \in T : \A y \in T : m <= y
  BY <1>1, SmallestLemma
<1>3. n - m \in S /\ \A y \in S : y <= n - m
  BY <1>2
<1> QED  BY <1>3 DEF Max

LEMMA RegLengthType == \A d \in DOMAIN SlaveDev : RegLength[d] \in Nat
<1> SUFFICES ASSUME NEW d \in DOMAIN SlaveDev PROVE RegLength[d] \in Nat  OBVIOUS
<1>1. \A type \in DOMAIN CtrlLength : CtrlLength[type] \in Nat
  BY DEF CtrlLength
<1>2. d \in Nat /\ Listed(d) \in SUBSET (0 .. d)
  BY CommandPathAssumption DEF Listed
<1>3. Listed(d) # {} => SlaveDev[Max(Listed(d))].devType \in DOMAIN CtrlLength
  <2>1. Listed(d) # {} => Max(Listed(d)) \in Listed(d)
    BY <1>2, GreatestLemma
  <2> QED  BY <2>1 DEF Listed
<1> QED  BY <1>1, <1>3 DEF RegLength

LEMMA NextDeviceLemma ==
  ASSUME NEW d \in Nat, d < EndOfList
  PROVE  NextDevice(d) \in Stops /\ NextDevice(d) > d
<1>1. EndOfList \in Nat /\ Stops \in SUBSET Nat /\ EndOfList \in Stops
  BY CommandPathAssumption DEF EndOfList, Stops
<1>2. {e \in Stops : e > d} \in SUBSET Nat /\ {e \in Stops : e > d} # {}
  BY <1>1
<1> QED  BY <1>2, SmallestLemma DEF NextDevice

AtType == /\ at \in [dev : Stops \cup {0}, reg : Nat]
          /\ Gathering => at.dev # 0 /\ at.reg \in IF AtEnd THEN {1} ELSE 1 .. RegLength[at.dev]

LEMMA RegisterType ==
  ASSUME AtType, Gathering, ~AtEnd
  PROVE  /\ at.dev \in DOMAIN SlaveDev /\ at.reg \in 1 .. RegLength[at.dev]
         /\ Register \in Reg
<1>1. at.dev \in DOMAIN SlaveDev /\ at.reg \in 1 .. RegLength[at.dev]
  BY DEF AtType, Stops, AtEnd
<1>2. Register \in Registers(at.dev)
  BY <1>1, RegLengthType, CommandPathAssumption DEF Register, Registers
<1> QED  BY <1>1, <1>2 DEF Reg

LEMMA FollowingType ==
  ASSUME AtType, Gathering, ~AtEnd, NEW size, at' = Following(size)
  PROVE  AtType'
<1>1. /\ at.dev \in DOMAIN SlaveDev /\ at.reg \in 1 .. RegLength[at.dev]
      /\ RegLength[at.dev] \in Nat
  BY RegisterType, RegLengthType
<1>2. CASE at.reg < RegLength[at.dev]
  <2>1. at' = [at EXCEPT !.reg = @ + 1]
    BY <1>2 DEF Following
  <2>2. at'.dev = at.dev /\ at'.reg = at.reg + 1 /\ at' \in [dev : Stops \cup {0}, reg : Nat]
    BY <2>1 DEF AtType
  <2>3. at.dev # 0 /\ at.dev # EndOfList
    BY DEF AtType, AtEnd
  <2> QED  BY <1>1, <1>2, <2>2, <2>3 DEF AtType, AtEnd
<1>3. CASE ~(at.reg < RegLength[at.dev])
  <2>1. at.dev \in Nat /\ at.dev < EndOfList /\ EndOfList \in Stops /\ EndOfList \in Nat \ {0}
    BY <1>1, CommandPathAssumption DEF EndOfList, Stops
  <2>2. PICK d \in Stops : d # 0 /\ at' = [dev |-> d, reg |-> 1]
    BY <1>3, <2>1, NextDeviceLemma DEF Following
  <2>3. d # EndOfList => RegLength[d] \in Nat /\ RegLength[d] > 0
    BY RegLengthType DEF Stops
  <2> QED  BY <2>2, <2>3 DEF AtType, AtEnd
<1> QED  BY <1>2, <1>3

-----------------------------------------------------------------------------
(* CommandPath: its steps are steps of the control link, and what they do  *)
(* to the frames of a connection, read, under way or confirmed.            *)
FramesOf(srv, ch) == ToSet(srv.frames) \cup ToSet(ch.frames) \cup {r.frame : r \in ToSet(ch.replies)}
Known(c) == FramesOf(server[c], chan[c])

LEMMA PathStepLemma == [PathNext]_pathVars => [Next]_vars
<1>1. CASE UNCHANGED pathVars
  BY <1>1 DEF pathVars, linkVars, vars
<1>2. CASE Environment
  BY <1>2 DEF Environment, Command, Measure, linkVars, vars, Next
<1>3. CASE \E c \in Conn : ServerMoves(c)
  BY <1>3 DEF ServerMoves, SaveValue, AllSaved, linkVars, vars, Next, ServerStep
<1>4. CASE ClientMoves
  <2>1. CASE BeginGather \/ VisitWaiting \/ VisitIdle \/ NothingToSend
    BY <2>1 DEF BeginGather, VisitWaiting, VisitIdle, NothingToSend, linkVars, vars
  <2>2. CASE StartRound \/ StartTimeRound \/ Attempt \/ FinishAttempt \/ StartOrExit
             \/ \E n \in Net : Receive(n)
    <3>1. ClientStep
      BY <2>2 DEF StartRound, StartTimeRound, Attempt, FinishAttempt, StartOrExit, Receive,
                  ClientStep
    <3> QED  BY <3>1 DEF Next
  <2> QED  BY <1>4, <2>1, <2>2 DEF ClientMoves
<1> QED  BY <1>1, <1>2, <1>3, <1>4 DEF PathNext

LEMMA PathInitLemma == PathInit => Init
BY DEF PathInit

(* The way of a command runs over the control link: what holds of the link *)
(* holds of it here, too.                                                  *)
THEOREM PathImplementsLink == PathSpec => Spec
BY PathInitLemma, PathStepLemma, PTL DEF PathSpec, Spec

LEMMA KnownConnect ==
  ASSUME NEW nets \in SUBSET Net, Connect(nets), NEW c \in Conn
  PROVE  Known(c)' \subseteq Known(c)
<1>1. FramesOf(NewServer, NewChan) = {}
  BY DEF FramesOf, NewServer, NewChan, ToSet
<1>2. \/ chan'[c] = NewChan /\ server'[c] = NewServer
      \/ chan'[c] = chan[c] /\ server'[c] = server[c]
  BY DEF Connect
<1> QED  BY <1>1, <1>2 DEF Known

LEMMA KnownReply ==
  ASSUME TypeOK, NEW c \in Conn, NEW d \in Conn, NEW p, Reply(d, p), server[d].frames # <<>>
  PROVE  Known(c)' \subseteq Known(c)
<1> DEFINE r == [frame |-> Got(d), positive |-> p]
<1>0. /\ chan[d] \in Channel /\ server[d] \in Service /\ server[d].frames \in Seq(Frame)
      /\ chan[d].replies \in Seq(Confirmation)
  BY LineType DEF TypeOK, LinkType, ServiceType
<1>1. CASE c # d
  BY <1>1 DEF Reply, Known, TypeOK, LinkType, ServiceType
<1>2. CASE c = d
  <2>1. server'[d].frames = <<>>
    BY <1>0 DEF Reply, TypeOK, ServiceType, Service
  <2>2. /\ chan'[d].frames = chan[d].frames
        /\ chan'[d].replies \in {chan[d].replies, Append(chan[d].replies, r)}
    BY <1>0 DEF Reply, TypeOK, LinkType, Channel
  <2>3. ToSet(Append(chan[d].replies, r)) \subseteq ToSet(chan[d].replies) \cup {r}
    <3> HIDE DEF r
    <3> QED  BY <1>0 DEF ToSet
  <2>4. Got(d) \in ToSet(server[d].frames) /\ r.frame = Got(d)
    BY <1>0 DEF Got, ToSet
  <2>5. ToSet(chan'[d].replies) \subseteq ToSet(chan[d].replies) \cup {r}
    BY <2>2, <2>3
  <2> HIDE DEF r
  <2>6. {q.frame : q \in ToSet(chan'[d].replies)}
           \subseteq {q.frame : q \in ToSet(chan[d].replies)} \cup {Got(d)}
    BY <2>4, <2>5
  <2>7. ToSet(<<>>) = {}
    BY DEF ToSet
  <2> QED  BY <1>2, <2>1, <2>2, <2>4, <2>6, <2>7 DEF Known, FramesOf
<1> QED  BY <1>1, <1>2

(* Only a frame that the client sends is new, and it is its current frame. *)
LEMMA KnownClientStep ==
  ASSUME TypeOK, ClientStep, NEW c \in Conn
  PROVE  \/ Known(c)' \subseteq Known(c)
         \/ SendFrames /\ Known(c)' \subseteq Known(c) \cup {CurrentFrame}
<1>0. chan[c] \in Channel /\ chan[c].frames \in Seq(Frame)
  BY LineType DEF TypeOK, LinkType
<1>1. CASE StartClient \/ SendTimeSync
  BY <1>1, KnownConnect DEF StartClient, SendTimeSync
<1>2. CASE SendCtrlData \/ Exit
  BY <1>2 DEF SendCtrlData, Exit, Known
<1>3. \A ch \in {Closed(chan[c]), AllRead(chan[c]), chan[c]} :
        FramesOf(server[c], ch) \subseteq Known(c)
  BY <1>0, ChannelParts DEF FramesOf, Known
<1>4. CASE EndRound
  <2>1. chan'[c] \in {Closed(chan[c]), chan[c]} /\ UNCHANGED server
    BY <1>4 DEF EndRound
  <2> QED  BY <1>3, <2>1 DEF Known
<1>5. ASSUME NEW n \in Net, RecvInfo(n) PROVE Known(c)' \subseteq Known(c)
  <2>1. chan'[c] \in {Closed(chan[c]), AllRead(chan[c]), chan[c]} /\ UNCHANGED server
    BY <1>5 DEF RecvInfo, TypeOK, LinkType
  <2> QED  BY <1>3, <2>1 DEF Known
<1>6. CASE SendFrames
  <2>1. chan'[c] \in {chan[c], Closed(chan[c]), Sent(chan[c], CurrentFrame)} /\ UNCHANGED server
    BY <1>6 DEF SendFrames, CurrentFrame, Sent
  <2>2. /\ Sent(chan[c], CurrentFrame).frames = Append(chan[c].frames, CurrentFrame)
        /\ Sent(chan[c], CurrentFrame).replies = chan[c].replies
    BY <1>0, ChannelParts
  <2>3. ToSet(Append(chan[c].frames, CurrentFrame)) \subseteq ToSet(chan[c].frames) \cup {CurrentFrame}
    BY <1>0 DEF ToSet
  <2>4. FramesOf(server[c], Sent(chan[c], CurrentFrame)) \subseteq Known(c) \cup {CurrentFrame}
    BY <2>2, <2>3 DEF FramesOf, Known
  <2> QED  BY <1>3, <1>6, <2>1, <2>4 DEF Known
<1> QED  BY <1>1, <1>2, <1>4, <1>5, <1>6 DEF ClientStep

LEMMA KnownServerStep ==
  ASSUME TypeOK, NEW c \in Conn, NEW d \in Conn, ServerStep(d) \/ Break(d)
  PROVE  Known(c)' \subseteq Known(c)
<1> DEFINE s == chan[d].frames
<1>0. /\ chan[d] \in Channel /\ server[d] \in Service /\ s \in Seq(Frame) /\ Len(s) \in Nat
  BY LineType, LenProperties DEF TypeOK, LinkType, ServiceType
<1>1. CASE Compare(d) \/ Confirm(d)
  <2>1. server[d].frames # <<>>
    BY <1>1 DEF Compare, Confirm, TypeOK, ServiceType
  <2>2. CASE \E p : Reply(d, p)
    BY <2>1, <2>2, KnownReply
  <2>3. CASE server' = [server EXCEPT ![d].pc = "save"] /\ UNCHANGED chan
    <3>1. server'[c].frames = server[c].frames
      BY <1>0, <2>3 DEF TypeOK, ServiceType, Service
    <3> QED  BY <2>3, <3>1 DEF Known, FramesOf
  <2> QED  BY <1>1, <2>2, <2>3 DEF Compare, Confirm
<1>2. CASE Save(d) \/ EndService(d)
  <2>1. PICK pc : server' = [server EXCEPT ![d].pc = pc]
    BY <1>2 DEF Save, EndService
  <2>2. server'[c].frames = server[c].frames
    BY <1>0, <2>1 DEF TypeOK, ServiceType, Service
  <2> QED  BY <1>2, <2>2 DEF Save, EndService, Known, FramesOf
<1>3. \A k \in 0 .. Len(s) : /\ ToSet(SubSeq(s, 1, k)) \subseteq ToSet(s)
                             /\ ToSet(SubSeq(s, k + 1, Len(s))) \subseteq ToSet(s)
  <2> TAKE k \in 0 .. Len(s)
  <2>1. \A i \in DOMAIN SubSeq(s, 1, k) : i \in DOMAIN s /\ SubSeq(s, 1, k)[i] = s[i]
    BY <1>0
  <2>2. \A i \in DOMAIN SubSeq(s, k + 1, Len(s)) :
           i + k \in DOMAIN s /\ SubSeq(s, k + 1, Len(s))[i] = s[i + k]
    BY <1>0
  <2> QED  BY <2>1, <2>2 DEF ToSet
<1>4. CASE Recv(d)
  <2>1. CASE c # d
    BY <1>4, <2>1 DEF Recv, Known, TypeOK, LinkType, ServiceType
  <2>2. CASE c = d
    <3>1. PICK k \in 1 .. Len(s) :
            /\ server' = [server EXCEPT ![d] = [pc |-> "compare", joined |-> TRUE,
                                                frames |-> SubSeq(s, 1, k)]]
            /\ chan' = [chan EXCEPT ![d].frames = SubSeq(s, k + 1, Len(s))]
      BY <1>4 DEF Recv
    <3>2. /\ server'[d].frames = SubSeq(s, 1, k) /\ chan'[d].replies = chan[d].replies
          /\ chan'[d].frames = SubSeq(s, k + 1, Len(s))
      BY <3>1 DEF TypeOK, ServiceType, LinkType, Channel
    <3> QED  BY <1>0, <1>3, <2>2, <3>2 DEF Known, FramesOf
  <2> QED  BY <2>1, <2>2
<1>5. CASE Break(d)
  <2>1. CASE c # d
    BY <1>5, <2>1 DEF Break, Known, TypeOK, LinkType
  <2>2. CASE c = d
    <3>1. PICK k \in 0 .. Len(s) :
            chan' = [chan EXCEPT ![d] = [state |-> "broken", frames |-> SubSeq(s, 1, k),
                                         replies |-> <<>>]]
      BY <1>5 DEF Break
    <3>2. chan'[d].frames = SubSeq(s, 1, k) /\ chan'[d].replies = <<>> /\ UNCHANGED server
      BY <1>5, <3>1 DEF Break, TypeOK, LinkType
    <3>3. ToSet(<<>>) = {}
      BY DEF ToSet
    <3> QED  BY <1>0, <1>3, <2>2, <3>2, <3>3 DEF Known, FramesOf
  <2> QED  BY <2>1, <2>2
<1> QED  BY <1>1, <1>2, <1>4, <1>5 DEF ServerStep

-----------------------------------------------------------------------------
(* CommandPath: the types of its parts.                                    *)
BankType == /\ waiting \in [Reg -> 0 .. MaxCommand] /\ taken \in [Reg -> Seq(1 .. MaxCommand)]
            /\ last \in 0 .. MaxCommand
GatherType == AtType /\ array \in Seq(Value) /\ (~Gathering => array = <<>>)
ContentType == content \in Seq(Seq(Value)) /\ Len(content) = client.seq
ResultType == proof \subseteq 1 .. MaxSeq /\ ended \in Seq({"confirmed", "other", "failed"})
StoreType ==
    /\ stored \in [Conn -> Nat]
    /\ \A c \in Conn :
          stored[c] <= IF server[c].pc = "save" THEN Announced(content[Got(c).seq]) ELSE 0
    /\ saved \in [Reg -> Seq(1 .. MaxCommand)] /\ garbled \subseteq Nat

(* Every frame is of a round that has begun.                               *)
RoundsBegun == \A c \in Conn : \A f \in Known(c) : f.seq \in DOMAIN content

PathType == BankType /\ GatherType /\ ContentType /\ ResultType /\ RoundsBegun /\ StoreType

(* What each part depends on.                                              *)
LEMMA BankSteps ==
  [PathNext]_pathVars => \/ UNCHANGED bankVars \/ VisitWaiting
                         \/ \E a \in Commanded : Command(a) \/ Measure(a)
BY DEF PathNext, pathVars, ClientMoves, Environment, ServerMoves, BeginGather, VisitIdle,
       NothingToSend, StartRound, StartTimeRound, Attempt, FinishAttempt, StartOrExit, Receive,
       SaveValue, AllSaved

LEMMA GatherSteps ==
  [PathNext]_pathVars => \/ UNCHANGED <<at, array>>
                         \/ BeginGather \/ VisitWaiting \/ VisitIdle \/ NothingToSend \/ StartRound
BY DEF PathNext, pathVars, ClientMoves, Environment, ServerMoves, clientVars, Command, Measure,
       StartTimeRound, Attempt, FinishAttempt, StartOrExit, Receive, SaveValue, AllSaved

LEMMA ContentSteps ==
  ASSUME TypeOK, [PathNext]_pathVars
  PROVE  \/ content' = content /\ client'.seq = client.seq
         \/ StartRound \/ StartTimeRound
<1>1. CASE UNCHANGED <<content, client>>
  BY <1>1
<1>2. CASE Attempt \/ FinishAttempt \/ StartOrExit \/ \E n \in Net : Receive(n)
  <2>1. client'.seq = client.seq
    BY <1>2 DEF Attempt, FinishAttempt, StartOrExit, Receive, SendFrames, EndRound, StartClient,
                Exit, RecvInfo, TypeOK, ClientType, Client
  <2>2. content' = content
    BY <1>2 DEF Attempt, FinishAttempt, StartOrExit, Receive, clientVars
  <2> QED  BY <2>1, <2>2
<1> QED  BY <1>1, <1>2 DEF PathNext, pathVars, linkVars, clientVars, ClientMoves, Environment,
       ServerMoves, BeginGather, VisitWaiting, VisitIdle, NothingToSend, Command, Measure, Break,
       SaveValue, AllSaved, Save, Recv, Compare, Confirm, EndService

LEMMA ResultSteps ==
  [PathNext]_pathVars => \/ UNCHANGED <<proof, ended>>
                         \/ proof' = {} /\ UNCHANGED ended
                         \/ FinishAttempt \/ \E n \in Net : Receive(n)
BY DEF PathNext, pathVars, ClientMoves, Environment, ServerMoves, clientVars, Command, Measure,
       BeginGather, VisitWaiting, VisitIdle, NothingToSend, StartRound, StartTimeRound, Attempt,
       StartOrExit, SaveValue, AllSaved

LEMMA StoreSteps ==
  [PathNext]_pathVars => \/ UNCHANGED <<stored, saved, garbled>>
                         \/ \E c \in Conn : SaveValue(c) \/ AllSaved(c)
BY DEF PathNext, pathVars, ClientMoves, Environment, ServerMoves, serverVars, Command, Measure,
       BeginGather, VisitWaiting, VisitIdle, NothingToSend, StartRound, StartTimeRound, Attempt,
       FinishAttempt, StartOrExit, Receive

LEMMA BankTypeStep ==
  ASSUME BankType, GatherType, [PathNext]_pathVars
  PROVE  BankType'
<1>1. CASE UNCHANGED bankVars
  BY <1>1 DEF bankVars, BankType
<1>2. CASE VisitWaiting
  <2>1. Bank!Take(Register) /\ Register \in Reg
    BY <1>2, RegisterType DEF VisitWaiting, GatherType
  <2>2. waiting[Register] \in 1 .. MaxCommand
    BY <2>1 DEF Bank!Take, Bank!NoCommand, BankType
  <2>3. Append(taken[Register], waiting[Register]) \in Seq(1 .. MaxCommand)
    BY <2>1, <2>2, AppendType DEF BankType
  <2>4. taken' = [taken EXCEPT ![Register] = Append(taken[Register], waiting[Register])]
        /\ waiting' = [waiting EXCEPT ![Register] = 0] /\ last' = last
    BY <2>1 DEF Bank!Take, Bank!NoCommand
  <2>5. 0 \in 0 .. MaxCommand
    BY CommandPathAssumption
  <2> QED  BY <2>1, <2>3, <2>4, <2>5 DEF BankType
<1>3. ASSUME NEW a \in Commanded, Command(a) PROVE BankType'
  <2>1. last' = last + 1 /\ last < MaxCommand /\ waiting' = [waiting EXCEPT ![a] = last']
        /\ taken' = taken
    BY <1>3 DEF Command, Bank!Put
  <2>2. last' \in 0 .. MaxCommand
    BY <2>1, CommandPathAssumption DEF BankType
  <2> QED  BY <2>1, <2>2 DEF BankType
<1>4. ASSUME NEW a \in Commanded, Measure(a) PROVE BankType'
  <2>1. last' = last /\ taken' = taken
        /\ (waiting' = waiting \/ waiting' = [waiting EXCEPT ![a] = 0])
    BY <1>4 DEF Measure, Bank!Outlive, Bank!Evict, Bank!NoCommand
  <2>2. 0 \in 0 .. MaxCommand
    BY CommandPathAssumption
  <2> QED  BY <2>1, <2>2 DEF BankType
<1> QED  BY <1>1, <1>2, <1>3, <1>4, BankSteps

LEMMA GatherTypeStep ==
  ASSUME BankType, GatherType, [PathNext]_pathVars
  PROVE  GatherType'
<1>0. /\ EndOfList \in Stops /\ Nowhere \in [dev : Stops \cup {0}, reg : Nat]
      /\ NextDevice(0) \in Stops /\ NextDevice(0) > 0
  BY NextDeviceLemma, CommandPathAssumption DEF EndOfList, Stops, Nowhere
<1>1. CASE UNCHANGED <<at, array>>
  BY <1>1 DEF GatherType, AtType, Gathering, AtEnd
<1>2. CASE BeginGather
  <2>1. at' = [dev |-> NextDevice(0), reg |-> 1] /\ array' = <<>>
    BY <1>2 DEF BeginGather, Start
  <2>2. NextDevice(0) # EndOfList => RegLength[NextDevice(0)] \in Nat /\ RegLength[NextDevice(0)] > 0
    BY <1>0, RegLengthType DEF Stops
  <2>3. AtType'
    BY <1>0, <2>1, <2>2 DEF AtType, AtEnd
  <2>4. Gathering'
    <3>1. at'.dev > 0
      BY <1>0, <2>1
    <3> QED  BY <3>1 DEF Gathering, Nowhere
  <2> QED  BY <2>1, <2>3, <2>4 DEF GatherType
<1>3. CASE VisitWaiting \/ VisitIdle
  <2>1. Gathering /\ ~AtEnd /\ AtType
    BY <1>3 DEF VisitWaiting, VisitIdle, GatherType
  <2>2. PICK size : at' = Following(size)
    BY <1>3 DEF VisitWaiting, VisitIdle
  <2>3. AtType'
    BY <2>1, <2>2, FollowingType
  <2>4. array' \in Seq(Value)
    <3>1. CASE VisitIdle
      BY <3>1 DEF VisitIdle, GatherType
    <3>2. CASE VisitWaiting
      <4>1. Register \in Reg /\ waiting[Register] \in 1 .. MaxCommand
        BY <2>1, <3>2, RegisterType DEF VisitWaiting, Bank!Take, Bank!NoCommand, BankType
      <4>2. <<Register, waiting[Register]>> \in Value
        BY <4>1 DEF Value
      <4>3. Append(array, <<Register, waiting[Register]>>) \in Seq(Value)
        BY <4>2, AppendType DEF GatherType
      <4> QED  BY <3>2, <4>3 DEF VisitWaiting
    <3> QED  BY <1>3, <3>1, <3>2
  <2>5. Gathering'
    <3>1. at'.reg # 0
      <4>1. at'.reg = at.reg + 1 \/ at'.reg = 1
        BY <2>1, <2>2 DEF Following, AtType
      <4>2. at.reg \in Nat
        BY <2>1 DEF AtType
      <4> QED  BY <4>1, <4>2
    <3> QED  BY <3>1 DEF Gathering, Nowhere
  <2> QED  BY <2>3, <2>4, <2>5 DEF GatherType
<1>4. CASE NothingToSend \/ StartRound
  <2>1. at' = Nowhere /\ array' = <<>>
    BY <1>4 DEF NothingToSend, StartRound
  <2>2. <<>> \in Seq(Value)
    OBVIOUS
  <2> QED  BY <1>0, <2>1, <2>2 DEF GatherType, AtType, Gathering
<1> QED  BY <1>1, <1>2, <1>3, <1>4, GatherSteps

(* A round that begins brings the frame of what was gathered, if anything. *)
LEMMA BeginRound ==
  ASSUME TypeOK, GatherType, StartRound \/ StartTimeRound
  PROVE  /\ content' = Append(content, array) /\ array' = <<>> /\ proof' = {}
         /\ client'.seq = client.seq + 1 /\ client.seq \in Nat
         /\ client.pc = "idle" /\ client'.pc = "send"
         /\ client'.kind = "time" => array = <<>>
<1>1. CASE StartRound
  BY <1>1 DEF StartRound, SendCtrlData, NewRound, TypeOK, ClientType, Client
<1>2. CASE StartTimeRound
  <2>1. array = <<>> /\ array' = array
    BY <1>2 DEF StartTimeRound, GatherType
  <2> QED  BY <1>2, <2>1 DEF StartTimeRound, SendTimeSync, NewRound, TypeOK, ClientType, Client
<1> QED  BY <1>1, <1>2

LEMMA ContentTypeStep ==
  ASSUME TypeOK, GatherType, ContentType, [PathNext]_pathVars
  PROVE  /\ ContentType'
         /\ DOMAIN content \subseteq DOMAIN content'
         /\ \A s \in DOMAIN content : content'[s] = content[s]
<1>1. CASE content' = content /\ client'.seq = client.seq
  BY <1>1 DEF ContentType
<1>2. CASE StartRound \/ StartTimeRound
  <2>1. content' = Append(content, array) /\ client'.seq = client.seq + 1
        /\ array \in Seq(Value) /\ content \in Seq(Seq(Value))
    BY <1>2, BeginRound DEF GatherType, ContentType
  <2>2. content' \in Seq(Seq(Value))
    BY <2>1, AppendType
  <2>3. Len(content') = Len(content) + 1 /\ \A s \in DOMAIN content : content'[s] = content[s]
        /\ DOMAIN content \subseteq DOMAIN content'
    BY <2>1
  <2> QED  BY <2>1, <2>2, <2>3 DEF ContentType
<1> QED  BY <1>1, <1>2, ContentSteps

LEMMA KnownStep ==
  ASSUME TypeOK, [Next]_vars, NEW c \in Conn
  PROVE  \/ Known(c)' \subseteq Known(c)
         \/ SendFrames /\ Known(c)' \subseteq Known(c) \cup {CurrentFrame}
<1>1. CASE UNCHANGED vars
  BY <1>1 DEF vars, Known
<1> QED  BY <1>1, KnownClientStep, KnownServerStep DEF Next

LEMMA RoundsBegunStep ==
  ASSUME TypeOK, GatherType, ContentType, RoundsBegun, [PathNext]_pathVars
  PROVE  RoundsBegun'
<1>1. DOMAIN content \subseteq DOMAIN content'
  BY ContentTypeStep
<1>2. SendFrames => CurrentFrame.seq \in DOMAIN content
  <2>1. SendFrames => client.seq > 0 /\ client.seq \in Nat
    BY DEF SendFrames, TypeOK, ClientType, Client
  <2>2. DOMAIN content = 1 .. client.seq
    BY DEF ContentType
  <2> QED  BY <2>1, <2>2 DEF CurrentFrame
<1>3. \A c \in Conn : \A f \in Known(c)' : f.seq \in DOMAIN content
  BY <1>2, KnownStep, PathStepLemma DEF RoundsBegun
<1> QED  BY <1>1, <1>3 DEF RoundsBegun

(* A result of a network is positive when the first confirmation of what   *)
(* it reads is.                                                            *)
LEMMA ReceiveLemma ==
  ASSUME TypeOK, NEW n \in Net, Receive(n)
  PROVE  \/ proof' = proof /\ ~client'.result[n]
         \/ \E c \in Conn : \E r \in ToSet(chan[c].replies) :
               /\ r \in Confirmation /\ r.positive /\ r.frame \in Known(c)
               /\ proof' = proof \cup {r.frame.seq}
<1> DEFINE c == Current(n)
           good == chan[c].state = "up" /\ Confirmed(chan[c].replies)
<1>1. c \in Conn
  BY CurrentType DEF Receive, RecvInfo, TypeOK, ClientType
<1>2. chan[c].replies \in Seq(Confirmation)
  BY <1>1, LineType
<1>3. client'.result[n] = good
  <2>1. client' = [client EXCEPT !.toRead = @ \ {n}, !.result[n] = good]
    BY DEF Receive, RecvInfo
  <2>2. n \in {"A", "B"} /\ client \in Client
    BY ControlLinkAssumption DEF TypeOK, ClientType
  <2> HIDE DEF good
  <2> QED  BY <2>1, <2>2 DEF Client
<1>4. CASE good
  <2>1. chan[c].replies # <<>> /\ Head(chan[c].replies).positive
    BY <1>4 DEF Confirmed
  <2>2. Head(chan[c].replies) \in ToSet(chan[c].replies) /\ Head(chan[c].replies) \in Confirmation
    BY <1>2, <2>1 DEF ToSet
  <2>3. Head(chan[c].replies).frame \in Known(c)
    BY <2>2 DEF Known, FramesOf
  <2>4. proof' = proof \cup {Head(chan[c].replies).frame.seq}
    BY <1>3, <1>4 DEF Receive
  <2> QED  BY <1>1, <2>1, <2>2, <2>3, <2>4
<1>5. CASE ~good
  BY <1>3, <1>5 DEF Receive
<1> QED  BY <1>4, <1>5

LEMMA ResultTypeStep ==
  ASSUME TypeOK, ResultType, [PathNext]_pathVars
  PROVE  ResultType'
<1>1. CASE UNCHANGED <<proof, ended>> \/ (proof' = {} /\ UNCHANGED ended)
  BY <1>1 DEF ResultType
<1>2. CASE FinishAttempt
  <2>1. proof' = proof /\ (ended' = ended \/ ended' = Append(ended, Outcome))
    BY <1>2 DEF FinishAttempt
  <2>2. Outcome \in {"confirmed", "other", "failed"}
    BY DEF Outcome
  <2> QED  BY <2>1, <2>2, AppendType DEF ResultType
<1>3. ASSUME NEW n \in Net, Receive(n) PROVE ResultType'
  <2>1. ended' = ended
    BY <1>3 DEF Receive
  <2>2. \A r \in Confirmation : r.frame.seq \in 1 .. MaxSeq
    BY DEF Confirmation, Frame
  <2>3. proof' = proof \/ \E r \in Confirmation : proof' = proof \cup {r.frame.seq}
    BY <1>3, ReceiveLemma
  <2> QED  BY <2>1, <2>2, <2>3 DEF ResultType
<1> QED  BY <1>1, <1>2, <1>3, ResultSteps

(* No service runs before its connection is opened: a connection that is   *)
(* opened does not disturb one that saves.                                 *)
Unopened == \A c \in Conn : c[2] > opens[c[1]] => server[c].pc = "gone"

LEMMA UnopenedStep ==
  ASSUME TypeOK, Unopened, [Next]_vars
  PROVE  Unopened'
<1>0. /\ opens \in [Net -> 0 .. MaxOpen] /\ server \in [Conn -> Service]
      /\ \A c \in Conn : c[1] \in Net /\ c[2] \in 1 .. MaxOpen
  BY DEF TypeOK, LinkType, ServiceType, Conn
<1>1. CASE UNCHANGED <<opens, server>>
  BY <1>1 DEF Unopened
<1>2. ASSUME NEW nets \in SUBSET Net, Connect(nets) PROVE Unopened'
  <2> SUFFICES ASSUME NEW c \in Conn, c[2] > opens'[c[1]] PROVE server'[c].pc = "gone"
    BY DEF Unopened
  <2>1. opens'[c[1]] \in {opens[c[1]], opens[c[1]] + 1} /\ opens[c[1]] \in Nat
    BY <1>0, <1>2 DEF Connect
  <2>2. c[2] > opens[c[1]] /\ c[2] # opens'[c[1]]
    BY <1>0, <2>1
  <2> QED  BY <1>2, <2>2 DEF Connect, Unopened
<1>3. ASSUME NEW d \in Conn, ServerStep(d) PROVE Unopened'
  <2>1. opens' = opens /\ \A c \in Conn : c # d => server'[c] = server[c]
    BY <1>3, <1>0 DEF ServerStep, Recv, Compare, Save, Confirm, EndService, Reply
  <2>2. server[d].pc # "gone"
    BY <1>3 DEF ServerStep, Recv, Compare, Save, Confirm, EndService
  <2> QED  BY <2>1, <2>2 DEF Unopened
<1> QED  BY <1>1, <1>2, <1>3 DEF Next, vars, ClientStep, StartClient, SendCtrlData, SendTimeSync,
                SendFrames, RecvInfo, EndRound, Exit, Break

LEMMA SavingGoesOn ==
  ASSUME TypeOK, Unopened, [PathNext]_pathVars, NEW c \in Conn, server[c].pc = "save"
  PROVE  server'[c] = server[c] \/ AllSaved(c)
<1>0. opens \in [Net -> 0 .. MaxOpen] /\ server \in [Conn -> Service] /\ c[1] \in Net
  BY DEF TypeOK, LinkType, ServiceType, Conn
<1>1. CASE server' = server
  BY <1>1
<1>2. ASSUME NEW nets \in SUBSET Net, Connect(nets) PROVE server'[c] = server[c]
  <2>1. c[1] \in nets => opens'[c[1]] = opens[c[1]] + 1 /\ ~(c[2] > opens[c[1]])
    BY <1>0, <1>2 DEF Connect, Unopened
  <2>2. opens[c[1]] \in Nat /\ c[2] \in Nat
    BY <1>0 DEF Conn
  <2> QED  BY <1>2, <2>1, <2>2 DEF Connect
<1>3. ASSUME NEW d \in Conn, ServerMoves(d) PROVE server'[c] = server[c] \/ AllSaved(c)
  <2>1. CASE c = d
    BY <2>1, <1>3 DEF ServerMoves, SaveValue, linkVars, Recv, Compare, Confirm, EndService
  <2>2. CASE c # d
    BY <2>2, <1>0, <1>3 DEF ServerMoves, SaveValue, AllSaved, linkVars, Recv, Compare, Save,
                            Confirm, EndService, Reply
  <2> QED  BY <2>1, <2>2
<1> QED  BY <1>1, <1>2, <1>3 DEF PathNext, pathVars, linkVars, ClientMoves, Environment, BeginGather,
                VisitWaiting, VisitIdle, NothingToSend, StartRound, StartTimeRound, Attempt,
                FinishAttempt, StartOrExit, Receive, Command, Measure, Break, StartClient,
                SendCtrlData, SendTimeSync, SendFrames, RecvInfo, EndRound, Exit

(* A frame announces no more values than it has, and all of them if they   *)
(* are not too many for its bits.                                          *)
LEMMA AnnouncedLemma ==
  ASSUME NEW values, Len(values) \in Nat
  PROVE  /\ Announced(values) \in Nat /\ Announced(values) <= Len(values)
         /\ Len(values) < LengthModulus => Alone(values) /\ Announced(values) = Len(values)
<1>1. LengthModulus \in Nat /\ LengthModulus > 0
  BY CommandPathAssumption
<1>2. PICK n \in Nat : n = Len(values)
  OBVIOUS
<1>3. n % LengthModulus \in Nat /\ n % LengthModulus < LengthModulus
  BY <1>1
<1>4. n < LengthModulus => n % LengthModulus = n
  BY <1>1
<1>5. n < LengthModulus => n \div LengthModulus = 0
  BY <1>1
<1>6. 0 % 2 = 0
  OBVIOUS
<1>7. n % LengthModulus <= n
  BY <1>1, <1>3, <1>4
<1> QED  BY <1>2, <1>3, <1>4, <1>5, <1>6, <1>7 DEF Announced, Alone

LEMMA RegIsNat == Reg \subseteq Nat
BY CommandPathAssumption DEF Reg, Registers

(* The value that a service stores next is one of its frame's values.      *)
LEMMA NextValue ==
  ASSUME TypeOK, ContentType, RoundsBegun, StoreType, NEW c \in Conn, SaveValue(c)
  PROVE  LET s == Got(c).seq  value == content[s][stored[c] + 1] IN
         /\ s \in DOMAIN content /\ stored[c] + 1 \in DOMAIN content[s] /\ value \in Value
         /\ content[s][1] \in Value
         /\ stored[c] < Announced(content[s])
         /\ Alone(content[s]) => /\ garbled' = garbled
              /\ saved' = [saved EXCEPT ![value[1]] = Append(saved[value[1]], value[2])]
         /\ ~Alone(content[s]) => /\ saved' = saved
              /\ garbled' = garbled \cup {content[s][1][1] + stored[c]}
         /\ stored' = [stored EXCEPT ![c] = stored[c] + 1]
<1> DEFINE s == Got(c).seq
<1>1. server[c].frames # <<>> /\ server[c].frames \in Seq(Frame)
  BY LineType DEF SaveValue, TypeOK, ServiceType
<1>2. Got(c) \in Known(c)
  BY <1>1 DEF Got, Known, FramesOf, ToSet
<1>3. s \in DOMAIN content /\ content[s] \in Seq(Value)
  BY <1>2, ElementOfSeq DEF RoundsBegun, ContentType
<1>4. stored[c] < Len(content[s]) /\ stored[c] \in Nat /\ stored[c] < Announced(content[s])
  <2>1. stored[c] < Announced(content[s]) /\ stored[c] \in Nat
    BY DEF SaveValue, StoreType
  <2>2. Len(content[s]) \in Nat
    BY <1>3
  <2> QED  BY <2>1, <2>2, AnnouncedLemma
<1>5. /\ stored[c] + 1 \in DOMAIN content[s] /\ content[s][stored[c] + 1] \in Value
      /\ content[s][1] \in Value
  BY <1>3, <1>4, ElementOfSeq
<1> QED  BY <1>3, <1>4, <1>5 DEF SaveValue

LEMMA StoreTypeStep ==
  ASSUME TypeOK, TypeOK', GatherType, ContentType, RoundsBegun, RoundsBegun', StoreType, Unopened,
         [PathNext]_pathVars
  PROVE  StoreType'
<1> USE DEF StoreType
<1>0. /\ \A s \in DOMAIN content : s \in DOMAIN content' /\ content'[s] = content[s]
      /\ ContentType'
  BY ContentTypeStep
<1>1. \A c \in Conn : server[c].pc = "save" => Got(c).seq \in DOMAIN content
  <2> SUFFICES ASSUME NEW c \in Conn, server[c].pc = "save" PROVE Got(c) \in Known(c)
    BY DEF RoundsBegun
  <2>1. server[c].frames # <<>> /\ server[c].frames \in Seq(Frame)
    BY LineType DEF TypeOK, ServiceType
  <2> QED  BY <2>1 DEF Got, Known, FramesOf, ToSet
<1>2. \A c \in Conn : server'[c].pc = "save" => Announced(content'[Got(c)'.seq]) \in Nat
  <2> SUFFICES ASSUME NEW c \in Conn, server'[c].pc = "save"
               PROVE  Announced(content'[Got(c)'.seq]) \in Nat
    OBVIOUS
  <2>1. server'[c].frames # <<>> /\ server'[c].frames \in Seq(Frame)
    BY DEF TypeOK, ServiceType, Service
  <2>2. Got(c)' \in Known(c)'
    BY <2>1 DEF Got, Known, FramesOf, ToSet
  <2>3. Got(c)'.seq \in DOMAIN content'
    BY <2>2 DEF RoundsBegun
  <2>4. Len(content'[Got(c)'.seq]) \in Nat
    BY <1>0, <2>3, ElementOfSeq, LenProperties DEF ContentType
  <2> QED  BY <2>4, AnnouncedLemma
<1>3. CASE UNCHANGED <<stored, saved, garbled>>
  <2> SUFFICES ASSUME NEW c \in Conn
      PROVE  stored[c] <= IF server'[c].pc = "save" THEN Announced(content'[Got(c)'.seq]) ELSE 0
    BY <1>3
  <2>1. CASE server[c].pc = "save" /\ server'[c] = server[c]
    <3>1. Got(c)' = Got(c)
      BY <2>1 DEF Got
    <3> QED  BY <1>0, <1>1, <2>1, <3>1
  <2>2. CASE AllSaved(c)
    <3>1. stored'[c] = 0 /\ stored' = stored
      BY <1>3, <2>2 DEF AllSaved
    <3> QED  BY <1>2, <3>1
  <2>3. CASE server[c].pc # "save"
    BY <1>2, <2>3
  <2> QED  BY <2>1, <2>2, <2>3, SavingGoesOn
<1>4. ASSUME NEW c \in Conn, SaveValue(c) PROVE StoreType'
  <2> DEFINE values == content[Got(c).seq]
             value == values[stored[c] + 1]
  <2>1. /\ value \in Value /\ values[1] \in Value /\ stored[c] < Announced(values)
        /\ Alone(values) => /\ garbled' = garbled
             /\ saved' = [saved EXCEPT ![value[1]] = Append(saved[value[1]], value[2])]
        /\ ~Alone(values) => saved' = saved /\ garbled' = garbled \cup {values[1][1] + stored[c]}
        /\ stored' = [stored EXCEPT ![c] = stored[c] + 1]
    BY <1>4, NextValue
  <2>2. UNCHANGED <<server, content>> /\ server[c].pc = "save"
    BY <1>4 DEF SaveValue, linkVars, clientVars
  <2>3. value[1] \in Reg /\ value[2] \in 1 .. MaxCommand /\ values[1][1] \in Nat
    BY <2>1, RegIsNat DEF Value
  <2>4. Announced(values) \in Nat
    BY <1>2, <2>2 DEF Got
  <2>5. \A d \in Conn : Got(d)' = Got(d)
    BY <2>2 DEF Got
  <2> HIDE DEF value
  <2> HIDE DEF values
  <2>6. saved' \in [Reg -> Seq(1 .. MaxCommand)]
    <3>1. CASE Alone(values)
      <4>1. saved' = [saved EXCEPT ![value[1]] = Append(saved[value[1]], value[2])]
        BY <2>1, <3>1
      <4>2. saved[value[1]] \in Seq(1 .. MaxCommand)
        BY <2>3
      <4>3. Append(saved[value[1]], value[2]) \in Seq(1 .. MaxCommand)
        BY <2>3, <4>2, AppendType
      <4> QED  BY <4>1, <4>3
    <3>2. CASE ~Alone(values)
      BY <2>1, <3>2
    <3> QED  BY <3>1, <3>2
  <2>7. garbled' \subseteq Nat
    <3>1. stored[c] \in Nat
      OBVIOUS
    <3>2. values[1][1] + stored[c] \in Nat
      BY <2>3, <3>1
    <3> QED  BY <2>1, <3>2
  <2>8. stored' \in [Conn -> Nat] /\ stored'[c] <= Announced(values)
    BY <2>1, <2>4
  <2>9. Announced(content'[Got(c)'.seq]) = Announced(values)
    BY <2>2, <2>5 DEF values
  <2> QED  BY <2>1, <2>2, <2>5, <2>6, <2>7, <2>8, <2>9
<1>5. ASSUME NEW c \in Conn, AllSaved(c) PROVE StoreType'
  <2>1. /\ stored' = [stored EXCEPT ![c] = 0] /\ saved' = saved /\ content' = content
        /\ garbled' = garbled /\ Save(c)
    BY <1>5 DEF AllSaved, clientVars
  <2>2. \A d \in Conn : d # c => server'[d] = server[d] /\ Got(d)' = Got(d)
    BY <2>1 DEF Save, Got
  <2> QED  BY <1>2, <2>1, <2>2
<1> QED  BY <1>3, <1>4, <1>5, StoreSteps

LEMMA PathTypeInit == PathInit => PathType /\ Unopened
<1> SUFFICES ASSUME PathInit PROVE PathType /\ Unopened  OBVIOUS
<1>0. \A S : <<>> \in Seq(S)
  OBVIOUS
<1>1. BankType
  BY <1>0, CommandPathAssumption DEF PathInit, Bank!Init, Bank!NoCommand, BankType
<1>2. GatherType
  BY <1>0, CommandPathAssumption DEF PathInit, GatherType, AtType, Gathering, Nowhere
<1>3. ContentType
  BY <1>0 DEF PathInit, Init, ContentType
<1>4. ResultType
  BY <1>0 DEF PathInit, ResultType
<1>5. \A c \in Conn : Known(c) = {} /\ server[c].pc = "gone"
  BY DEF PathInit, Init, Known, FramesOf, NewChan, NewServer, ToSet
<1>6. StoreType
  BY <1>0, <1>5 DEF PathInit, StoreType
<1> QED  BY <1>1, <1>2, <1>3, <1>4, <1>5, <1>6 DEF PathType, RoundsBegun, Unopened

LEMMA PathTypeStep ==
  TypeOK /\ TypeOK' /\ PathType /\ Unopened /\ [PathNext]_pathVars => PathType' /\ Unopened'
BY BankTypeStep, GatherTypeStep, ContentTypeStep, ResultTypeStep, RoundsBegunStep, StoreTypeStep,
   UnopenedStep, PathStepLemma DEF PathType

LEMMA PathTypeImplies == TypeOK /\ PathType => PathTypeOK
<1> SUFFICES ASSUME TypeOK, PathType PROVE PathTypeOK  OBVIOUS
<1>1. \A s \in DOMAIN content : content[s] \in Seq(Value)
  BY ElementOfSeq DEF PathType, ContentType
<1> QED  BY <1>1 DEF PathTypeOK, PathType, GatherType, AtType, ContentType, ResultType, StoreType

LEMMA PathTypeLemma == PathSpec => []TypeOK /\ [](PathType /\ Unopened)
<1>1. PathSpec => []TypeOK
  BY PathImplementsLink, LinkTypeCorrect, PTL
<1> QED  BY <1>1, PathTypeInit, PathTypeStep, PTL DEF PathSpec

(* GetControlData, SendCtrlData and SaveCtrlData: the walk over the        *)
(* devices stays in the list and in the registers of each, the array and   *)
(* the frames hold commands of registers of the station, and a service     *)
(* stores no more values than its frame has, over any networks.            *)
THEOREM PathTypeCorrect == PathSpec => []PathTypeOK
BY PathTypeLemma, PathTypeImplies, PTL

-----------------------------------------------------------------------------
(* CommandPath: where a command is after it was taken.                     *)
LEMMA PlaceLemma ==
  ASSUME NEW p
  PROVE  p \in Place <=> /\ p = <<p[1], p[2]>> /\ p[1] \in DOMAIN Frames
                         /\ p[2] \in DOMAIN Frames[p[1]]
BY DEF Place

LEMMA FramesLemma ==
  ASSUME GatherType, ContentType
  PROVE  /\ array \in Seq(Value) /\ content \in Seq(Seq(Value)) /\ Frames \in Seq(Seq(Value))
         /\ Len(content) \in Nat /\ DOMAIN content = 1 .. Len(content)
         /\ Len(array) \in Nat /\ DOMAIN array = 1 .. Len(array)
         /\ DOMAIN Frames = 1 .. Len(content) + 1
         /\ Frames[Len(content) + 1] = array
         /\ \A s \in DOMAIN content : Frames[s] = content[s] /\ content[s] \in Seq(Value)
         /\ \A p \in Place : Carried(p) \in Value
<1>1. array \in Seq(Value) /\ content \in Seq(Seq(Value))
  BY DEF GatherType, ContentType
<1>2. Frames \in Seq(Seq(Value))
  BY <1>1, AppendType DEF Frames
<1>3. \A s \in DOMAIN content : content[s] \in Seq(Value)
  BY <1>1, ElementOfSeq
<1>4. \A p \in Place : Carried(p) \in Value
  <2> SUFFICES ASSUME NEW p \in Place PROVE Carried(p) \in Value  OBVIOUS
  <2>1. p[1] \in DOMAIN Frames /\ p[2] \in DOMAIN Frames[p[1]]
    BY PlaceLemma
  <2>2. Frames[p[1]] \in Seq(Value)
    BY <1>2, <2>1, ElementOfSeq
  <2> QED  BY <2>1, <2>2, ElementOfSeq DEF Carried
<1> QED  BY <1>1, <1>2, <1>3, <1>4 DEF Frames

(* A command that is taken gets a place after all others.                  *)
LEMMA TakeFrames ==
  ASSUME BankType, GatherType, ContentType, VisitWaiting
  PROVE  \E new : /\ Place' = Place \cup {new} /\ new \notin Place
                  /\ Carried(new)' = <<Register, waiting[Register]>>
                  /\ \A p \in Place : /\ Carried(p)' = Carried(p)
                                      /\ Precedes(p, new) /\ ~Precedes(new, p)
                  /\ ~Precedes(new, new)
<1>0. PICK n, m : n = Len(content) + 1 /\ m = Len(array) + 1
  OBVIOUS
<1> DEFINE v == <<Register, waiting[Register]>>
           new == <<n, m>>
<1>1. array' = Append(array, v) /\ content' = content
  BY DEF VisitWaiting
<1>2. /\ DOMAIN content = 1 .. Len(content) /\ Len(content) \in Nat /\ DOMAIN Frames = 1 .. n
      /\ Frames[n] = array /\ array \in Seq(Value) /\ Len(array) \in Nat
      /\ DOMAIN array = 1 .. Len(array) /\ content \in Seq(Seq(Value))
      /\ n = Len(content) + 1 /\ m = Len(array) + 1
  BY <1>0, FramesLemma
<1>3. DOMAIN array' = 1 .. m /\ array'[m] = v /\ \A i \in DOMAIN array : array'[i] = array[i]
  BY <1>1, <1>2
<1>4. DOMAIN Frames' = 1 .. n /\ Frames'[n] = array' /\ \A s \in DOMAIN content : Frames'[s] = Frames[s]
  BY <1>1, <1>2 DEF Frames
<1> HIDE DEF v
<1>5. \A p : p \in Place' <=> /\ p = <<p[1], p[2]>> /\ p[1] \in DOMAIN Frames'
                              /\ p[2] \in DOMAIN Frames'[p[1]]
  BY DEF Place
<1>6. \A p : p \in Place' <=> p \in Place \/ p = new
  <2> SUFFICES ASSUME NEW p PROVE p \in Place' <=> p \in Place \/ p = new  OBVIOUS
  <2>1. CASE p[1] \in DOMAIN content
    BY <1>2, <1>4, <1>5, <2>1, PlaceLemma
  <2>2. CASE p[1] = n
    <3>1. p \in Place' <=> p = <<p[1], p[2]>> /\ p[2] \in 1 .. m
      BY <1>2, <1>3, <1>4, <1>5, <2>2
    <3>2. p \in Place <=> p = <<p[1], p[2]>> /\ p[2] \in 1 .. Len(array)
      BY <1>2, <2>2, PlaceLemma
    <3> QED  BY <1>2, <2>2, <3>1, <3>2
  <2>3. CASE p[1] \notin 1 .. n
    BY <1>2, <1>4, <1>5, <2>3, PlaceLemma
  <2> QED  BY <1>2, <2>1, <2>2, <2>3
<1>7. Carried(new)' = v
  BY <1>3, <1>4 DEF Carried
<1>8. ASSUME NEW p \in Place PROVE p[1] \in 1 .. n /\ p[2] \in DOMAIN Frames[p[1]]
  BY <1>2, PlaceLemma
<1>9. ASSUME NEW p \in Place PROVE Carried(p)' = Carried(p)
  <2>1. CASE p[1] = n
    BY <1>2, <1>3, <1>4, <1>8, <2>1 DEF Carried
  <2>2. CASE p[1] # n
    <3>1. p[1] \in DOMAIN content
      BY <1>2, <1>8, <2>2
    <3> QED  BY <1>4, <3>1 DEF Carried
  <2> QED  BY <2>1, <2>2
<1>10. ASSUME NEW p \in Place PROVE Precedes(p, new) /\ ~Precedes(new, p)
  <2>1. CASE p[1] = n
    BY <1>2, <1>8, <2>1 DEF Precedes
  <2>2. CASE p[1] # n
    BY <1>2, <1>8, <2>2 DEF Precedes
  <2> QED  BY <2>1, <2>2
<1>11. ~Precedes(new, new)
  BY <1>2 DEF Precedes
<1>12. new \notin Place
  BY <1>10, <1>11
<1> QED  BY <1>6, <1>7, <1>9, <1>10, <1>11, <1>12 DEF v

(* The other steps leave every command where it is.                        *)
LEMMA SameFrames ==
  ASSUME TypeOK, GatherType, ContentType, [PathNext]_pathVars, ~VisitWaiting
  PROVE  Place' = Place /\ \A p \in Place : Carried(p)' = Carried(p)
<1>1. CASE UNCHANGED <<content, array>>
  BY <1>1 DEF Place, Carried, Frames
<1>2. CASE StartRound \/ StartTimeRound
  <2>0. content' = Append(content, array) /\ array' = <<>>
    BY <1>2, BeginRound
  <2>1. Frames' = Append(Frames, <<>>)
    BY <2>0 DEF Frames
  <2>2. Frames \in Seq(Seq(Value))
    BY FramesLemma
  <2>3. DOMAIN Frames = 1 .. Len(Frames) /\ DOMAIN Frames' = 1 .. Len(Frames) + 1
        /\ Len(Frames) \in Nat /\ Frames'[Len(Frames) + 1] = <<>>
        /\ \A s \in DOMAIN Frames : Frames'[s] = Frames[s]
    BY <2>1, <2>2
  <2>4. DOMAIN Frames'[Len(Frames) + 1] = {}
    BY <2>3
  <2>5. \A p : p \in Place' <=> /\ p = <<p[1], p[2]>> /\ p[1] \in DOMAIN Frames'
                                /\ p[2] \in DOMAIN Frames'[p[1]]
    BY DEF Place
  <2>6. \A p : p \in Place' <=> p \in Place
    BY <2>3, <2>4, <2>5, PlaceLemma
  <2>7. \A p \in Place : Carried(p)' = Carried(p)
    BY <2>3, PlaceLemma DEF Carried
  <2> QED  BY <2>6, <2>7
<1>3. UNCHANGED <<content, array>> \/ StartRound \/ StartTimeRound
  <2>1. BeginGather \/ NothingToSend => UNCHANGED <<content, array>>
    BY DEF BeginGather, NothingToSend, GatherType
  <2>2. VisitIdle => UNCHANGED <<content, array>>
    BY DEF VisitIdle
  <2>3. CASE UNCHANGED <<at, array>>
    <3>1. StartTimeRound \/ UNCHANGED content
      BY <2>3, ContentSteps DEF StartRound, NothingToSend, Gathering
    <3> QED  BY <2>3, <3>1
  <2> QED  BY <2>1, <2>2, <2>3, GatherSteps
<1> QED  BY <1>1, <1>2, <1>3

(* The commands are numbered in the order in which they were given, so a   *)
(* command that waits is younger than all that were taken of its register. *)
YoungerInv ==
    /\ \A p \in Place : Carried(p)[2] <= last
    /\ \A a \in Reg : /\ waiting[a] <= last
                      /\ waiting[a] # 0 => \A p \in Place : Carried(p)[1] = a
                                                              => Carried(p)[2] < waiting[a]
CarryInv == TakenIsCarried /\ YoungerInv

LEMMA CarryInit == ASSUME PathInit PROVE CarryInv
<1>1. Frames = <<<<>>>>
  BY DEF PathInit, Frames
<1>2. Place = {}
  BY <1>1 DEF Place
<1>3. ToSet(<<>>) = {}
  BY DEF ToSet
<1> QED  BY <1>2, <1>3, CommandPathAssumption DEF PathInit, Bank!Init, Bank!NoCommand, CarryInv,
         TakenIsCarried, YoungerInv

LEMMA CarryStep ==
  ASSUME TypeOK, BankType, GatherType, ContentType, CarryInv, [PathNext]_pathVars
  PROVE  CarryInv'
<1>0. \A p \in Place : Carried(p)[1] \in Reg /\ Carried(p)[2] \in Nat
  BY FramesLemma DEF Value
<1>1. CASE ~VisitWaiting
  <2>0. Place' = Place /\ \A p \in Place : Carried(p)' = Carried(p)
    BY <1>1, SameFrames
  <2>same. ASSUME taken' = taken PROVE TakenIsCarried'
    <3>1. \A a \in Reg : {Carried(p)'[2] : p \in {q \in Place' : Carried(q)'[1] = a}}
                        = {Carried(p)[2] : p \in {q \in Place : Carried(q)[1] = a}}
      BY <2>0
    <3>2. \A p, q \in Place' : Precedes(p, q) /\ Carried(p)'[1] = Carried(q)'[1]
                                 => Carried(p)'[2] < Carried(q)'[2]
      BY <2>0 DEF CarryInv, TakenIsCarried
    <3>3. \A a \in Reg : ToSet(taken'[a]) = ToSet(taken[a])
      BY <2>same
    <3> QED  BY <3>1, <3>2, <3>3 DEF CarryInv, TakenIsCarried, Precedes
  <2>1. CASE UNCHANGED <<waiting, taken, last>>
    <3>1. TakenIsCarried'
      BY <2>same, <2>1
    <3> QED  BY <2>0, <2>1, <3>1 DEF CarryInv, YoungerInv
  <2>2. ASSUME NEW a, taken' = taken, waiting' = [waiting EXCEPT ![a] = last'],
               last' = last + 1
        PROVE  CarryInv'
    <3>1. TakenIsCarried'
      BY <2>same, <2>2
    <3>2. \A p \in Place : Carried(p)[2] < last'
      BY <1>0, <2>2 DEF CarryInv, YoungerInv, BankType
    <3>3. \A b \in Reg : waiting'[b] = waiting[b] \/ waiting'[b] = last'
      BY <2>2 DEF BankType
    <3>4. \A b \in Reg : waiting'[b] <= last'
      BY <2>2, <3>3 DEF CarryInv, YoungerInv, BankType
    <3>5. \A b \in Reg : waiting'[b] # 0 => \A p \in Place : Carried(p)[1] = b
                                                    => Carried(p)[2] < waiting'[b]
      BY <3>2, <3>3 DEF CarryInv, YoungerInv
    <3>6. \A p \in Place : Carried(p)[2] <= last'
      BY <1>0, <2>2, <3>2 DEF BankType
    <3> QED  BY <2>0, <3>1, <3>4, <3>5, <3>6 DEF CarryInv, YoungerInv
  <2>3. ASSUME NEW a, taken' = taken, waiting' = [waiting EXCEPT ![a] = 0], last' = last
        PROVE  CarryInv'
    <3>1. TakenIsCarried'
      BY <2>same, <2>3
    <3>2. \A b \in Reg : waiting'[b] = waiting[b] \/ waiting'[b] = 0
      BY <2>3 DEF BankType
    <3>3. \A b \in Reg : waiting'[b] <= last
      BY <3>2 DEF CarryInv, YoungerInv, BankType
    <3> QED  BY <2>0, <2>3, <3>1, <3>2, <3>3 DEF CarryInv, YoungerInv
  <2>4. UNCHANGED <<waiting, taken, last>> \/ \E a \in Commanded : Command(a) \/ Measure(a)
    BY <1>1, BankSteps DEF bankVars
  <2>5. ASSUME NEW a \in Commanded, Command(a) PROVE CarryInv'
    BY <2>2, <2>5 DEF Command, Bank!Put
  <2>6. ASSUME NEW a \in Commanded, Measure(a) PROVE CarryInv'
    BY <2>1, <2>3, <2>6 DEF Measure, Bank!Outlive, Bank!Evict, Bank!NoCommand
  <2> QED  BY <2>1, <2>4, <2>5, <2>6
<1>2. CASE VisitWaiting
  <2>1. PICK new :
          /\ Place' = Place \cup {new} /\ new \notin Place
          /\ Carried(new)' = <<Register, waiting[Register]>>
          /\ \A p \in Place : /\ Carried(p)' = Carried(p)
                              /\ Precedes(p, new) /\ ~Precedes(new, p)
          /\ ~Precedes(new, new)
    BY <1>2, TakeFrames
  <2>2. PICK a \in Reg : a = Register
    BY <1>2, RegisterType DEF VisitWaiting, GatherType
  <2>3. /\ waiting[a] # 0 /\ waiting' = [waiting EXCEPT ![a] = 0] /\ last' = last
        /\ taken' = [taken EXCEPT ![a] = Append(taken[a], waiting[a])]
    BY <1>2, <2>2 DEF VisitWaiting, Bank!Take, Bank!NoCommand
  <2>4. Carried(new)' = <<a, waiting[a]>> /\ waiting[a] \in Nat /\ waiting[a] <= last
    BY <2>1, <2>2 DEF BankType, CarryInv, YoungerInv
  <2>5. \A p \in Place : Carried(p)[1] = a => Carried(p)[2] < waiting[a]
    BY <2>2, <2>3 DEF CarryInv, YoungerInv
  <2>6. YoungerInv'
    <3>1. \A b \in Reg : waiting'[b] = IF b = a THEN 0 ELSE waiting[b]
      BY <2>3 DEF BankType
    <3>2. \A p \in Place' : Carried(p)'[2] <= last
      BY <2>1, <2>4 DEF CarryInv, YoungerInv
    <3>3. \A b \in Reg : waiting'[b] <= last
      <4>1. last \in Nat /\ 0 <= last /\ \A b \in Reg : waiting[b] <= last
        BY DEF CarryInv, YoungerInv, BankType
      <4> QED  BY <3>1, <4>1
    <3>4. \A b \in Reg : waiting'[b] # 0 => \A p \in Place' : Carried(p)'[1] = b
                                                    => Carried(p)'[2] < waiting'[b]
      BY <2>1, <2>4, <3>1 DEF CarryInv, YoungerInv
    <3> QED  BY <2>3, <3>2, <3>3, <3>4 DEF YoungerInv
  <2>7. \A b \in Reg : ToSet(taken'[b]) = {Carried(p)'[2] : p \in {q \in Place' : Carried(q)'[1] = b}}
    <3> TAKE b \in Reg
    <3>1. ToSet(taken[b]) = {Carried(p)[2] : p \in {q \in Place : Carried(q)[1] = b}}
      BY DEF CarryInv, TakenIsCarried
    <3>2. CASE b # a
      <4>1. taken'[b] = taken[b]
        BY <2>3, <3>2 DEF BankType
      <4>2. {q \in Place' : Carried(q)'[1] = b} = {q \in Place : Carried(q)[1] = b}
        BY <2>1, <2>4, <3>2
      <4> QED  BY <2>1, <3>1, <4>1, <4>2
    <3>3. CASE b = a
      <4>1. taken'[b] = Append(taken[b], waiting[a]) /\ taken[b] \in Seq(1 .. MaxCommand)
        BY <2>3, <3>3 DEF BankType
      <4>2. ToSet(taken'[b]) = ToSet(taken[b]) \cup {waiting[a]}
        <5>1. DOMAIN taken[b] = 1 .. Len(taken[b]) /\ Len(taken[b]) \in Nat
              /\ DOMAIN taken'[b] = 1 .. Len(taken[b]) + 1
              /\ taken'[b][Len(taken[b]) + 1] = waiting[a]
              /\ \A i \in DOMAIN taken[b] : taken'[b][i] = taken[b][i]
          BY <4>1
        <5> QED  BY <5>1 DEF ToSet
      <4>3. {q \in Place' : Carried(q)'[1] = b} = {q \in Place : Carried(q)[1] = b} \cup {new}
        BY <2>1, <2>4, <3>3
      <4>4. {Carried(p)'[2] : p \in {q \in Place : Carried(q)[1] = b} \cup {new}}
            = {Carried(p)[2] : p \in {q \in Place : Carried(q)[1] = b}} \cup {waiting[a]}
        BY <2>1, <2>4
      <4> QED  BY <3>1, <4>2, <4>3, <4>4
    <3> QED  BY <3>2, <3>3
  <2>8. \A p, q \in Place' : Precedes(p, q) /\ Carried(p)'[1] = Carried(q)'[1]
                               => Carried(p)'[2] < Carried(q)'[2]
    <3> TAKE p, q \in Place'
    <3>1. CASE p \in Place /\ q \in Place
      BY <2>1, <3>1 DEF CarryInv, TakenIsCarried
    <3>2. CASE p \in Place /\ q = new
      BY <2>1, <2>4, <2>5, <3>2
    <3>3. CASE p = new
      BY <2>1, <3>3
    <3> QED  BY <2>1, <3>1, <3>2, <3>3
  <2>9. TakenIsCarried'
    BY <2>7, <2>8 DEF TakenIsCarried, Precedes
  <2> QED  BY <2>6, <2>9 DEF CarryInv
<1> QED  BY <1>1, <1>2

(* GetControlData takes a command by clearing its flag, and from then on   *)
(* only the array and the frame hold it: every command taken is in exactly *)
(* one place of one frame, and the frames carry the commands of a register *)
(* in their order, for every list of devices and every limit.              *)
THEOREM CommandsAreCarried == PathSpec => []TakenIsCarried
<1>1. TypeOK /\ PathType /\ CarryInv /\ [PathNext]_pathVars => CarryInv'
  BY CarryStep DEF PathType
<1>2. CarryInv => TakenIsCarried
  BY DEF CarryInv
<1> QED  BY <1>1, <1>2, CarryInit, PathTypeLemma, PTL DEF PathSpec

-----------------------------------------------------------------------------
(* CommandPath: what of the frames is in the slave's bank, over one        *)
(* connection: the frames applied, and the part of a frame that is being   *)
(* saved, as far as the frame announces them.                              *)
Kept(s) == IF Alone(content[s]) THEN Announced(content[s]) ELSE 0
Reached(c, p) == \/ p[1] \in ToSet(applied)
                 \/ server[c].pc = "save" /\ p[1] = Got(c).seq /\ p[2] <= stored[c]
SavedAlready(c, p) == Reached(c, p) /\ p[2] <= Kept(p[1])
SavedPlaces(c) == {p \in Place : SavedAlready(c, p)}
SavedExactly(c) ==
    \A a \in Reg : ToSet(saved[a]) = {Carried(p)[2] : p \in {q \in SavedPlaces(c) : Carried(q)[1] = a}}
SavedAscending == \A a \in Reg : \A i, j \in DOMAIN saved[a] : i < j => saved[a][i] < saved[a][j]
StoreInv(c) == SavedExactly(c) /\ SavedAscending

(* Nothing is garbled while the frames are whole.                          *)
OnlyCommands == (\A s \in DOMAIN content : Whole(s)) => garbled = {}

LEMMA OnlyCommandsStep ==
  ASSUME TypeOK, PathType, OnlyCommands, [PathNext]_pathVars
  PROVE  OnlyCommands'
<1> SUFFICES ASSUME \A s \in DOMAIN content' : Whole(s)' PROVE garbled' = {}
  BY DEF OnlyCommands
<1>1. \A s \in DOMAIN content : s \in DOMAIN content' /\ content'[s] = content[s]
  BY ContentTypeStep DEF PathType
<1>2. \A s \in DOMAIN content : Whole(s)
  BY <1>1 DEF Whole
<1>3. garbled = {}
  BY <1>2 DEF OnlyCommands
<1>4. CASE garbled' = garbled
  BY <1>3, <1>4
<1>5. ASSUME NEW c \in Conn, SaveValue(c) PROVE garbled' = garbled
  <2>1. /\ Got(c).seq \in DOMAIN content
        /\ Alone(content[Got(c).seq]) => garbled' = garbled
    BY <1>5, NextValue DEF PathType
  <2>2. Len(content[Got(c).seq]) \in Nat
    BY <2>1, ElementOfSeq, LenProperties DEF PathType, ContentType
  <2>3. Alone(content[Got(c).seq])
    BY <1>2, <2>1, <2>2, AnnouncedLemma DEF Whole
  <2> QED  BY <2>1, <2>3
<1>6. ASSUME NEW c \in Conn, AllSaved(c) PROVE garbled' = garbled
  BY <1>6 DEF AllSaved
<1> QED  BY <1>3, <1>4, <1>5, <1>6, StoreSteps

(* A frame of time carries no command.                                     *)
KindInv ==
    /\ client.kind = "time" /\ client.seq > 0 => content[client.seq] = <<>>
    /\ \A c \in Conn : \A f \in Known(c) : f.kind = "time" => content[f.seq] = <<>>

LEMMA KindStep ==
  ASSUME TypeOK, GatherType, ContentType, RoundsBegun, KindInv, [PathNext]_pathVars
  PROVE  KindInv'
<1>0. \A s \in DOMAIN content : content'[s] = content[s]
  BY ContentTypeStep
<1>1. /\ DOMAIN content = 1 .. client.seq /\ client.seq \in Nat
      /\ content \in Seq(Seq(Value)) /\ Len(content) = client.seq
  BY DEF ContentType, TypeOK, ClientType, Client
<1>2. \A c \in Conn : \A f \in Known(c)' : f.seq \in DOMAIN content /\ (f.kind = "time" => content[f.seq] = <<>>)
  <2>1. SendFrames => /\ CurrentFrame.seq \in DOMAIN content
                      /\ CurrentFrame.kind = "time" => content[CurrentFrame.seq] = <<>>
    <3>1. SendFrames => client.seq > 0
      BY DEF SendFrames, TypeOK, ClientType
    <3> QED  BY <1>1, <3>1 DEF CurrentFrame, KindInv
  <2> QED  BY <2>1, KnownStep, PathStepLemma DEF KindInv, RoundsBegun
<1>3. client'.kind = "time" /\ client'.seq > 0 => content'[client'.seq] = <<>>
  <2>1. CASE StartRound \/ StartTimeRound
    <3>1. /\ content' = Append(content, array) /\ client'.seq = client.seq + 1
          /\ client'.kind = "time" => array = <<>>
      BY <2>1, BeginRound
    <3>2. content'[client.seq + 1] = array
      BY <1>1, <3>1
    <3> QED  BY <3>1, <3>2
  <2>2. CASE content' = content /\ client'.seq = client.seq /\ ~StartRound /\ ~StartTimeRound
    <3>1. client'.kind = client.kind
      BY <2>2 DEF PathNext, pathVars, linkVars, ClientMoves, Environment, ServerMoves, BeginGather,
         VisitWaiting, VisitIdle, NothingToSend, Attempt, FinishAttempt, StartOrExit, Receive,
         Command, Measure, SaveValue, AllSaved, StartClient, Exit, SendFrames, EndRound, RecvInfo,
         Recv, Compare, Save, Confirm, EndService, Break, TypeOK, ClientType, Client
    <3> QED  BY <2>2, <3>1 DEF KindInv
  <2> QED  BY <2>1, <2>2, ContentSteps
<1> QED  BY <1>0, <1>2, <1>3 DEF KindInv

LEMMA AppliedSteps ==
  [PathNext]_pathVars => applied' = applied \/ \E c \in Conn : AllSaved(c)
BY DEF PathNext, pathVars, linkVars, ClientMoves, Environment, ServerMoves, BeginGather,
   VisitWaiting, VisitIdle, NothingToSend, StartRound, StartTimeRound, Attempt, FinishAttempt,
   StartOrExit, Receive, Command, Measure, SaveValue, StartClient, SendCtrlData, SendTimeSync,
   Exit, SendFrames, EndRound, RecvInfo, Recv, Compare, Confirm, EndService, Break

(* The places of a step: what is saved stays where it is.                  *)
LEMMA SavedBegun ==
  ASSUME TypeOK, ContentType, RoundsBegun, NEW c \in Conn, LinkInv(c), NEW p, Reached(c, p)
  PROVE  p[1] \in DOMAIN content
<1>1. DOMAIN content = 1 .. client.seq /\ client.seq \in Nat
  BY DEF ContentType, TypeOK, ClientType, Client
<1>2. CASE p[1] \in ToSet(applied)
  <2>1. PICK i \in 1 .. Len(applied) : p[1] = applied[i]
    <3>1. DOMAIN applied = 1 .. Len(applied)
      BY DEF TypeOK, HistoryType
    <3> QED  BY <1>2, <3>1 DEF ToSet
  <2>2. applied[i] <= client.seq /\ applied[i] \in 1 .. MaxSeq
    <3>1. CurrentFrame \in Line(c) /\ CurrentFrame.seq = client.seq
      BY DEF Line, CurrentFrame
    <3> QED  BY <3>1, LineType DEF LinkInv, SavedInv
  <2> QED  BY <1>1, <2>1, <2>2
<1>3. CASE server[c].pc = "save" /\ p[1] = Got(c).seq
  <2>1. server[c].frames # <<>> /\ server[c].frames \in Seq(Frame)
    BY <1>3, LineType DEF TypeOK, ServiceType
  <2>2. Got(c) \in Known(c)
    BY <2>1 DEF Got, Known, FramesOf, ToSet
  <2> QED  BY <1>3, <2>2 DEF RoundsBegun
<1> QED  BY <1>2, <1>3 DEF Reached

LEMMA KeptStep ==
  ASSUME TypeOK, GatherType, ContentType, [PathNext]_pathVars
  PROVE  \A s \in DOMAIN content : Kept(s)' = Kept(s)
BY ContentTypeStep DEF Kept

LEMMA PlacesStep ==
  ASSUME TypeOK, BankType, GatherType, ContentType, [PathNext]_pathVars
  PROVE  /\ Place \subseteq Place' /\ \A p \in Place : Carried(p)' = Carried(p)
         /\ \A p \in Place' : p \in Place \/ (VisitWaiting /\ p[1] = Len(content) + 1)
<1>1. CASE ~VisitWaiting
  BY <1>1, SameFrames
<1>2. CASE VisitWaiting
  <2>1. PICK new : /\ Place' = Place \cup {new}
                   /\ \A p \in Place : Carried(p)' = Carried(p) /\ Precedes(p, new)
                   /\ new \notin Place
    BY <1>2, TakeFrames
  <2>2. new \in Place'
    BY <2>1
  <2>3. /\ new = <<new[1], new[2]>> /\ new[1] \in DOMAIN Frames' /\ new[2] \in DOMAIN Frames'[new[1]]
    BY <2>2 DEF Place
  <2>4. /\ DOMAIN content = 1 .. Len(content) /\ Len(content) \in Nat
        /\ DOMAIN Frames = 1 .. Len(content) + 1
        /\ content \in Seq(Seq(Value)) /\ content' = content
    BY <1>2, FramesLemma DEF VisitWaiting
  <2>5. /\ DOMAIN Frames' = DOMAIN Frames
        /\ \A s \in DOMAIN content : Frames'[s] = Frames[s]
    BY <2>4 DEF Frames
  <2>6. new[1] \notin DOMAIN content
    BY <2>1, <2>3, <2>5, PlaceLemma
  <2>7. new[1] = Len(content) + 1
    BY <2>3, <2>4, <2>5, <2>6
  <2> QED  BY <1>2, <2>1, <2>7
<1> QED  BY <1>1, <1>2

LEMMA SameStore ==
  ASSUME TypeOK, BankType, GatherType, ContentType, RoundsBegun, NEW c \in Conn, LinkInv(c),
         StoreInv(c), [PathNext]_pathVars, saved' = saved,
         \A p \in Place : SavedAlready(c, p)' <=> SavedAlready(c, p)
  PROVE  StoreInv(c)'
<1>1. ASSUME NEW p \in Place', p \notin Place, SavedAlready(c, p)' PROVE FALSE
  <2>1. VisitWaiting /\ p[1] = Len(content) + 1
    BY <1>1, PlacesStep
  <2>2. Reached(c, p)
    BY <1>1, <2>1 DEF VisitWaiting, linkVars, serverVars, SavedAlready, Reached, Got
  <2>3. p[1] \in DOMAIN content /\ DOMAIN content = 1 .. Len(content) /\ Len(content) \in Nat
    BY <2>2, SavedBegun, FramesLemma
  <2> QED  BY <2>1, <2>3
<1>2. /\ Place \subseteq Place' /\ \A p \in Place : Carried(p)' = Carried(p)
  BY PlacesStep
<1>3. SavedPlaces(c)' = SavedPlaces(c)
  BY <1>1, <1>2 DEF SavedPlaces
<1>4. \A p \in SavedPlaces(c) : Carried(p)' = Carried(p)
  BY <1>2 DEF SavedPlaces
<1>5. \A a \in Reg : {Carried(p)'[2] : p \in {q \in SavedPlaces(c)' : Carried(q)'[1] = a}}
                    = {Carried(p)[2] : p \in {q \in SavedPlaces(c) : Carried(q)[1] = a}}
  BY <1>3, <1>4
<1>6. SavedExactly(c)'
  BY <1>5 DEF StoreInv, SavedExactly
<1> QED  BY <1>6 DEF StoreInv, SavedAscending

LEMMA ContentPlace ==
  ASSUME GatherType, ContentType, NEW s \in DOMAIN content, NEW i \in DOMAIN content[s]
  PROVE  <<s, i>> \in Place /\ Carried(<<s, i>>) = content[s][i]
<1>1. s \in DOMAIN Frames /\ Frames[s] = content[s]
  BY FramesLemma
<1>2. i \in DOMAIN Frames[s]
  BY <1>1
<1>3. <<s, i>>[1] = s /\ <<s, i>>[2] = i
  OBVIOUS
<1> QED  BY <1>1, <1>2, <1>3, PlaceLemma DEF Carried

LEMMA PlaceIndex ==
  ASSUME GatherType, ContentType, NEW p \in Place
  PROVE  p[2] \in Nat /\ p[2] >= 1
<1>1. p[1] \in DOMAIN Frames /\ p[2] \in DOMAIN Frames[p[1]]
  BY PlaceLemma
<1>2. Frames[p[1]] \in Seq(Value)
  BY <1>1, FramesLemma, ElementOfSeq
<1> QED  BY <1>1, <1>2

LEMMA SaveValueStore ==
  ASSUME TypeOK, PathType, NEW c \in Conn, LinkInv(c), TakenIsCarried, StoreInv(c), SaveValue(c),
         Alone(content[Got(c).seq])
  PROVE  StoreInv(c)'
<1>0. PICK s, i : s = Got(c).seq /\ i = stored[c] + 1
  OBVIOUS
<1> DEFINE value == content[s][i]
           new == <<s, i>>
<1>1. /\ s \in DOMAIN content /\ i \in DOMAIN content[s] /\ value \in Value
      /\ saved' = [saved EXCEPT ![value[1]] = Append(saved[value[1]], value[2])]
      /\ stored' = [stored EXCEPT ![c] = i]
  BY <1>0, NextValue DEF PathType
<1>2. /\ UNCHANGED <<server, applied, content, array>> /\ server[c].pc = "save"
      /\ stored \in [Conn -> Nat] /\ stored'[c] = i /\ stored[c] = i - 1 /\ i \in Nat
  BY <1>0, <1>1 DEF SaveValue, linkVars, clientVars, PathType, StoreType
<1>3. Place' = Place /\ Got(c)' = Got(c) /\ \A p : Carried(p)' = Carried(p)
  BY <1>2 DEF Place, Frames, Carried, Got
<1>4. new \in Place /\ Carried(new) = value
  BY <1>1, ContentPlace DEF PathType
<1>5. \A p \in Place : p[2] \in Nat /\ p[1] \in Nat /\ p = <<p[1], p[2]>>
  <2> SUFFICES ASSUME NEW p \in Place PROVE p[2] \in Nat /\ p[1] \in Nat /\ p = <<p[1], p[2]>>
    OBVIOUS
  <2>1. p = <<p[1], p[2]>> /\ p[1] \in DOMAIN Frames /\ p[2] \in DOMAIN Frames[p[1]]
    BY PlaceLemma
  <2>2. Frames \in Seq(Seq(Value)) /\ Frames[p[1]] \in Seq(Value)
    BY <2>1, FramesLemma, ElementOfSeq DEF PathType
  <2> QED  BY <2>1, <2>2
<1>6. \A p \in Place : SavedAlready(c, p)' <=> SavedAlready(c, p) \/ p = new
  <2> SUFFICES ASSUME NEW p \in Place
               PROVE  SavedAlready(c, p)' <=> SavedAlready(c, p) \/ p = new
    OBVIOUS
  <2>0. Kept(p[1])' = Kept(p[1]) /\ i <= Kept(s)
    <3>1. stored[c] < Announced(content[s])
      BY <1>0, NextValue DEF PathType
    <3>2. Announced(content[s]) \in Nat
      BY <1>1, ElementOfSeq, LenProperties, AnnouncedLemma DEF PathType, ContentType
    <3> QED  BY <1>0, <1>2, <3>1, <3>2 DEF Kept
  <2>1. SavedAlready(c, p)' <=> /\ p[1] \in ToSet(applied) \/ (p[1] = s /\ p[2] <= i)
                                /\ p[2] <= Kept(p[1])
    BY <1>0, <1>2, <1>3, <2>0 DEF SavedAlready, Reached
  <2>2. SavedAlready(c, p) <=> /\ p[1] \in ToSet(applied) \/ (p[1] = s /\ p[2] <= i - 1)
                               /\ p[2] <= Kept(p[1])
    BY <1>0, <1>2 DEF SavedAlready, Reached
  <2>3. p[2] <= i <=> p[2] <= i - 1 \/ p[2] = i
    BY <1>2, <1>5
  <2>4. p = new <=> p[1] = s /\ p[2] = i
    BY <1>5
  <2> QED  BY <2>0, <2>1, <2>2, <2>3, <2>4
<1>7. \A p \in SavedPlaces(c) : Precedes(p, new)
  <2> SUFFICES ASSUME NEW p \in Place, SavedAlready(c, p) PROVE Precedes(p, new)
    BY DEF SavedPlaces
  <2>1. CASE p[1] \in ToSet(applied)
    <3>1. DOMAIN applied = 1 .. Len(applied)
      BY DEF TypeOK, HistoryType
    <3>2. p[1] < s
      BY <1>0, <1>2, <2>1, <3>1 DEF ToSet, LinkInv, SavedInv
    <3> QED  BY <3>2 DEF Precedes
  <2>2. CASE p[1] = s /\ p[2] <= i - 1
    BY <1>2, <1>5, <2>2 DEF Precedes
  <2> QED  BY <1>0, <1>2, <2>1, <2>2 DEF SavedAlready, Reached
<1>8. PICK a \in Reg, v \in 1 .. MaxCommand : value = <<a, v>>
  BY <1>1 DEF Value
<1> HIDE DEF value, new
<1>9. Carried(new) = <<a, v>> /\ saved' = [saved EXCEPT ![a] = Append(saved[a], v)]
  BY <1>1, <1>4, <1>8
<1>10. SavedPlaces(c)' = SavedPlaces(c) \cup {new}
  BY <1>3, <1>4, <1>6 DEF SavedPlaces
<1>11. /\ saved[a] \in Seq(1 .. MaxCommand) /\ saved'[a] = Append(saved[a], v)
       /\ \A b \in Reg : b # a => saved'[b] = saved[b]
  BY <1>9 DEF PathType, StoreType
<1>12. /\ DOMAIN saved[a] = 1 .. Len(saved[a]) /\ Len(saved[a]) \in Nat
       /\ DOMAIN saved'[a] = 1 .. Len(saved[a]) + 1 /\ saved'[a][Len(saved[a]) + 1] = v
       /\ \A j \in DOMAIN saved[a] : saved'[a][j] = saved[a][j]
  BY <1>11
<1>13. ToSet(saved'[a]) = ToSet(saved[a]) \cup {v}
  BY <1>12 DEF ToSet
<1>14. \A b \in Reg : ToSet(saved'[b]) = {Carried(p)[2] : p \in {q \in SavedPlaces(c)' : Carried(q)[1] = b}}
  <2> TAKE b \in Reg
  <2>1. ToSet(saved[b]) = {Carried(p)[2] : p \in {q \in SavedPlaces(c) : Carried(q)[1] = b}}
    BY DEF StoreInv, SavedExactly
  <2>2. CASE b = a
    BY <1>9, <1>10, <1>13, <2>1, <2>2
  <2>3. CASE b # a
    <3>1. {q \in SavedPlaces(c)' : Carried(q)[1] = b} = {q \in SavedPlaces(c) : Carried(q)[1] = b}
      BY <1>9, <1>10, <2>3
    <3> QED  BY <1>11, <2>1, <2>3, <3>1
  <2> QED  BY <2>2, <2>3
<1>15. SavedExactly(c)'
  BY <1>3, <1>14 DEF SavedExactly
<1>16. \A j \in DOMAIN saved[a] : saved[a][j] < v
  <2> TAKE j \in DOMAIN saved[a]
  <2>1. saved[a][j] \in ToSet(saved[a])
    BY DEF ToSet
  <2>2. PICK p \in SavedPlaces(c) : Carried(p)[1] = a /\ saved[a][j] = Carried(p)[2]
    BY <2>1 DEF StoreInv, SavedExactly
  <2>3. p \in Place /\ Precedes(p, new)
    BY <1>7, <2>2 DEF SavedPlaces
  <2> QED  BY <1>4, <1>9, <2>2, <2>3 DEF TakenIsCarried
<1>17. SavedAscending'
  <2> SUFFICES ASSUME NEW b \in Reg, NEW j \in DOMAIN saved'[b], NEW k \in DOMAIN saved'[b], j < k
               PROVE  saved'[b][j] < saved'[b][k]
    BY DEF SavedAscending
  <2>1. CASE b # a
    BY <1>11, <2>1 DEF StoreInv, SavedAscending
  <2>2. CASE b = a /\ k \in DOMAIN saved[a]
    BY <1>12, <2>2 DEF StoreInv, SavedAscending
  <2>3. CASE b = a /\ k = Len(saved[a]) + 1
    BY <1>12, <1>16, <2>3
  <2> QED  BY <1>12, <2>1, <2>2, <2>3
<1> QED  BY <1>15, <1>17 DEF StoreInv

(* A value of a frame that is not taken value by value is nobody's.        *)
LEMMA GarbledStore ==
  ASSUME TypeOK, PathType, NEW c \in Conn, LinkInv(c), StoreInv(c), SaveValue(c),
         ~Alone(content[Got(c).seq]), [PathNext]_pathVars
  PROVE  StoreInv(c)'
<1>1. saved' = saved
  BY NextValue DEF PathType
<1>2. UNCHANGED <<server, applied, content>>
  BY DEF SaveValue, linkVars, clientVars
<1>3. \A p \in Place : SavedAlready(c, p)' <=> SavedAlready(c, p)
  <2> SUFFICES ASSUME NEW p \in Place PROVE SavedAlready(c, p)' <=> SavedAlready(c, p)
    OBVIOUS
  <2>1. Kept(p[1])' = Kept(p[1])
    BY <1>2 DEF Kept
  <2>2. CASE p[1] = Got(c).seq
    <3>1. Kept(p[1]) = 0
      BY <2>2 DEF Kept
    <3>2. p[2] \in Nat /\ p[2] >= 1
      BY PlaceIndex DEF PathType
    <3>3. ~(p[2] <= 0)
      BY <3>2
    <3> QED  BY <2>1, <3>1, <3>3 DEF SavedAlready, Reached
  <2>3. CASE p[1] # Got(c).seq
    BY <1>2, <2>1, <2>3 DEF SavedAlready, Reached, Got
  <2> QED  BY <2>2, <2>3
<1> QED  BY <1>1, <1>3, SameStore DEF PathType

LEMMA AllSavedStore ==
  ASSUME TypeOK, PathType, NEW c \in Conn, LinkInv(c), KindInv, StoreInv(c), AllSaved(c),
         [PathNext]_pathVars
  PROVE  StoreInv(c)'
<1>0. PICK s : s = Got(c).seq
  OBVIOUS
<1>1. /\ UNCHANGED <<content, array, saved>> /\ server[c].pc = "save"
      /\ stored[c] = Announced(content[s])
      /\ applied' = IF Got(c).kind = "ctrl" THEN Append(applied, s) ELSE applied
      /\ server' = [server EXCEPT ![c].pc = "number"]
  BY <1>0 DEF AllSaved, Save, clientVars
<1>2. server'[c].pc # "save"
  BY <1>1 DEF TypeOK, ServiceType, Service
<1>3. Got(c) \in Known(c) /\ Got(c).kind \in {"ctrl", "time"}
  <2>1. server[c].frames # <<>> /\ server[c].frames \in Seq(Frame)
    BY <1>1, LineType DEF TypeOK, ServiceType
  <2>2. Got(c) \in Frame
    BY <2>1 DEF Got
  <2> QED  BY <2>1, <2>2 DEF Got, Known, FramesOf, ToSet, Frame, Kind
<1>4. s \in DOMAIN content /\ content[s] \in Seq(Value) /\ Frames[s] = content[s]
  BY <1>0, <1>3, FramesLemma DEF PathType, RoundsBegun
<1>5. ToSet(applied') = IF Got(c).kind = "ctrl" THEN ToSet(applied) \cup {s} ELSE ToSet(applied)
  <2>1. applied \in Seq(1 .. MaxSeq)
    BY DEF TypeOK, HistoryType
  <2>2. /\ DOMAIN Append(applied, s) = 1 .. Len(applied) + 1 /\ DOMAIN applied = 1 .. Len(applied)
        /\ Len(applied) \in Nat /\ Append(applied, s)[Len(applied) + 1] = s
        /\ \A i \in DOMAIN applied : Append(applied, s)[i] = applied[i]
    BY <2>1
  <2>3. ToSet(Append(applied, s)) = ToSet(applied) \cup {s}
    BY <2>2 DEF ToSet
  <2> QED  BY <1>1, <2>3
<1>6. ASSUME NEW p \in Place, p[1] = s, p[2] <= Kept(s)
      PROVE  p[2] <= stored[c] /\ Got(c).kind # "time"
  <2>1. p[2] \in DOMAIN content[s]
    BY <1>4, <1>6, PlaceLemma
  <2>2. DOMAIN content[s] = 1 .. Len(content[s])
    BY <1>4
  <2>3. content[s] # <<>>
    BY <2>1
  <2>4. p[2] <= stored[c]
    <3>1. Alone(content[s]) => Kept(s) = Announced(content[s])
      BY DEF Kept
    <3>2. ~Alone(content[s]) => Kept(s) = 0
      BY DEF Kept
    <3> QED  BY <1>1, <1>6, <2>1, <2>2, <3>1, <3>2
  <2> QED  BY <1>0, <1>3, <2>3, <2>4 DEF KindInv
<1>7. \A p \in Place : SavedAlready(c, p)' <=> SavedAlready(c, p)
  <2> SUFFICES ASSUME NEW p \in Place PROVE SavedAlready(c, p)' <=> SavedAlready(c, p)
    OBVIOUS
  <2>1. SavedAlready(c, p)' <=> p[1] \in ToSet(applied') /\ p[2] <= Kept(p[1])
    BY <1>1, <1>2 DEF SavedAlready, Reached, Kept
  <2>2. SavedAlready(c, p) <=> /\ p[1] \in ToSet(applied) \/ (p[1] = s /\ p[2] <= stored[c])
                               /\ p[2] <= Kept(p[1])
    BY <1>0, <1>1 DEF SavedAlready, Reached
  <2> QED  BY <1>3, <1>5, <1>6, <2>1, <2>2
<1> QED  BY <1>1, <1>7, SameStore DEF PathType

LEMMA StoreStep ==
  ASSUME TypeOK, PathType, Unopened, NEW c \in Conn, Conn = {c}, LinkInv(c), KindInv,
         TakenIsCarried, StoreInv(c), [PathNext]_pathVars
  PROVE  StoreInv(c)'
<1>1. CASE SaveValue(c)
  <2>1. CASE Alone(content[Got(c).seq])
    BY <1>1, <2>1, SaveValueStore
  <2>2. CASE ~Alone(content[Got(c).seq])
    BY <1>1, <2>2, GarbledStore
  <2> QED  BY <2>1, <2>2
<1>2. CASE AllSaved(c)
  BY <1>2, AllSavedStore
<1>3. CASE UNCHANGED <<stored, saved, applied>> /\ ~AllSaved(c)
  <2>1. CASE server[c].pc = "save"
    <3>1. server'[c] = server[c]
      BY <1>3, <2>1, SavingGoesOn
    <3>2. \A p \in Place : Reached(c, p)' <=> Reached(c, p)
      BY <1>3, <3>1 DEF Reached, Got
    <3>3. \A p \in Place : SavedAlready(c, p)' <=> SavedAlready(c, p)
      BY <3>2, SavedBegun, KeptStep DEF SavedAlready, PathType
    <3> QED  BY <1>3, <3>3, SameStore DEF PathType
  <2>2. CASE server[c].pc # "save"
    <3>1. stored'[c] = stored[c] /\ stored[c] = 0
      BY <1>3, <2>2 DEF PathType, StoreType
    <3>2. ASSUME NEW p \in Place PROVE ~(p[2] <= 0)
      <4>1. p[1] \in DOMAIN Frames /\ p[2] \in DOMAIN Frames[p[1]]
        BY PlaceLemma
      <4>2. Frames[p[1]] \in Seq(Value)
        BY <4>1, FramesLemma, ElementOfSeq DEF PathType
      <4> QED  BY <4>1, <4>2
    <3>3. \A p \in Place : Reached(c, p)' <=> Reached(c, p)
      BY <1>3, <2>2, <3>1, <3>2 DEF Reached
    <3>4. \A p \in Place : SavedAlready(c, p)' <=> SavedAlready(c, p)
      BY <3>3, SavedBegun, KeptStep DEF SavedAlready, PathType
    <3> QED  BY <1>3, <3>4, SameStore DEF PathType
  <2> QED  BY <2>1, <2>2
<1> QED  BY <1>1, <1>2, <1>3, StoreSteps, AppliedSteps

LEMMA StoreInit == PathInit => KindInv /\ \A c \in Conn : StoreInv(c)
<1> SUFFICES ASSUME PathInit PROVE KindInv /\ \A c \in Conn : StoreInv(c)  OBVIOUS
<1>1. Frames = <<<<>>>>
  BY DEF PathInit, Frames
<1>2. Place = {} /\ ToSet(<<>>) = {}
  BY <1>1 DEF Place, ToSet
<1>3. \A c \in Conn : Known(c) = {}
  BY DEF PathInit, Init, Known, FramesOf, NewChan, NewServer, ToSet
<1>4. KindInv
  BY <1>3 DEF KindInv, PathInit, Init
<1>5. \A a \in Reg : saved[a] = <<>>
  BY DEF PathInit
<1>6. \A c \in Conn : SavedExactly(c)
  BY <1>2, <1>5 DEF SavedExactly, SavedPlaces
<1>7. SavedAscending
  BY <1>5 DEF SavedAscending
<1> QED  BY <1>4, <1>6, <1>7 DEF StoreInv

LEMMA PathLinkInv ==
  ASSUME NEW net, OneConnection(net)
  PROVE  PathSpec => []LinkInv(<<net, 1>>)
<1>1. Init => LinkInv(<<net, 1>>)
  BY LinkInvInit, OneConnectionLemma
<1>2. TypeOK /\ LinkInv(<<net, 1>>) /\ [Next]_vars => LinkInv(<<net, 1>>)'
  BY LinkInvStep
<1> QED  BY <1>1, <1>2, LinkTypeCorrect, PathImplementsLink, PTL DEF Spec

LEMMA PathStoreInv ==
  ASSUME NEW net, OneConnection(net)
  PROVE  PathSpec => [](KindInv /\ StoreInv(<<net, 1>>))
<1> DEFINE c == <<net, 1>>
<1>0. c \in Conn /\ Conn = {c}
  BY OneConnectionLemma
<1>1. PathInit => KindInv /\ StoreInv(c)
  BY <1>0, StoreInit
<1>2. TypeOK /\ PathType /\ Unopened /\ LinkInv(c) /\ TakenIsCarried /\ KindInv /\ StoreInv(c)
        /\ [PathNext]_pathVars
      => (KindInv /\ StoreInv(c))'
  <2> SUFFICES ASSUME TypeOK, PathType, Unopened, LinkInv(c), TakenIsCarried, KindInv, StoreInv(c),
                      [PathNext]_pathVars
               PROVE  (KindInv /\ StoreInv(c))'
    OBVIOUS
  <2>1. KindInv'
    BY KindStep DEF PathType
  <2>2. StoreInv(c)'
    BY <1>0, StoreStep
  <2> QED  BY <2>1, <2>2
<1> HIDE DEF c
<1> QED  BY <1>1, <1>2, PathTypeLemma, PathLinkInv, CommandsAreCarried, PTL DEF PathSpec, c

(* From the master's bank to the slave's, over one connection: a register  *)
(* of the slave gets the commands of its master once and in the order in   *)
(* which they were given, whatever is lost, repeated or refused on the way *)
(* and also when the numbers of the frames wrap, and nothing that nobody   *)
(* commanded while no frame has more values than it can announce.          *)
THEOREM CommandsSavedInOrder ==
  ASSUME NEW net, OneConnection(net)
  PROVE  PathSpec => []SavedOnceInOrder
<1>1. StoreInv(<<net, 1>>) /\ OnlyCommands => SavedOnceInOrder
  BY DEF StoreInv, SavedAscending, OnlyCommands, SavedOnceInOrder
<1>2. PathInit => OnlyCommands
  BY DEF PathInit, OnlyCommands
<1>3. TypeOK /\ PathType /\ OnlyCommands /\ [PathNext]_pathVars => OnlyCommands'
  BY OnlyCommandsStep
<1> QED  BY <1>1, <1>2, <1>3, PathStoreInv, PathTypeLemma, PTL DEF PathSpec

-----------------------------------------------------------------------------
(* CommandPath: what a round that its own confirmation ended has done.     *)
Settled(s) == s \in ToSet(applied) \/ (s \in DOMAIN content /\ content[s] = <<>>)
EndedInv ==
    /\ \A s \in proof : Settled(s)
    /\ Len(ended) = IF client.pc \in {"send", "recv"} THEN client.seq - 1 ELSE client.seq
    /\ \A s \in DOMAIN ended : ended[s] = "confirmed" => Settled(s)

LEMMA SettledStep ==
  ASSUME TypeOK, GatherType, ContentType, [PathNext]_pathVars, NEW s, Settled(s)
  PROVE  Settled(s)'
<1>1. applied \in Seq(1 .. MaxSeq)
  BY DEF TypeOK, HistoryType
<1>2. ToSet(applied) \subseteq ToSet(applied')
  <2>1. CASE applied' = applied
    BY <2>1
  <2>2. ASSUME NEW e, applied' = Append(applied, e) PROVE ToSet(applied) \subseteq ToSet(applied')
    <3>1. DOMAIN applied \subseteq DOMAIN applied' /\ \A i \in DOMAIN applied : applied'[i] = applied[i]
      BY <1>1, <2>2
    <3> QED  BY <3>1 DEF ToSet
  <2> QED  BY <2>1, <2>2, AppliedSteps DEF AllSaved, Save
<1> QED  BY <1>2, ContentTypeStep DEF Settled

(* Which steps end or begin a round.                                       *)
LEMMA RoundSteps ==
  ASSUME TypeOK, [PathNext]_pathVars, ~StartRound, ~StartTimeRound, ~FinishAttempt
  PROVE  /\ client'.seq = client.seq /\ ended' = ended
         /\ client'.pc \in {"send", "recv"} <=> client.pc \in {"send", "recv"}
<1>1. CASE client' = client /\ ended' = ended
  BY <1>1
<1>2. CASE Attempt \/ StartOrExit \/ \E n \in Net : Receive(n)
  BY <1>2 DEF Attempt, StartOrExit, Receive, clientVars, SendFrames, StartClient, Exit, RecvInfo,
              TypeOK, ClientType, Client
<1> QED  BY <1>1, <1>2 DEF PathNext, pathVars, linkVars, clientVars, ClientMoves, Environment,
       ServerMoves, BeginGather, VisitWaiting, VisitIdle, NothingToSend, Command, Measure, Break,
       SaveValue, AllSaved, Save, Recv, Compare, Confirm, EndService

(* A positive confirmation is of a frame whose commands have been saved.   *)
LEMMA PositiveSettled ==
  ASSUME TypeOK, ConfirmedWasSaved, KindInv, RoundsBegun, NEW c \in Conn,
         NEW r \in ToSet(chan[c].replies), r \in Confirmation, r.positive, r.frame \in Known(c)
  PROVE  Settled(r.frame.seq)
<1>1. CASE r.frame.kind = "ctrl"
  BY <1>1 DEF ConfirmedWasSaved, Settled
<1>2. CASE r.frame.kind = "time"
  BY <1>2 DEF KindInv, RoundsBegun, Settled
<1>3. r.frame.kind \in {"ctrl", "time"}
  BY DEF Confirmation, Frame, Kind
<1> QED  BY <1>1, <1>2, <1>3

LEMMA EndedStep ==
  ASSUME TypeOK, PathType, ConfirmedWasSaved, KindInv, EndedInv, [PathNext]_pathVars
  PROVE  EndedInv'
<1>0. /\ client.seq \in Nat /\ ended \in Seq({"confirmed", "other", "failed"})
      /\ \A s : Settled(s) => Settled(s)'
  BY SettledStep DEF TypeOK, ClientType, Client, PathType, ResultType
<1>1. CASE StartRound \/ StartTimeRound
  <2>1. /\ proof' = {} /\ ended' = ended /\ client'.seq = client.seq + 1
        /\ client.pc = "idle" /\ client'.pc = "send"
    BY <1>1, BeginRound DEF PathType, StartRound, StartTimeRound
  <2> QED  BY <1>0, <2>1 DEF EndedInv
<1>2. CASE FinishAttempt
  <2>1. /\ client.pc = "recv" /\ client'.seq = client.seq /\ proof' = proof
        /\ client'.pc \in {"send", "idle", "exited"}
        /\ ended' = IF client'.pc = "send" THEN ended ELSE Append(ended, Outcome)
    BY <1>2 DEF FinishAttempt, EndRound, TypeOK, ClientType, Client
  <2>2. CASE client'.pc = "send"
    BY <1>0, <2>1, <2>2 DEF EndedInv
  <2>3. CASE client'.pc # "send"
    <3>1. Len(ended) + 1 = client.seq
      BY <1>0, <2>1 DEF EndedInv
    <3>2. ended' = Append(ended, Outcome)
      BY <2>1, <2>3
    <3>3. /\ Len(ended') = Len(ended) + 1 /\ ended'[Len(ended) + 1] = Outcome
          /\ DOMAIN ended' = 1 .. Len(ended) + 1 /\ DOMAIN ended = 1 .. Len(ended)
          /\ Len(ended) \in Nat /\ \A s \in DOMAIN ended : ended'[s] = ended[s]
      BY <1>0, <3>2
    <3>4. Outcome = "confirmed" => client.seq \in proof
      BY DEF Outcome
    <3>5. \A s \in DOMAIN ended' : ended'[s] = "confirmed" => Settled(s)
      BY <3>1, <3>3, <3>4 DEF EndedInv
    <3> QED  BY <1>0, <2>1, <2>3, <3>1, <3>3, <3>5 DEF EndedInv
  <2> QED  BY <2>2, <2>3
<1>3. CASE ~StartRound /\ ~StartTimeRound /\ ~FinishAttempt
  <2>1. /\ client'.seq = client.seq /\ ended' = ended
        /\ client'.pc \in {"send", "recv"} <=> client.pc \in {"send", "recv"}
    BY <1>3, RoundSteps
  <2>2. \A s \in proof' : Settled(s)
    <3>1. CASE proof' = proof \/ proof' = {}
      BY <3>1 DEF EndedInv
    <3>2. ASSUME NEW n \in Net, Receive(n) PROVE \A s \in proof' : Settled(s)
      <4>1. CASE proof' = proof
        BY <4>1 DEF EndedInv
      <4>2. ASSUME NEW c \in Conn, NEW r \in ToSet(chan[c].replies), r \in Confirmation, r.positive,
                   r.frame \in Known(c), proof' = proof \cup {r.frame.seq}
            PROVE  \A s \in proof' : Settled(s)
        BY <4>2, PositiveSettled DEF EndedInv, PathType
      <4> QED  BY <3>2, <4>1, <4>2, ReceiveLemma
    <3> QED  BY <1>3, <3>1, <3>2, ResultSteps
  <2> QED  BY <1>0, <2>1, <2>2 DEF EndedInv
<1> QED  BY <1>1, <1>2, <1>3

LEMMA EndedSaved ==
  ASSUME TypeOK, PathType, NEW c \in Conn, StoreInv(c), EndedInv
  PROVE  ConfirmedIsSaved
<1> SUFFICES ASSUME NEW s \in DOMAIN ended, ended[s] = "confirmed", Whole(s)
             PROVE  \A i \in DOMAIN content[s] :
                       content[s][i][2] \in ToSet(saved[content[s][i][1]])
  BY DEF ConfirmedIsSaved, InBank
<1>1. Settled(s)
  BY DEF EndedInv
<1>2. CASE content[s] = <<>>
  BY <1>2
<1>3. CASE s \in ToSet(applied)
  <2> TAKE i \in DOMAIN content[s]
  <2>1. s \in DOMAIN content
    <3>1. /\ ended \in Seq({"confirmed", "other", "failed"}) /\ client.seq \in Nat
          /\ content \in Seq(Seq(Value)) /\ Len(content) = client.seq
      BY DEF TypeOK, ClientType, Client, PathType, ResultType, ContentType
    <3>2. s \in 1 .. Len(ended) /\ Len(ended) \in {client.seq, client.seq - 1}
      BY <3>1 DEF EndedInv
    <3> QED  BY <3>1, <3>2
  <2>2. <<s, i>> \in Place /\ Carried(<<s, i>>) = content[s][i]
    BY <2>1, ContentPlace DEF PathType
  <2>3. PICK p \in Place : p = <<s, i>>
    BY <2>2
  <2>4. p \in SavedPlaces(c) /\ Carried(p) = content[s][i]
    <3>1. Len(content[s]) \in Nat /\ i <= Len(content[s])
      <4>1. content[s] \in Seq(Value)
        BY <2>1, ElementOfSeq DEF PathType, ContentType
      <4> QED  BY <4>1
    <3>2. i <= Kept(s)
      BY <3>1, AnnouncedLemma DEF Whole, Kept
    <3>3. p[1] = s /\ p[2] = i
      BY <2>3
    <3> QED  BY <1>3, <2>2, <2>3, <3>2, <3>3 DEF SavedPlaces, SavedAlready, Reached
  <2>5. Carried(p)[1] \in Reg
    BY <2>3, FramesLemma DEF PathType, Value
  <2> QED  BY <2>4, <2>5 DEF StoreInv, SavedExactly
<1> QED  BY <1>1, <1>2, <1>3 DEF Settled

(* ControlClient::SendCtrlData over one connection: a round that its own   *)
(* confirmation has ended is in the slave's bank with every command of it, *)
(* if its frame has no more values than it can announce.                   *)
(* NoWrap: when the numbers have wrapped since the last one saved, which   *)
(* takes thousands of rounds of time that failed, a frame that was never   *)
(* saved counts as old and is confirmed.                                   *)
THEOREM ConfirmedCommandsAreSaved ==
  ASSUME NEW net, OneConnection(net), NoWrap
  PROVE  PathSpec => []ConfirmedIsSaved
<1> DEFINE c == <<net, 1>>
<1>0. c \in Conn
  BY OneConnectionLemma
<1>1. PathInit => EndedInv
  BY DEF PathInit, Init, EndedInv
<1>2. TypeOK /\ PathType /\ LinkInv(c) /\ KindInv /\ EndedInv /\ [PathNext]_pathVars => EndedInv'
  BY EndedStep DEF LinkInv
<1>3. TypeOK /\ PathType /\ StoreInv(c) /\ EndedInv => ConfirmedIsSaved
  BY <1>0, EndedSaved
<1> HIDE DEF c
<1> QED  BY <1>1, <1>2, <1>3, PathTypeLemma, PathLinkInv, PathStoreInv, PTL DEF PathSpec, c
=============================================================================
