----------------------------- MODULE ControlLink -----------------------------
(***************************************************************************)
(* The control link between the master station (net/master/ControlClient)  *)
(* and a slave station (net/slave/ControlServer), over one or two networks. *)
(* A round of the client sends one frame on every open connection and      *)
(* reads their confirmations; it is repeated until one is positive.  Each  *)
(* connection has a service thread of its own in the slave station, and    *)
(* they share the number of the last frame saved, in MasterConfig.         *)
(*                                                                         *)
(* Frames carry the wire number; seq, the number of the round, identifies  *)
(* what a frame carries and is not visible to the program.  Sending on all *)
(* connections is one action: a thread that reads earlier frames cannot    *)
(* tell.  Frames that arrive together are read together, and such a read   *)
(* has the first frame's header and fails the length check of the ASDU.    *)
(***************************************************************************)
EXTENDS DataNumbers, Sequences, FiniteSets, SequencesExt

CONSTANTS Net,          \* the networks in use, a subset of {"A", "B"}
          MaxOpen,      \* bound on the connections opened on a network
          FailNumber,   \* m_failNumber
          MaxSeq        \* bound on the rounds

ASSUME ControlLinkAssumption ==
    /\ Net \subseteq {"A", "B"} /\ Net # {}
    /\ MaxOpen \in Nat \ {0} /\ FailNumber \in Nat \ {0} /\ MaxSeq \in Nat
    /\ Modulus > 1

Conn == Net \X (1 .. MaxOpen)
Kind == {"ctrl", "time"}
Frame == [seq : 1 .. MaxSeq, kind : Kind, number : Number]

VARIABLES client,      \* ControlClient: pc, kind, seq, number, attempts, result, toRead
          opens,       \* connections opened so far on each network
          chan,        \* each connection: its state, frames and confirmations under way
          server,      \* each ControlServer: pc, joined, frame, intact
          dataNumber,  \* m_masterConfig->dataNumber
          applied,     \* history: the rounds whose commands were saved, in order
          stale        \* history: a round ended by a confirmation of another round

vars == <<client, opens, chan, server, dataNumber, applied, stale>>

Current(n) == <<n, opens[n]>>
OpenNets == {n \in Net : opens[n] > 0 /\ chan[Current(n)].state # "closed"}
IsTcpOpened == OpenNets # {}

NewChan == [state |-> "up", frames |-> <<>>, replies |-> <<>>]
NewServer == [pc |-> "recv", joined |-> FALSE, frames |-> <<>>]

(* TcpClient::Connect on the networks in nets; the peer starts a service.  *)
Connect(nets) ==
    /\ \A n \in nets : opens[n] < MaxOpen
    /\ opens' = [n \in Net |-> IF n \in nets THEN opens[n] + 1 ELSE opens[n]]
    /\ chan' = [c \in Conn |-> IF c[1] \in nets /\ c[2] = opens'[c[1]] THEN NewChan ELSE chan[c]]
    /\ server' = [c \in Conn |->
                    IF c[1] \in nets /\ c[2] = opens'[c[1]] THEN NewServer ELSE server[c]]

Closed(channel) == [channel EXCEPT !.state = "closed", !.replies = <<>>]
AllRead(channel) == [channel EXCEPT !.replies = <<>>]

-----------------------------------------------------------------------------
(* A new client: UdpManangerClient::RecvInfo starts one when the slave     *)
(* announced itself and has none.  m_dataNumber starts at 1.               *)
Init ==
    /\ client = [pc |-> "exited", kind |-> "ctrl", seq |-> 0, number |-> 1, attempts |-> 0,
                 result |-> [n \in {"A", "B"} |-> FALSE], toRead |-> {}]
    /\ opens = [n \in Net |-> 0]
    /\ chan = [c \in Conn |-> [NewChan EXCEPT !.state = "closed"]]
    /\ server = [c \in Conn |-> [NewServer EXCEPT !.pc = "gone"]]
    /\ dataNumber = 0
    /\ applied = <<>>
    /\ stale = FALSE

StartClient ==
    /\ client.pc = "exited"
    /\ \E nets \in SUBSET Net : nets # {} /\ Connect(nets)
    /\ client' = [client EXCEPT !.pc = "idle", !.number = 1]
    /\ UNCHANGED <<dataNumber, applied, stale>>

(* SendCtrlData with data taken from the register bank, or SendTimeSync:   *)
(* PackHead numbers the frame.  The results of the two networks start as   *)
(* failed for commands and as successful for the time.                     *)
NewRound(kind) ==
    /\ client.pc = "idle"
    /\ client.seq < MaxSeq
    /\ client' = [client EXCEPT !.pc = "send", !.kind = kind, !.seq = @ + 1,
                                !.number = Next16(@), !.attempts = 0,
                                !.result = [n \in {"A", "B"} |-> kind = "time"]]

SendCtrlData ==
    /\ IsTcpOpened
    /\ NewRound("ctrl")
    /\ UNCHANGED <<opens, chan, server, dataNumber, applied, stale>>

(* Every m_timeSync seconds, after another try on the closed networks.     *)
SendTimeSync ==
    /\ IsTcpOpened
    /\ NewRound("time")
    /\ \E nets \in SUBSET (Net \ OpenNets) : Connect(nets)
    /\ UNCHANGED <<dataNumber, applied, stale>>

(* SendFlush on every open connection; one that fails is closed.           *)
SendFrames ==
    /\ client.pc = "send"
    /\ chan' = [c \in Conn |->
                  IF c[1] \notin OpenNets \/ c # Current(c[1]) THEN chan[c]
                  ELSE IF chan[c].state = "broken" THEN Closed(chan[c])
                  ELSE [chan[c] EXCEPT !.frames = Append(@, [seq |-> client.seq,
                                                   kind |-> client.kind, number |-> client.number])]]
    /\ client' = [client EXCEPT !.pc = "recv",
                     !.toRead = {n \in OpenNets : chan[Current(n)].state = "up"}]
    /\ UNCHANGED <<opens, server, dataNumber, applied, stale>>

(* RecvInfo, first on network A: it reads all that arrives until 500 ms    *)
(* pass without more, and judges the first confirmation in it.             *)
Confirmed(replies) == replies # <<>> /\ Head(replies).positive

RecvInfo(n) ==
    LET c == Current(n) IN
    /\ client.pc = "recv"
    /\ n \in client.toRead /\ (n = "B" => "A" \notin client.toRead)
    /\ chan' = [chan EXCEPT ![c] = IF @.state = "broken" THEN Closed(@)
                                   ELSE AllRead(@)]
    /\ client' = [client EXCEPT
                    !.toRead = @ \ {n},
                    !.result[n] = chan[c].state = "up" /\ Confirmed(chan[c].replies)]
    /\ stale' = (stale \/ /\ client'.result[n]
                          /\ Head(chan[c].replies).frame.seq # client.seq)
    /\ UNCHANGED <<opens, server, dataNumber, applied>>

(* One success is enough.  A round that fails to the end loses what it     *)
(* carried; if that was a command, the client exits.                       *)
Success == \E n \in {"A", "B"} : client.result[n]
Retry == ~Success /\ IsTcpOpened /\ client.attempts + 1 < FailNumber

EndRound_CountsSent ==  \* mutant: only the attempts that were sent are counted
    /\ client.pc = "recv" /\ client.toRead = {}
    /\ \/ /\ ~Success /\ (Retry \/ ~IsTcpOpened)
          /\ client' = [client EXCEPT !.pc = "send", !.attempts = IF IsTcpOpened THEN @ + 1 ELSE @]
       \/ /\ Success \/ (IsTcpOpened /\ ~Retry)
          /\ client' = [client EXCEPT !.pc = "idle"]
    /\ UNCHANGED <<opens, chan, server, dataNumber, applied, stale>>

EndRound ==
    /\ client.pc = "recv" /\ client.toRead = {}
    /\ \/ /\ Retry
          /\ client' = [client EXCEPT !.pc = "send", !.attempts = @ + 1]
          /\ UNCHANGED chan
       \/ /\ ~Retry /\ (Success \/ client.kind = "time")
          /\ client' = [client EXCEPT !.pc = "idle"]
          /\ UNCHANGED chan
       \/ /\ ~Retry /\ ~Success /\ client.kind = "ctrl"
          /\ client' = [client EXCEPT !.pc = "exited"]
          /\ chan' = [c \in Conn |-> Closed(chan[c])]
    /\ UNCHANGED <<opens, server, dataNumber, applied, stale>>

Exit ==
    /\ client.pc = "idle" /\ ~IsTcpOpened
    /\ client' = [client EXCEPT !.pc = "exited"]
    /\ UNCHANGED <<opens, chan, server, dataNumber, applied, stale>>

-----------------------------------------------------------------------------
(* ControlServer::RecvInfo: a read takes what has arrived, one frame or    *)
(* several.  The first read of a thread finds its MasterConfig and resets  *)
(* the number in it.                                                       *)
Recv(c) ==
    /\ server[c].pc = "recv"
    /\ \E k \in 1 .. Len(chan[c].frames) :
          /\ server' = [server EXCEPT ![c] = [pc |-> "compare", joined |-> TRUE,
                                              frames |-> SubSeq(chan[c].frames, 1, k)]]
          /\ chan' = [chan EXCEPT ![c].frames = SubSeq(@, k + 1, Len(@))]
    /\ dataNumber' = IF server[c].joined THEN dataNumber ELSE 0
    /\ UNCHANGED <<client, opens, applied, stale>>

(* The mutex is a member of the service: no other thread ever holds it.    *)
Lock(c) == TRUE

Got(c) == Head(server[c].frames)
Intact(c) == Len(server[c].frames) = 1

Reply_AlwaysPositive(c, positive) ==  \* mutant: SendInfo(true, head)
    /\ chan' = [chan EXCEPT ![c].replies =
                  IF chan[c].state = "up" THEN Append(@, [frame |-> Got(c), positive |-> TRUE])
                  ELSE @]
    /\ server' = [server EXCEPT ![c].pc = "recv", ![c].frames = <<>>]

Reply(c, positive) ==
    /\ chan' = [chan EXCEPT ![c].replies =
                  IF chan[c].state = "up" THEN Append(@, [frame |-> Got(c), positive |-> positive])
                  ELSE @]
    /\ server' = [server EXCEPT ![c].pc = "recv", ![c].frames = <<>>]

(* An old number is confirmed at once; a new one that came with others     *)
(* cannot be unpacked and is refused.                                      *)
Compare(c) ==
    /\ server[c].pc = "compare"
    /\ Lock(c)
    /\ LET isNew == DataComparison(Got(c).number, dataNumber) IN
       \/ /\ isNew /\ Intact(c)
          /\ server' = [server EXCEPT ![c].pc = "save"]
          /\ UNCHANGED chan
       \/ /\ ~(isNew /\ Intact(c))
          /\ Reply(c, ~isNew)
    /\ UNCHANGED <<client, opens, dataNumber, applied, stale>>

(* SaveCtrlData or SaveTimesync ...                                        *)
Save(c) ==
    /\ server[c].pc = "save"
    /\ applied' = IF Got(c).kind = "ctrl" THEN Append(applied, Got(c).seq) ELSE applied
    /\ server' = [server EXCEPT ![c].pc = "number"]
    /\ UNCHANGED <<client, opens, chan, dataNumber, stale>>

(* ... then the number, and SendInfo.                                      *)
Confirm_NoNumber(c) ==  \* mutant: the number is not stored
    /\ server[c].pc = "number"
    /\ Reply(c, TRUE)
    /\ UNCHANGED <<client, opens, dataNumber, applied, stale>>

Confirm(c) ==
    /\ server[c].pc = "number"
    /\ dataNumber' = Got(c).number
    /\ Reply(c, TRUE)
    /\ UNCHANGED <<client, opens, applied, stale>>

(* The end of the stream: Cancel() ends the thread without the clean-up    *)
(* at the end of Run.                                                      *)
EndService(c) ==
    /\ server[c].pc = "recv"
    /\ chan[c].state # "up" /\ chan[c].frames = <<>>
    /\ server' = [server EXCEPT ![c].pc = "gone"]
    /\ UNCHANGED <<client, opens, chan, dataNumber, applied, stale>>

(* The network: a connection breaks, and what is under way may be lost.    *)
Break(c) ==
    /\ chan[c].state = "up"
    /\ \E k \in 0 .. Len(chan[c].frames) :
          chan' = [chan EXCEPT ![c] = [state |-> "broken", frames |-> SubSeq(@.frames, 1, k),
                                       replies |-> <<>>]]
    /\ UNCHANGED <<client, opens, server, dataNumber, applied, stale>>

ClientStep == StartClient \/ SendCtrlData \/ SendTimeSync \/ SendFrames \/ EndRound \/ Exit
                  \/ \E n \in Net : RecvInfo(n)
ServerStep(c) == Recv(c) \/ Compare(c) \/ Save(c) \/ Confirm(c) \/ EndService(c)

Next == ClientStep \/ \E c \in Conn : ServerStep(c) \/ Break(c)

(* Both programs keep running; every wait of the client has a timeout.     *)
Fairness == WF_vars(ClientStep) /\ \A c \in Conn : WF_vars(ServerStep(c))

Spec == Init /\ [][Next]_vars
FairSpec == Spec /\ Fairness

-----------------------------------------------------------------------------
Client == [pc : {"exited", "idle", "send", "recv"}, kind : Kind, seq : 0 .. MaxSeq,
           number : Number, attempts : 0 .. FailNumber - 1,
           result : [{"A", "B"} -> BOOLEAN], toRead : SUBSET Net]
Confirmation == [frame : Frame, positive : BOOLEAN]
Channel == [state : {"up", "broken", "closed"}, frames : Seq(Frame), replies : Seq(Confirmation)]
Service == [pc : {"gone", "recv", "compare", "save", "number"},
            joined : BOOLEAN, frames : Seq(Frame)]

ClientType ==
    /\ client \in Client
    /\ client.pc \in {"send", "recv"} => client.seq > 0
    /\ \A n \in client.toRead : opens[n] > 0
LinkType == opens \in [Net -> 0 .. MaxOpen] /\ chan \in [Conn -> Channel]
ServiceType ==
    /\ server \in [Conn -> Service]
    /\ \A c \in Conn : server[c].pc \in {"compare", "save", "number"} => server[c].frames # <<>>
    /\ \A c \in Conn : server[c].pc \in {"save", "number"} => Intact(c)
HistoryType == dataNumber \in Number /\ applied \in Seq(1 .. MaxSeq) /\ stale \in BOOLEAN

TypeOK == ClientType /\ LinkType /\ ServiceType /\ HistoryType

(* ControlServer.cpp:208-209, "has this data been received already", "lock *)
(* so that the other thread does not compare numbers as well": a command   *)
(* is saved once, and never after a later one.                             *)
AppliedOnceInOrder ==
    \A i, j \in 1 .. Len(applied) : i < j => applied[i] < applied[j]

(* ControlServer.cpp:208, "has this data been received already": whatever  *)
(* the server confirms, as new or as already received, it has saved.       *)
ConfirmedWasSaved ==
    \A c \in Conn : \A r \in ToSet(chan[c].replies) :
        r.positive /\ r.frame.kind = "ctrl" => r.frame.seq \in ToSet(applied)

(* A round of the client ends: it succeeds, or it is given up.             *)
RoundEnds == client.pc = "send" ~> client.pc \in {"idle", "exited"}

(* Iec103.h:190, "for each new round of send/confirm the master inverts    *)
(* FCB": a confirmation of an earlier round never ends a later one.  It    *)
(* does not hold: README, Behaviour that falls short.                      *)
FreshConfirm == ~stale
==============================================================================
