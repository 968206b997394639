------------------------------ MODULE Discovery ------------------------------
(***************************************************************************)
(* How a master station finds its slave stations and keeps a control       *)
(* client for each: net/master/UdpManangerClient broadcasts and starts a   *)
(* ControlClient for a slave that answers, net/slave/UdpManagerServer      *)
(* answers, and net/master/UploadServer marks the slaves it hears from.    *)
(* The entries of SlaveConfig are shared by these threads without a lock.  *)
(*                                                                         *)
(* A slave station is its place in the master's list.  UDP messages may be *)
(* lost or come twice.  The slaves in Filling run a release whose receive  *)
(* fills in the sender's address; they are not this program, and make the  *)
(* answers of which this program's master is shown to take care.           *)
(***************************************************************************)
EXTENDS Naturals, FiniteSets

CONSTANTS N,        \* the number of slave stations
          Filling,  \* the slave stations whose answers reach the master
          Slots     \* bound on the ControlClient threads of one slave at a time

ASSUME DiscoveryAssumption == /\ N \in Nat \ {0} /\ Slots \in Nat \ {0}
                              /\ Filling \subseteq 1 .. N

Slave == 1 .. N
Client == Slave \X (1 .. Slots)

VARIABLES flag, isRun,   \* of each SlaveConfig
          client,        \* each ControlClient thread
          ask, reply,    \* broadcasts and answers under way
          known,         \* the slaves that have the master in their masterConfigs
          missing        \* history: the slaves whose client could not be created

vars == <<flag, isRun, client, ask, reply, known, missing>>

Of(s) == {c \in Client : c[1] = s}
IsConnected(c) == client[c] \in {"opening", "open"}
HasClient(s) == \E c \in Of(s) : client[c] \in {"opening", "open", "closed"}

Init ==
    /\ flag = [s \in Slave |-> FALSE]
    /\ isRun = [s \in Slave |-> FALSE]
    /\ client = [c \in Client |-> "none"]
    /\ ask = {} /\ reply = {} /\ known = {} /\ missing = {}

-----------------------------------------------------------------------------
(* The master's timer: SendInfo on the networks in use, to every slave the *)
(* network still reaches.                                                  *)
SendInfo(reached) ==
    /\ ask' = ask \cup reached
    /\ UNCHANGED <<flag, isRun, client, reply, known, missing>>

(* UdpManagerServer::RecvInfo: the master is remembered once.  isRun of    *)
(* its entry is never set, so every broadcast is answered; the answer goes *)
(* to addr, which this program's timed Recvfrom has not filled in.         *)
Answers(s) == s \in Filling

SlaveRecvInfo(s) ==
    /\ s \in ask
    /\ ask' \in {ask, ask \ {s}}
    /\ known' = known \cup {s}
    /\ reply' = IF Answers(s) THEN reply \cup {s} ELSE reply
    /\ UNCHANGED <<flag, isRun, client, missing>>

Lose(s) ==
    /\ s \in reply
    /\ reply' = reply \ {s}
    /\ UNCHANGED <<flag, isRun, client, ask, known, missing>>

(* UdpManangerClient::RecvInfo: a slave without flag gets a new client; if *)
(* its thread cannot be created, flag stays.                               *)
StartClient(s) ==
    /\ flag' = [flag EXCEPT ![s] = TRUE]
    /\ isRun' = [isRun EXCEPT ![s] = TRUE]
    /\ \/ \E c \in Of(s) : /\ client[c] = "none"
                           /\ client' = [client EXCEPT ![c] = "opening"]
          /\ UNCHANGED missing
       \/ missing' = missing \cup {s} /\ UNCHANGED client

RecvInfo_IsRun(s) ==  \* mutant: isRun is tested as well
    /\ s \in reply
    /\ reply' \in {reply, reply \ {s}}
    /\ IF ~flag[s] /\ ~isRun[s] THEN StartClient(s)
                               ELSE UNCHANGED <<flag, isRun, client, missing>>
    /\ UNCHANGED <<ask, known>>

RecvInfo(s) ==
    /\ s \in reply
    /\ reply' \in {reply, reply \ {s}}
    /\ IF ~flag[s] THEN StartClient(s) ELSE UNCHANGED <<flag, isRun, client, missing>>
    /\ UNCHANGED <<ask, known>>

-----------------------------------------------------------------------------
(* ControlClient::Run: OpenedTcp, its loop until no connection is open,    *)
(* CloseTcp, flag = false, isRun = false.                                  *)
Goto(c, there) == client' = [client EXCEPT ![c] = there]

OpenedTcp(c) ==
    /\ client[c] = "opening"
    /\ \E there \in {"open", "closed"} : Goto(c, there)
    /\ UNCHANGED <<flag, isRun, ask, reply, known, missing>>

CloseTcp(c) ==
    /\ client[c] = "open"
    /\ Goto(c, "closed")
    /\ UNCHANGED <<flag, isRun, ask, reply, known, missing>>

ClearFlag_Forgotten(c) ==  \* mutant: flag keeps its value
    /\ client[c] = "closed"
    /\ Goto(c, "unflagged")
    /\ UNCHANGED <<flag, isRun, ask, reply, known, missing>>

ClearFlag_First(c) ==  \* mutant: flag = false before CloseTcp
    /\ client[c] \in {"open", "closed"}
    /\ flag[c[1]] /\ flag' = [flag EXCEPT ![c[1]] = FALSE]
    /\ IF client[c] = "closed" THEN Goto(c, "unflagged") ELSE UNCHANGED client
    /\ UNCHANGED <<isRun, ask, reply, known, missing>>

ClearFlag(c) ==
    /\ client[c] = "closed"
    /\ flag' = [flag EXCEPT ![c[1]] = FALSE]
    /\ Goto(c, "unflagged")
    /\ UNCHANGED <<isRun, ask, reply, known, missing>>

ClearIsRun(c) ==
    /\ client[c] = "unflagged"
    /\ isRun' = [isRun EXCEPT ![c[1]] = FALSE]
    /\ Goto(c, "none")
    /\ UNCHANGED <<flag, ask, reply, known, missing>>

(* UploadServer::RecvInfo, a frame of the slave station s: every entry up  *)
(* to that of s is marked before it is compared.                           *)
RecvUpload(s) ==
    /\ isRun' = [i \in Slave |-> i <= s \/ isRun[i]]
    /\ UNCHANGED <<flag, client, ask, reply, known, missing>>

Run(c) == OpenedTcp(c) \/ CloseTcp(c) \/ ClearFlag(c) \/ ClearIsRun(c)

Next == \/ \E reached \in SUBSET Slave : SendInfo(reached)
        \/ \E s \in Slave : \/ SlaveRecvInfo(s) \/ RecvInfo(s) \/ Lose(s) \/ RecvUpload(s)
        \/ \E c \in Client : Run(c)

(* The threads run; the network does not lose every broadcast, nor every   *)
(* answer.  A thread's connection need not ever be lost.                   *)
Fairness ==
    /\ \A s \in Slave : /\ WF_vars(\E reached \in SUBSET Slave : s \in reached /\ SendInfo(reached))
                        /\ WF_vars(SlaveRecvInfo(s)) /\ SF_vars(RecvInfo(s))
    /\ \A c \in Client : WF_vars(OpenedTcp(c) \/ ClearFlag(c) \/ ClearIsRun(c))

Spec == Init /\ [][Next]_vars
FairSpec == Spec /\ Fairness

-----------------------------------------------------------------------------
TypeOK ==
    /\ flag \in [Slave -> BOOLEAN] /\ isRun \in [Slave -> BOOLEAN]
    /\ client \in [Client -> {"none", "opening", "open", "closed", "unflagged"}]
    /\ ask \subseteq Slave /\ reply \subseteq known /\ known \subseteq Slave
    /\ missing \subseteq {s \in Slave : flag[s]}

(* A slave station never has two clients with connections, so its commands *)
(* are never sent by two threads: flag is set before the client starts and *)
(* cleared after its CloseTcp, without any lock (UdpManangerClient.cpp:348, *)
(* ControlClient.cpp:337).                                                 *)
OneConnection ==
    \A s \in Slave : Cardinality({c \in Of(s) : IsConnected(c)}) <= 1

(* flag means that there is a client for the slave, or that its thread     *)
(* could not be created.                                                   *)
FlagHasClient == \A s \in Slave : flag[s] <=> HasClient(s) \/ s \in missing

(* A slave station that answers gets a client again whenever it has none   *)
(* (ControlClient's exit after a lost connection, then the next answer).   *)
Restarts(slaves) == \A s \in slaves : ~flag[s] ~> HasClient(s) \/ s \in missing

FillingRestarts == Restarts(Filling)

(* UdpManagerServer.cpp:262, "if there is no link yet, return the slave's  *)
(* information": a slave that the broadcast reaches gets its client.  It    *)
(* does not hold: README, Behaviour that falls short.                      *)
OwnIsFound == Restarts(Slave \ Filling)

(* Iec103.h:61, isRun: the master station has a link with the slave.  It   *)
(* does not hold: README, Behaviour that falls short.                      *)
IsRunHasClient ==
    \A s \in Slave : isRun[s] => s \in missing \/ \E c \in Of(s) : client[c] # "none"
==============================================================================
