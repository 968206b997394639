------------------------------- MODULE TcpLink -------------------------------
(***************************************************************************)
(* One Modbus TCP device and the two threads that share its TcpClient: the *)
(* acquisition thread (SocketThread), which also opens the connection, and *)
(* the control thread (SocketCtrlThread).  Both talk to the device only    *)
(* through Socket::TxRxMsg.                                                *)
(*                                                                         *)
(* One action is one step between two points at which the other thread or  *)
(* the network can interfere: reading m_socket, taking the mutex, a system *)
(* call.  The check of IsOpened in Socket::Close and the ::close after it  *)
(* are one step.                                                           *)
(*                                                                         *)
(* Requests and replies are opaque: a reply carries the number of the      *)
(* request it answers, which the real frames do not (ModbusTcpClient sends *)
(* transaction identifier 0).  A reply is as long as was asked for.        *)
(***************************************************************************)
EXTENDS Naturals, Sequences, FiniteSets, SequencesExt

CONSTANTS Conns,      \* the connections the kernel can hand out (bounds leaks)
          Requests,   \* request numbers, reused (bounds what is outstanding)
          Closed      \* m_socket = INVALID_HANDLE

ASSUME TcpLinkAssumption == Closed \notin Conns

Threads == {"io", "ctrl"}
NoRequest == 0

VARIABLES socket,    \* m_socket
          conn,      \* kernel state of each connection
          pending,   \* requests on their way to the device, per connection
          arrived,   \* replies in the receive buffer, per connection
          lock,      \* m_mutex: its holder or "free"
          at,        \* where each thread is
          request,   \* the request of each thread's transaction
          silent,    \* the device answers nothing
          killed,    \* SIGPIPE has ended the process
          gaveUp     \* history: connections on which a transaction gave up waiting

tcpVars == <<socket, conn, pending, arrived, lock, at, request, silent, killed, gaveUp>>
device == <<pending, arrived, silent>>

IsOpened == socket # Closed

(* What a system call on m_socket meets; -1 is as good as a closed one.    *)
SocketState == IF IsOpened THEN conn[socket] ELSE "free"

(* Numbers still in use by a thread, the network or a receive buffer.      *)
InUse == {request[t] : t \in Threads} \cup
         UNION {ToSet(pending[k]) \cup ToSet(arrived[k]) : k \in Conns}

Goto(t, there) == at' = [at EXCEPT ![t] = there]

-----------------------------------------------------------------------------
TcpInit ==
    /\ socket = Closed
    /\ conn = [k \in Conns |-> "free"]
    /\ pending = [k \in Conns |-> <<>>]
    /\ arrived = [k \in Conns |-> <<>>]
    /\ lock = "free"
    /\ at = [t \in Threads |-> "loop"]
    /\ request = [t \in Threads |-> NoRequest]
    /\ silent = FALSE
    /\ killed = FALSE
    /\ gaveUp = {}

(* TcpClient::Connect, first Open: socket() makes IsOpened true before     *)
(* connect() is called.  With no descriptor left Connect fails.            *)
Open ==
    /\ at["io"] = "loop" /\ ~IsOpened
    /\ \E k \in Conns :
          /\ conn[k] = "free"
          /\ socket' = k
          /\ conn' = [conn EXCEPT ![k] = "created"]
    /\ Goto("io", "opened")
    /\ UNCHANGED <<device, lock, request, killed, gaveUp>>

(* ... then connect().  If the other thread closed the socket meanwhile,   *)
(* Socket::Connect finds it closed and fails.                              *)
Connect ==
    /\ at["io"] = "opened"
    /\ \/ /\ SocketState = "created"
          /\ \/ conn' = [conn EXCEPT ![socket] = "up"] /\ Goto("io", "loop")
             \/ conn' = conn /\ Goto("io", "close")
       \/ /\ SocketState # "created"
          /\ conn' = conn /\ Goto("io", "close")
    /\ UNCHANGED <<socket, device, lock, request, killed, gaveUp>>

(* TxRxMsg up to Lock: the socket is checked before the mutex is taken.    *)
Begin(t) ==
    /\ at[t] = "loop" /\ IsOpened
    /\ Goto(t, "want")
    /\ UNCHANGED <<socket, conn, device, lock, request, killed, gaveUp>>

Acquire_NoMutex(t) ==  \* mutant: no Lock
    /\ at[t] = "want"
    /\ lock' = t
    /\ Goto(t, "send")
    /\ UNCHANGED <<socket, conn, device, request, killed, gaveUp>>

Acquire(t) ==
    /\ at[t] = "want" /\ lock = "free"
    /\ lock' = t
    /\ Goto(t, "send")
    /\ UNCHANGED <<socket, conn, device, request, killed, gaveUp>>

(* tcflush has no effect on a socket: the receive buffer keeps what it has.*)
Flush == UNCHANGED arrived

(* SendFlush.  On a closed descriptor it sends nothing and reports 0, which *)
(* TxRxMsg does not take for an error.  What the peer closed it answers    *)
(* with a reset, which the next call reports; send() on a socket that is   *)
(* not connected, or whose reset was already reported, raises SIGPIPE,     *)
(* which the process does not handle.  A request for which no number is    *)
(* left is lost on its way to the device.                                  *)
Send(t) ==
    /\ at[t] = "send"
    /\ Flush
    /\ \/ /\ SocketState = "up"
          /\ \/ \E r \in Requests \ InUse :
                   /\ request' = [request EXCEPT ![t] = r]
                   /\ pending' = [pending EXCEPT ![socket] = Append(@, r)]
             \/ /\ Requests \subseteq InUse
                /\ UNCHANGED <<request, pending>>
          /\ Goto(t, "recv")
          /\ UNCHANGED <<lock, killed>>
          /\ UNCHANGED conn
       \/ /\ SocketState = "closed"
          /\ conn' = [conn EXCEPT ![socket] = "reset"]
          /\ Goto(t, "recv")
          /\ UNCHANGED <<pending, request, lock, killed>>
       \/ /\ SocketState = "reset"
          /\ conn' = [conn EXCEPT ![socket] = "dead"]
          /\ lock' = "free"
          /\ Goto(t, "close")
          /\ UNCHANGED <<pending, request, killed>>
       \/ /\ SocketState \in {"created", "dead"}
          /\ killed' = TRUE
          /\ UNCHANGED <<conn, pending, request, lock, at>>
       \/ /\ SocketState = "free"
          /\ Goto(t, "recv")
          /\ UNCHANGED <<conn, pending, request, lock, killed>>
    /\ UNCHANGED <<socket, silent, gaveUp>>

EndTransaction(t, there) ==
    /\ lock' = "free"
    /\ request' = [request EXCEPT ![t] = NoRequest]
    /\ Goto(t, there)

Readable == SocketState # "free" /\ arrived[socket] # <<>>

(* Recv returns len bytes: ERR_OK.  m_socket is read again here.           *)
RecvReply(t) ==
    /\ at[t] = "recv" /\ Readable
    /\ arrived' = [arrived EXCEPT ![socket] = Tail(@)]
    /\ EndTransaction(t, "loop")
    /\ UNCHANGED <<socket, conn, pending, silent, killed, gaveUp>>

(* recv() fails, or reports the end of the stream, which Socket::Recv      *)
(* turns into an error.                                                    *)
RecvFails == ~Readable /\ SocketState \in {"created", "closed", "reset", "dead"}

(* 400 ms without data, or no socket to wait on: fewer bytes than asked    *)
(* for, ERR_INV_RESP, and the connection is kept.                          *)
RecvTimeout_KeepsLock(t) ==  \* mutant: returns without Unlock
    /\ at[t] = "recv" /\ ~Readable /\ ~RecvFails
    /\ request' = [request EXCEPT ![t] = NoRequest]
    /\ Goto(t, "loop")
    /\ UNCHANGED <<socket, conn, device, lock, killed, gaveUp>>

RecvTimeout(t) ==
    /\ at[t] = "recv" /\ ~Readable /\ ~RecvFails
    /\ gaveUp' = IF IsOpened THEN gaveUp \cup {socket} ELSE gaveUp
    /\ EndTransaction(t, "loop")
    /\ UNCHANGED <<socket, conn, device, killed>>

(* A failed recv(): ERR_READ and Close.                                    *)
RecvError(t) ==
    /\ at[t] = "recv" /\ RecvFails
    /\ conn' = [conn EXCEPT ![socket] = IF @ = "reset" THEN "dead" ELSE @]
    /\ EndTransaction(t, "close")
    /\ UNCHANGED <<socket, device, killed, gaveUp>>

(* Socket::Close after Unlock: not under the mutex, and in two steps.      *)
CloseDescriptor(t) ==
    /\ at[t] = "close"
    /\ \/ /\ ~IsOpened
          /\ Goto(t, "loop")
          /\ UNCHANGED <<conn, pending, arrived, gaveUp>>
       \/ /\ IsOpened
          /\ conn' = [conn EXCEPT ![socket] = "free"]
          /\ pending' = [pending EXCEPT ![socket] = <<>>]
          /\ arrived' = [arrived EXCEPT ![socket] = <<>>]
          /\ gaveUp' = gaveUp \ {socket}
          /\ Goto(t, "invalidate")
    /\ UNCHANGED <<socket, lock, request, silent, killed>>

Invalidate_Forgotten(t) ==  \* mutant: m_socket keeps the closed descriptor
    /\ at[t] = "invalidate"
    /\ Goto(t, "loop")
    /\ UNCHANGED <<socket, conn, device, lock, request, killed, gaveUp>>

Invalidate(t) ==
    /\ at[t] = "invalidate"
    /\ socket' = Closed
    /\ Goto(t, "loop")
    /\ UNCHANGED <<conn, device, lock, request, killed, gaveUp>>

-----------------------------------------------------------------------------
(* The device and the network: external.                                   *)
Answer(k) ==
    /\ ~silent
    /\ conn[k] = "up" /\ pending[k] # <<>>
    /\ pending' = [pending EXCEPT ![k] = Tail(@)]
    /\ arrived' = [arrived EXCEPT ![k] = Append(@, Head(pending[k]))]
    /\ UNCHANGED <<socket, conn, lock, at, request, silent, killed, gaveUp>>

Ignore(k) ==
    /\ silent
    /\ pending[k] # <<>>
    /\ pending' = [pending EXCEPT ![k] = Tail(@)]
    /\ UNCHANGED <<socket, conn, arrived, lock, at, request, silent, killed, gaveUp>>

PeerEnds(k) ==
    /\ conn[k] = "up"
    /\ \E end \in {"closed", "reset"} : conn' = [conn EXCEPT ![k] = end]
    /\ pending' = [pending EXCEPT ![k] = <<>>]
    /\ UNCHANGED <<socket, arrived, lock, at, request, silent, killed, gaveUp>>

FallSilent ==
    /\ ~silent
    /\ silent' = TRUE
    /\ UNCHANGED <<socket, conn, pending, arrived, lock, at, request, killed, gaveUp>>

TransactionStep(t) ==
    Begin(t) \/ Acquire(t) \/ Send(t) \/ RecvReply(t) \/ RecvTimeout(t) \/ RecvError(t)
        \/ CloseDescriptor(t) \/ Invalidate(t)

Network == FallSilent \/ \E k \in Conns : Answer(k) \/ Ignore(k) \/ PeerEnds(k)

TcpNext == ~killed /\ (Open \/ Connect \/ Network \/ \E t \in Threads : TransactionStep(t))

(* Each thread keeps running (it is never stopped here), every wait in it  *)
(* has a timeout, and a free mutex is granted to one of the waiters.  What *)
(* the network does is never assumed, but data in transit moves on.        *)
TcpFairness ==
    /\ WF_tcpVars(~killed /\ (Open \/ Connect))
    /\ \A t \in Threads : WF_tcpVars(~killed /\ TransactionStep(t))
    /\ \A k \in Conns : WF_tcpVars(~killed /\ (Answer(k) \/ Ignore(k)))

TcpSpec == TcpInit /\ [][TcpNext]_tcpVars
TcpFairSpec == TcpSpec /\ TcpFairness

-----------------------------------------------------------------------------
(* Until a transaction times out on a connection, every transaction of     *)
(* both threads reads the reply to its own request there, although replies *)
(* carry nothing that identifies them and the other thread may close the   *)
(* connection and open the next one under a running transaction.           *)
PairedUntilTimeout ==
    \A t \in Threads :
        at[t] = "recv" /\ Readable /\ socket \notin gaveUp => Head(arrived[socket]) = request[t]

(* Every transaction ends and frees the mutex, whatever device, network    *)
(* and the other thread do.                                                *)
LockReleased == \A t \in Threads : lock = t ~> (lock # t \/ killed)

(* A connection that the peer closed or reset is given up, so that         *)
(* SocketThread can open a new one.                                        *)
EndedIsDropped ==
    \A k \in Conns : (socket = k /\ conn[k] \in {"closed", "reset", "dead"}) ~> (socket # k \/ killed)

(* Socket.cpp:775, "clear the network port buffer" before each request:    *)
(* the reply a transaction reads is the one to its own request.            *)
(* It does not hold: README, Behaviour that falls short.                   *)
OwnReply ==
    \A t \in Threads : at[t] = "recv" /\ Readable => Head(arrived[socket]) = request[t]

(* SocketThread.cpp:201-203: after more than 16 unanswered reads the       *)
(* connection has a problem and is closed.  It does not hold: README,      *)
(* Behaviour that falls short.                                             *)
SilentIsDropped ==
    \A k \in Conns : (silent /\ socket = k) ~> (socket # k \/ killed)
==============================================================================
