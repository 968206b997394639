------------------------- MODULE SocketThreadsProofs -------------------------
(***************************************************************************)
(* Theorems of SocketThreads and TcpLink: how the threads of the TCP       *)
(* devices come and go, and what the two threads of one address do on      *)
(* their connection.                                                       *)
(*                                                                         *)
(* SocketThreads, for any number of addresses and every way in which       *)
(* pthread_create fails.  The argument: while OpenThreads runs, only the   *)
(* pair it works on is neither whole nor gone, and what it deletes is not  *)
(* used, as its thread was never created or has ended; CloseThreads        *)
(* deletes the object of a thread that has ended, or of one it did not     *)
(* find registered, which is what the theorem leaves out.                  *)
(*                                                                         *)
(* TcpLink, for any number of descriptors and request numbers and without  *)
(* fairness.  The argument: the mutex keeps the other thread off the       *)
(* connection from a request to its reply, so there is never more on it    *)
(* than one of the two, and a new connection starts with neither.          *)
(***************************************************************************)
EXTENDS SocketThreads, TcpLink, FiniteSetTheorems, SequenceTheorems, TLAPS

Io(a) == <<"io", a>>
Ctrl(a) == <<"ctrl", a>>
Opening == InOpenThreads \cup {"opened", "failed"}
Closing == {"closeClients", "alive", "join", "delete", "closed"}
Usable == {"closed", "open"}

TypeOK ==
    /\ main \in Opening \cup Closing
    /\ todo \subseteq Addr
    /\ cur \in Thread
    /\ object \in [Thread -> {"none", "live", "deleted"}]
    /\ client \in [Addr -> {"none", "closed", "open", "deleted"}]
    /\ handle \in [Thread -> BOOLEAN]
    /\ pc \in [Thread -> {"none", "created", "check", "work", "ending", "removed", "ended",
                          "undefined"}]

(* The clients are there as long as any object of theirs is.               *)
LiveHasClient == \A t \in Thread : object[t] = "live" => client[Client(t)] \in Usable

(* Join returns at once only for a thread that is not running.             *)
Handled == \A t \in Thread : ~handle[t] => pc[t] \in {"none", "ended"}

(* Whatever runs has its object, but for the threads that CloseThreads did *)
(* not find; these are the only ones it deletes without a join.            *)
RunningLive ==
    \A t \in Thread : t \notin skipped =>
        /\ pc[t] \notin {"none", "ended"} => object[t] = "live"
        /\ pc[t] # "undefined"
        /\ main \in Opening /\ object[t] = "none" => pc[t] = "none"
Skipping == /\ skipped \subseteq Thread
            /\ main \in Opening => skipped = {}
            /\ main = "delete" => cur \in skipped

(* The pairs of OpenThreads: not begun, whole, or gone ...                 *)
Untouched(a) == object[Io(a)] = "none" /\ object[Ctrl(a)] = "none" /\ client[a] = "none"
Whole(a) == object[Io(a)] = "live" /\ object[Ctrl(a)] = "live" /\ client[a] \in Usable
Gone(a) == object[Io(a)] # "live" /\ object[Ctrl(a)] # "live" /\ client[a] \notin Usable

InBetween == main \in {"start", "started", "rollback", "joinRollback"}

Paired ==
    main \in Opening => \A a \in Addr :
        ~(InBetween /\ a = Client(cur)) =>
            IF a \in todo THEN Untouched(a) ELSE Whole(a) \/ Gone(a)
AllDone == main \in {"opened", "failed"} => todo = {}

(* ... but for the one it works on.                                        *)
HalfMade ==
    InBetween =>
        /\ Client(cur) \notin todo
        /\ object[cur] = "live"
        /\ main = "start" => pc[cur] = "none"
        /\ main \in {"rollback", "joinRollback"} => cur[1] = "io"
        /\ cur[1] = "io" => /\ object[Ctrl(Client(cur))] # "live"
                            /\ pc[Ctrl(Client(cur))] = "none"
        /\ cur[1] = "io" /\ main \in {"start", "started"} => object[Ctrl(Client(cur))] = "none"
        /\ cur[1] = "ctrl" => object[Io(Client(cur))] = "live"

IInv == TypeOK /\ LiveHasClient /\ Handled /\ RunningLive
            /\ Skipping /\ Paired /\ AllDone /\ HalfMade

USE SocketThreadsAssumption

LEMMA ThreadParts ==
    /\ \A t \in Thread : Client(t) \in Addr /\ t[1] \in {"io", "ctrl"}
    /\ \A t \in Thread : t = Io(Client(t)) \/ t = Ctrl(Client(t))
    /\ \A t \in Thread : (t[1] = "io" <=> t = Io(Client(t))) /\ (t[1] = "ctrl" <=> t = Ctrl(Client(t)))
    /\ \A a \in Addr : Io(a) \in Thread /\ Ctrl(a) \in Thread /\ Io(a) # Ctrl(a)
    /\ \A a \in Addr : Client(Io(a)) = a /\ Client(Ctrl(a)) = a /\ Io(a)[1] = "io" /\ Ctrl(a)[1] = "ctrl"
  BY DEF Thread, Client, Io, Ctrl

LEMMA InitInv == Init => IInv
  <1> SUFFICES ASSUME Init PROVE IInv
    OBVIOUS
  <1>1. TypeOK
    BY DEF Init, TypeOK, Opening, InOpenThreads
  <1>2. Skipping /\ LiveHasClient /\ Handled /\ RunningLive
    BY DEF Init, Skipping, LiveHasClient, Handled, RunningLive
  <1>3. Paired /\ AllDone /\ HalfMade
    BY ThreadParts DEF Init, Paired, AllDone, HalfMade, InBetween, Untouched
  <1>4. QED
    BY <1>1, <1>2, <1>3 DEF IInv

-----------------------------------------------------------------------------
(* Opening and closing clients that are there leaves the others alone.     *)
Reconnects ==
    /\ client' \in [Addr -> {"none", "closed", "open", "deleted"}]
    /\ \A a \in Addr : client'[a] \in Usable <=> client[a] \in Usable
    /\ \A a \in Addr : client[a] = "none" => client'[a] = "none"

LEMMA Reconnect ==
    ASSUME TypeOK, NEW a \in Addr, client[a] \in Usable, NEW there \in Usable,
           client' = [client EXCEPT ![a] = there]
    PROVE  Reconnects
  BY DEF TypeOK, Usable, Reconnects

LEMMA Unconnected == ASSUME TypeOK, client' = client PROVE Reconnects
  BY DEF TypeOK, Reconnects

(* What a thread does by itself: it moves between pc, and opens or closes  *)
(* its client.                                                             *)
LEMMA RunStep ==
    ASSUME IInv, NEW t \in Thread, NEW there,
           main' = main, todo' = todo, cur' = cur, object' = object, handle' = handle,
           skipped' = skipped,
           pc' = [pc EXCEPT ![t] = there],
           there \in {"check", "work", "ending", "removed", "ended", "undefined"},
           pc[t] \notin {"none", "ended"},
           there \in {"check", "work", "ending"} => object[t] = "live",
           there = "undefined" => t \in skipped,
           Reconnects
    PROVE  IInv'
  <1>1. handle[t]
    BY DEF IInv, Handled
  <1>2. TypeOK'
    BY DEF IInv, TypeOK, Reconnects
  <1>3. Skipping' /\ LiveHasClient' /\ Handled'
    BY <1>1, ThreadParts DEF IInv, TypeOK, Skipping, LiveHasClient, Handled, Reconnects
  <1>4. RunningLive'
    BY DEF IInv, TypeOK, RunningLive
  <1>5. Paired'
    BY DEF IInv, Paired, InBetween, Untouched, Whole, Gone, Reconnects
  <1>6. HalfMade' /\ AllDone'
    BY ThreadParts DEF AllDone, IInv, TypeOK, HalfMade, InBetween
  <1>7. QED
    BY <1>2, <1>3, <1>4, <1>5, <1>6 DEF IInv

LEMMA ThreadStep == ASSUME IInv, NEW t \in Thread, Run(t) PROVE IInv'
  <1>1. CASE Add(t)
    BY <1>1, RunStep, Unconnected DEF Add, ThreadGoto, memory, IInv
  <1>2. CASE Check(t)
    <2>1. CASE IsThreadStopping(t)
      BY <1>2, <2>1, RunStep, Unconnected DEF Check, ThreadGoto, memory, IInv
    <2>2. CASE ~IsThreadStopping(t)
      BY <1>2, <2>2, RunStep, Unconnected DEF Check, ThreadGoto, memory, IInv
    <2>3. QED
      BY <2>1, <2>2
  <1>3. CASE Work(t)
    <2>1. Reconnects
      <3>1. CASE client' = client
        BY <3>1, Unconnected DEF IInv
      <3>2. CASE client' = [client EXCEPT ![Client(t)] = IF @ = "open" THEN "closed" ELSE "open"]
        BY <1>3, <3>2, Reconnect, ThreadParts DEF Work, Usable, IInv
      <3>3. QED
        BY <1>3, <3>1, <3>2 DEF Work
    <2>2. QED
      BY <1>3, <2>1, RunStep DEF Work, ThreadGoto
  <1>4. CASE RemoveThread(t)
    BY <1>4, RunStep, Unconnected DEF RemoveThread, ThreadGoto, memory, IInv
  <1>5. CASE End(t)
    BY <1>5, RunStep, Unconnected DEF End, ThreadGoto, memory, IInv
  <1>6. CASE UseAfterFree(t)
    <2>1. object[t] # "live"
      BY <1>6, ThreadParts DEF UseAfterFree, NeedsObject, IInv, LiveHasClient, Usable
    <2>2. pc[t] \notin {"none", "ended"}
      BY <1>6 DEF UseAfterFree, NeedsObject
    <2>3. t \in skipped
      BY <2>1, <2>2 DEF IInv, RunningLive
    <2>4. QED
      BY <1>6, <2>2, <2>3, RunStep, Unconnected DEF UseAfterFree, ThreadGoto, memory, IInv
  <1>7. QED
    BY <1>1, <1>2, <1>3, <1>4, <1>5, <1>6 DEF Run

-----------------------------------------------------------------------------
(* OpenThreads.                                                            *)
(* A step that leaves another pair alone.                                  *)
LEMMA OtherPair ==
    ASSUME IInv, main \in InOpenThreads, NEW a \in Addr, NEW b \in Addr, b # a,
           InBetween => a = Client(cur), todo' \in {todo, todo \ {a}},
           object'[Io(b)] = object[Io(b)], object'[Ctrl(b)] = object[Ctrl(b)],
           client'[b] = client[b]
    PROVE  IF b \in todo' THEN Untouched(b)' ELSE Whole(b)' \/ Gone(b)'
  <1>1. IF b \in todo THEN Untouched(b) ELSE Whole(b) \/ Gone(b)
    BY DEF IInv, Paired, Opening
  <1>2. b \in todo' <=> b \in todo
    OBVIOUS
  <1>3. QED
    BY <1>1, <1>2 DEF Untouched, Whole, Gone

LEMMA NewPairStep == ASSUME IInv, NEW a \in Addr, NewPair(a) PROVE IInv'
  <1>1. /\ main = "open" /\ a \in todo /\ Untouched(a)
        /\ main' = "start" /\ cur' = Io(a) /\ todo' = todo \ {a}
        /\ client' = [client EXCEPT ![a] = "closed"]
        /\ object' = [object EXCEPT ![Io(a)] = "live"]
        /\ UNCHANGED <<state, handle, pc, skipped>>
    BY DEF NewPair, Io, IInv, Paired, InBetween, Opening, InOpenThreads
  <1>2. pc[Io(a)] = "none" /\ pc[Ctrl(a)] = "none"
    BY <1>1, ThreadParts DEF IInv, RunningLive, Skipping, Untouched, Opening, InOpenThreads
  <1>3. TypeOK'
    BY <1>1, ThreadParts DEF IInv, TypeOK, Opening, InOpenThreads
  <1>4. Handled'
    BY <1>1 DEF IInv, Handled
  <1>5. Skipping' /\ RunningLive'
    BY <1>1, ThreadParts DEF IInv, TypeOK, Skipping, RunningLive, Opening, InOpenThreads
  <1>6. LiveHasClient'
    BY <1>1, ThreadParts DEF IInv, TypeOK, LiveHasClient, Usable
  <1>7. Paired'
    <2>1. ASSUME NEW b \in Addr, b # a
          PROVE  IF b \in todo' THEN Untouched(b)' ELSE Whole(b)' \/ Gone(b)'
      <3>1. object'[Io(b)] = object[Io(b)] /\ object'[Ctrl(b)] = object[Ctrl(b)]
        BY <1>1, <2>1, ThreadParts DEF IInv, TypeOK
      <3>2. client'[b] = client[b]
        BY <1>1, <2>1 DEF IInv, TypeOK
      <3>3. QED
        BY <1>1, <2>1, <3>1, <3>2, OtherPair DEF InBetween, InOpenThreads
    <2>2. InBetween' /\ Client(cur') = a
      BY <1>1, ThreadParts DEF InBetween
    <2>3. QED
      BY <2>1, <2>2 DEF Paired
  <1>8. HalfMade' /\ AllDone'
    BY <1>1, <1>2, ThreadParts DEF AllDone, IInv, TypeOK, HalfMade, InBetween, Untouched
  <1>9. QED
    BY <1>3, <1>4, <1>5, <1>6, <1>7, <1>8 DEF IInv

LEMMA CreateStep == ASSUME IInv, Create PROVE IInv'
  <1>1. /\ main = "start" /\ main' = "started" /\ object[cur] = "live" /\ pc[cur] = "none"
        /\ handle' = [handle EXCEPT ![cur] = TRUE]
        /\ pc' = [pc EXCEPT ![cur] = "created"]
        /\ UNCHANGED <<todo, cur, object, client, skipped>>
    BY DEF Create, memory, IInv, HalfMade, InBetween
  <1>2. TypeOK'
    BY <1>1 DEF IInv, TypeOK, Opening, InOpenThreads
  <1>3. Skipping' /\ LiveHasClient' /\ Handled'
    BY <1>1 DEF IInv, TypeOK, Skipping, LiveHasClient, Handled, Opening, InOpenThreads
  <1>4. RunningLive'
    BY <1>1 DEF IInv, TypeOK, RunningLive, Opening, InOpenThreads
  <1>5. Paired'
    BY <1>1 DEF IInv, Paired, InBetween, Opening, InOpenThreads, Untouched, Whole, Gone
  <1>6. HalfMade' /\ AllDone'
    BY <1>1, ThreadParts DEF AllDone, IInv, TypeOK, HalfMade, InBetween
  <1>7. QED
    BY <1>2, <1>3, <1>4, <1>5, <1>6 DEF IInv

LEMMA SetRunningStep == ASSUME IInv, SetRunning PROVE IInv'
  <1> DEFINE a == Client(cur)
  <1>0. /\ main = "started" /\ a \in Addr /\ a \notin todo /\ object[cur] = "live"
        /\ UNCHANGED <<todo, client, handle, pc, skipped>>
    BY ThreadParts DEF SetRunning, IInv, TypeOK, HalfMade, InBetween
  <1>1. ASSUME cur[1] = "io", cur' = <<"ctrl", a>>, main' = "start",
               object' = [object EXCEPT ![cur'] = "live"]
        PROVE  IInv'
    <2>1. cur = Io(a) /\ cur' = Ctrl(a) /\ object[Ctrl(a)] = "none" /\ pc[Ctrl(a)] = "none"
      BY <1>0, <1>1, ThreadParts DEF IInv, TypeOK, HalfMade, InBetween, Ctrl
    <2>2. TypeOK'
      BY <1>0, <1>1, <2>1, ThreadParts DEF IInv, TypeOK, Opening, InOpenThreads
    <2>3. Handled' /\ Skipping' /\ RunningLive'
      <3>1. Handled'
        BY <1>0 DEF IInv, Handled
      <3>2. object' = [object EXCEPT ![Ctrl(a)] = "live"] /\ Ctrl(a) \in Thread
        BY <1>0, <1>1, <2>1, ThreadParts
      <3>3. Skipping'
        BY <1>0, <1>1 DEF IInv, TypeOK, Skipping, Opening, InOpenThreads
      <3>4. RunningLive'
        BY <1>0, <3>2 DEF IInv, TypeOK, RunningLive, Opening, InOpenThreads
      <3>5. QED
        BY <3>1, <3>3, <3>4
    <2>4. LiveHasClient'
      <3>1. object' = [object EXCEPT ![Ctrl(a)] = "live"] /\ Ctrl(a) \in Thread
        BY <1>0, <1>1, <2>1, ThreadParts
      <3>2. client[a] \in Usable /\ Client(Ctrl(a)) = a
        BY <1>0, <2>1, ThreadParts DEF IInv, TypeOK, LiveHasClient
      <3>3. QED
        BY <1>0, <3>1, <3>2 DEF IInv, TypeOK, LiveHasClient
    <2>5. Paired'
      <3>1. ASSUME NEW b \in Addr, b # a
            PROVE  IF b \in todo' THEN Untouched(b)' ELSE Whole(b)' \/ Gone(b)'
        <4>1. object'[Io(b)] = object[Io(b)] /\ object'[Ctrl(b)] = object[Ctrl(b)]
          <5>1. object' = [object EXCEPT ![Ctrl(a)] = "live"]
            BY <1>1, <2>1
          <5>2. Ctrl(a) # Io(b) /\ Ctrl(a) # Ctrl(b)
            BY <1>0, <3>1, ThreadParts
          <5>3. QED
            BY <5>1, <5>2
        <4>2. client'[b] = client[b]
          BY <1>0, <1>1, <2>1, <3>1 DEF IInv, TypeOK
        <4>3. QED
          BY <1>0, <1>1, <2>1, <3>1, <4>1, <4>2, OtherPair DEF InBetween, InOpenThreads
      <3>2. InBetween' /\ Client(cur') = a
        BY <1>1, <2>1, <1>0, ThreadParts DEF InBetween
      <3>3. QED
        BY <3>1, <3>2 DEF Paired
    <2>6. HalfMade' /\ AllDone'
      BY <1>0, <1>1, <2>1, ThreadParts DEF AllDone, IInv, TypeOK, HalfMade, InBetween
    <2>7. QED
      BY <2>2, <2>3, <2>4, <2>5, <2>6 DEF IInv
  <1>2. ASSUME cur[1] = "ctrl", main' = "open", UNCHANGED <<cur, object>>
        PROVE  IInv'
    <2>1. cur = Ctrl(a) /\ Whole(a)
      BY <1>0, <1>2, ThreadParts DEF IInv, TypeOK, HalfMade, InBetween, LiveHasClient, Whole
    <2>2. TypeOK' /\ Handled' /\ Skipping' /\ LiveHasClient'
      BY <1>0, <1>2 DEF IInv, TypeOK, Handled, Skipping, LiveHasClient,
         Opening, InOpenThreads
    <2>3. RunningLive'
      BY <1>0, <1>2 DEF IInv, RunningLive, Opening, InOpenThreads
    <2>4. Paired'
      BY <1>0, <1>2, <2>1 DEF IInv, Paired, InBetween, Opening, InOpenThreads,
         Untouched, Whole, Gone
    <2>5. HalfMade' /\ AllDone'
      BY <1>2 DEF AllDone, HalfMade, InBetween
    <2>6. QED
      BY <2>2, <2>3, <2>4, <2>5 DEF IInv
  <1>3. QED
    BY <1>1, <1>2 DEF SetRunning

LEMMA CreateFailsStep == ASSUME IInv, CreateFails PROVE IInv'
  <1> DEFINE a == Client(cur)
  <1>0. /\ main = "start" /\ a \in Addr /\ a \notin todo /\ object[cur] = "live"
        /\ pc[cur] = "none"
        /\ object' = [object EXCEPT ![cur] = "deleted"]
        /\ UNCHANGED <<todo, handle, pc, skipped>>
    BY ThreadParts DEF CreateFails, Delete, IInv, TypeOK, HalfMade, InBetween
  <1>1. Handled' /\ Skipping'
    BY <1>0 DEF CreateFails, IInv, TypeOK, Handled, Skipping, Opening, InOpenThreads
  <1>2. ASSUME main' \in InOpenThreads PROVE RunningLive'
    BY <1>0, <1>2 DEF IInv, TypeOK, RunningLive, Opening, InOpenThreads
  <1>3. ASSUME cur[1] = "io", client' = [client EXCEPT ![a] = "deleted"], main' = "open",
               UNCHANGED cur
        PROVE  IInv'
    <2>1. cur = Io(a) /\ object[Ctrl(a)] = "none"
      BY <1>0, <1>3, ThreadParts DEF IInv, TypeOK, HalfMade, InBetween
    <2>2. TypeOK'
      BY <1>0, <1>3 DEF IInv, TypeOK, Opening, InOpenThreads
    <2>3. LiveHasClient'
      BY <1>0, <1>3, <2>1, ThreadParts DEF IInv, TypeOK, LiveHasClient
    <2>4. Paired'
      <3>1. ASSUME NEW b \in Addr, b # a
            PROVE  IF b \in todo' THEN Untouched(b)' ELSE Whole(b)' \/ Gone(b)'
        <4>1. object'[Io(b)] = object[Io(b)] /\ object'[Ctrl(b)] = object[Ctrl(b)]
          BY <1>0, <1>3, <2>1, <3>1, ThreadParts DEF IInv, TypeOK
        <4>2. client'[b] = client[b]
          BY <1>0, <1>3, <2>1, <3>1 DEF IInv, TypeOK
        <4>3. QED
          BY <1>0, <1>3, <2>1, <3>1, <4>1, <4>2, OtherPair DEF InBetween, InOpenThreads
      <3>2. Gone(a)' /\ a \notin todo'
        <4>1. client' = [client EXCEPT ![a] = "deleted"] /\ a' = a
          BY <1>3
        <4>2. object'[Io(a)] = "deleted" /\ object'[Ctrl(a)] = "none"
          BY <1>0, <2>1, ThreadParts DEF IInv, TypeOK
        <4>3. client'[a] = "deleted"
          BY <1>0, <4>1 DEF IInv, TypeOK
        <4>4. QED
          BY <1>0, <4>1, <4>2, <4>3 DEF Gone, Usable
      <3>3. QED
        BY <1>3, <3>1, <3>2 DEF Paired
    <2>5. HalfMade' /\ AllDone'
      BY <1>3 DEF AllDone, HalfMade, InBetween
    <2>6. QED
      BY <1>1, <1>2, <1>3, <2>2, <2>3, <2>4, <2>5 DEF IInv, InOpenThreads
  <1>4. ASSUME cur[1] = "ctrl", cur' = <<"io", a>>, main' = "rollback", UNCHANGED client
        PROVE  IInv'
    <2>1. cur = Ctrl(a) /\ cur' = Io(a) /\ object[Io(a)] = "live"
      BY <1>0, <1>4, ThreadParts DEF IInv, TypeOK, HalfMade, InBetween, Io
    <2>2. TypeOK'
      BY <1>0, <1>4, <2>1, ThreadParts DEF IInv, TypeOK, Opening, InOpenThreads
    <2>3. LiveHasClient'
      BY <1>0, <1>4, ThreadParts DEF IInv, TypeOK, LiveHasClient
    <2>4. Paired'
      <3>1. ASSUME NEW b \in Addr, b # a
            PROVE  IF b \in todo' THEN Untouched(b)' ELSE Whole(b)' \/ Gone(b)'
        <4>1. object'[Io(b)] = object[Io(b)] /\ object'[Ctrl(b)] = object[Ctrl(b)]
          BY <1>0, <1>4, <2>1, <3>1, ThreadParts DEF IInv, TypeOK
        <4>2. client'[b] = client[b]
          BY <1>0, <1>4, <2>1, <3>1 DEF IInv, TypeOK
        <4>3. QED
          BY <1>0, <1>4, <2>1, <3>1, <4>1, <4>2, OtherPair DEF InBetween, InOpenThreads
      <3>2. InBetween' /\ Client(cur') = a
        BY <1>4, <2>1, <1>0, ThreadParts DEF InBetween
      <3>3. QED
        BY <3>1, <3>2 DEF Paired
    <2>5. HalfMade' /\ AllDone'
      BY <1>0, <1>4, <2>1, ThreadParts DEF AllDone, IInv, TypeOK, HalfMade, InBetween
    <2>6. QED
      BY <1>1, <1>2, <1>4, <2>2, <2>3, <2>4, <2>5 DEF IInv, InOpenThreads
  <1>5. QED
    BY <1>3, <1>4 DEF CreateFails

LEMMA RollbackStep == ASSUME IInv, Rollback PROVE IInv'
  <1>1. /\ main = "rollback" /\ main' = "joinRollback"
        /\ UNCHANGED <<todo, cur, object, client, handle, pc, skipped>>
    BY DEF Rollback, RequestStop, memory
  <1>2. TypeOK' /\ Handled' /\ Skipping' /\ LiveHasClient'
    BY <1>1 DEF IInv, TypeOK, Handled, Skipping, LiveHasClient,
       Opening, InOpenThreads
  <1>3. RunningLive'
    BY <1>1 DEF IInv, RunningLive, Opening, InOpenThreads
  <1>4. Paired'
    BY <1>1 DEF IInv, Paired, InBetween, Opening, InOpenThreads, Untouched, Whole, Gone
  <1>5. HalfMade' /\ AllDone'
    BY <1>1 DEF AllDone, IInv, HalfMade, InBetween
  <1>6. QED
    BY <1>2, <1>3, <1>4, <1>5 DEF IInv

(* Thread::Join returns for a thread that has ended, or was never created: *)
(* it is not registered.                                                   *)
LEMMA JoinedEnded ==
    ASSUME IInv, Joined
    PROVE  /\ pc[cur] \in {"none", "ended"}
           /\ handle' \in [Thread -> BOOLEAN]
           /\ \A t \in Thread : ~handle'[t] => t = cur \/ ~handle[t]
  <1>1. pc[cur] \in {"none", "ended"}
    BY DEF Joined, IInv, TypeOK, Handled
  <1>2. QED
    BY <1>1 DEF Joined, IInv, TypeOK

LEMMA JoinRollbackStep == ASSUME IInv, JoinRollback PROVE IInv'
  <1> DEFINE a == Client(cur)
  <1>0. /\ main = "joinRollback" /\ main' = "open" /\ a \in Addr /\ a \notin todo
        /\ object' = [object EXCEPT ![cur] = "deleted"]
        /\ client' = [client EXCEPT ![a] = "deleted"]
        /\ UNCHANGED <<todo, cur, pc, skipped>>
    BY ThreadParts DEF JoinRollback, Delete, IInv, TypeOK, HalfMade, InBetween
  <1>1. /\ pc[cur] \in {"none", "ended"}
        /\ handle' \in [Thread -> BOOLEAN]
        /\ \A t \in Thread : ~handle'[t] => t = cur \/ ~handle[t]
    BY JoinedEnded DEF JoinRollback
  <1>2. cur = Io(a) /\ object[Ctrl(a)] # "live"
    BY <1>0, ThreadParts DEF IInv, TypeOK, HalfMade, InBetween
  <1>3. TypeOK'
    BY <1>0, <1>1 DEF IInv, TypeOK, Opening, InOpenThreads
  <1>4. Handled' /\ Skipping'
    BY <1>0, <1>1 DEF IInv, TypeOK, Handled, Skipping, Opening, InOpenThreads
  <1>5. RunningLive'
    BY <1>0, <1>1 DEF IInv, TypeOK, RunningLive, Opening, InOpenThreads
  <1>6. LiveHasClient'
    <2>1. ASSUME NEW t \in Thread, object'[t] = "live" PROVE client'[Client(t)] \in Usable
      <3>1. t # Io(a) /\ t # Ctrl(a) /\ object[t] = "live"
        BY <1>0, <1>2, <2>1 DEF IInv, TypeOK
      <3>2. Client(t) # a
        BY <3>1, ThreadParts
      <3>3. QED
        BY <1>0, <3>1, <3>2 DEF IInv, TypeOK, LiveHasClient
    <2>2. QED
      BY <2>1 DEF LiveHasClient
  <1>7. Paired'
    <2>1. ASSUME NEW b \in Addr, b # a
          PROVE  IF b \in todo' THEN Untouched(b)' ELSE Whole(b)' \/ Gone(b)'
      <3>1. object'[Io(b)] = object[Io(b)] /\ object'[Ctrl(b)] = object[Ctrl(b)]
        BY <1>0, <1>2, <2>1, ThreadParts DEF IInv, TypeOK
      <3>2. client'[b] = client[b]
        BY <1>0, <1>2, <2>1 DEF IInv, TypeOK
      <3>3. QED
        BY <1>0, <1>2, <2>1, <3>1, <3>2, OtherPair DEF InBetween, InOpenThreads
    <2>2. Gone(a)' /\ a \notin todo'
      <3>1. a' = a
        BY <1>0
      <3>2. object'[Io(a)] # "live" /\ object'[Ctrl(a)] # "live"
        BY <1>0, <1>2, ThreadParts DEF IInv, TypeOK
      <3>3. client'[a] = "deleted"
        BY <1>0 DEF IInv, TypeOK
      <3>4. QED
        BY <1>0, <3>1, <3>2, <3>3 DEF Gone, Usable
    <2>3. QED
      BY <1>0, <2>1, <2>2 DEF Paired
  <1>8. HalfMade' /\ AllDone'
    BY <1>0 DEF AllDone, HalfMade, InBetween
  <1>9. QED
    BY <1>3, <1>4, <1>5, <1>6, <1>7, <1>8 DEF IInv

LEMMA OpenedStep == ASSUME IInv, Opened PROVE IInv'
  <1>1. /\ main = "open" /\ main' \in {"opened", "failed"} /\ todo = {}
        /\ UNCHANGED <<todo, cur, object, client, handle, pc, skipped>>
    BY DEF Opened, memory
  <1>2. TypeOK' /\ Handled' /\ Skipping' /\ LiveHasClient'
    BY <1>1 DEF IInv, TypeOK, Handled, Skipping, LiveHasClient,
       Opening, InOpenThreads
  <1>3. RunningLive'
    BY <1>1 DEF IInv, RunningLive, Opening, InOpenThreads
  <1>4. Paired' /\ AllDone' /\ HalfMade'
    BY <1>1 DEF IInv, AllDone, Paired, HalfMade, InBetween, Opening, InOpenThreads, Untouched, Whole, Gone
  <1>5. QED
    BY <1>2, <1>3, <1>4 DEF IInv

-----------------------------------------------------------------------------
(* CloseThreads deletes only what no registered thread has.                *)
LEMMA CloseStep ==
    ASSUME IInv, main' \in Closing, todo' \subseteq Addr, cur' \in Thread,
           UNCHANGED pc, skipped \subseteq skipped', skipped' \subseteq Thread,
           main' = "delete" => cur' \in skipped',
           handle' \in [Thread -> BOOLEAN],
           \A t \in Thread : ~handle'[t] => pc[t] \in {"none", "ended"},
           object' \in [Thread -> {"none", "live", "deleted"}],
           client' \in [Addr -> {"none", "closed", "open", "deleted"}],
           \A t \in Thread : object'[t] = "live" => object[t] = "live",
           \A t \in Thread : object'[t] # object[t] =>
                                  pc[t] \in {"none", "ended"} \/ t \in skipped',
           \A t \in Thread : object'[t] = "live" => client'[Client(t)] \in Usable
    PROVE  IInv'
  <1>1. main' \notin Opening
    BY DEF Closing, Opening, InOpenThreads
  <1>2. TypeOK'
    BY DEF IInv, TypeOK
  <1>3. Handled' /\ LiveHasClient'
    BY DEF IInv, Handled, LiveHasClient
  <1>4. Skipping'
    BY <1>1 DEF Skipping
  <1>5. RunningLive' /\ Paired'
    BY <1>1 DEF IInv, RunningLive, Paired
  <1>6. HalfMade' /\ AllDone'
    BY DEF AllDone, HalfMade, InBetween, Closing
  <1>7. QED
    BY <1>2, <1>3, <1>4, <1>5, <1>6 DEF IInv

LEMMA CloseThreadsStep == ASSUME IInv, BeginClose \/ CloseThreads PROVE IInv'
  <1>0. /\ todo \subseteq Addr /\ cur \in Thread /\ handle \in [Thread -> BOOLEAN]
        /\ object \in [Thread -> {"none", "live", "deleted"}]
        /\ client \in [Addr -> {"none", "closed", "open", "deleted"}]
        /\ \A t \in Thread : ~handle[t] => pc[t] \in {"none", "ended"}
        /\ \A t \in Thread : object[t] = "live" => client[Client(t)] \in Usable
        /\ skipped \subseteq Thread
    BY DEF IInv, TypeOK, Handled, LiveHasClient, Skipping
  <1>1. CASE BeginClose
    BY <1>0, <1>1, CloseStep DEF BeginClose, memory, Closing
  <1>2. ASSUME NEW a \in Addr, CloseClient(a) PROVE IInv'
    <2>1. \A t \in Thread : object[t] = "live" => client'[Client(t)] \in Usable
      BY <1>0, <1>2, ThreadParts DEF CloseClient, Usable
    <2>2. client' \in [Addr -> {"none", "closed", "open", "deleted"}]
      BY <1>0, <1>2 DEF CloseClient
    <2>3. QED
      BY <1>0, <1>2, <2>1, <2>2, CloseStep DEF CloseClient, Closing
  <1>3. ASSUME NEW t \in Thread, NextThread(t) PROVE IInv'
    BY <1>0, <1>3, CloseStep DEF NextThread, memory, Closing
  <1>4. CASE StopIfAlive
    BY <1>0, <1>4, CloseStep DEF StopIfAlive, RequestStop, memory, Closing
  <1>5. ASSUME object' = [object EXCEPT ![cur] = "deleted"],
               pc[cur] \in {"none", "ended"} \/ cur \in skipped,
               main' = "closeClients", UNCHANGED <<todo, cur, client, pc, skipped>>,
               handle' \in [Thread -> BOOLEAN],
               \A t \in Thread : ~handle'[t] => pc[t] \in {"none", "ended"}
        PROVE  IInv'
    <2>1. /\ object' \in [Thread -> {"none", "live", "deleted"}]
          /\ \A t \in Thread : object'[t] = "live" => object[t] = "live"
          /\ \A t \in Thread : t # cur => object'[t] = object[t]
      BY <1>0, <1>5
    <2>2. \A t \in Thread : object'[t] # object[t] =>
                                 pc[t] \in {"none", "ended"} \/ t \in skipped'
      BY <1>0, <1>5, <2>1
    <2>3. \A t \in Thread : object'[t] = "live" => client'[Client(t)] \in Usable
      BY <1>0, <1>5, <2>1
    <2>4. QED
      BY <1>0, <1>5, <2>1, <2>2, <2>3, CloseStep DEF Closing
  <1>6. CASE JoinAndDelete
    <2>1. Joined
      BY <1>6 DEF JoinAndDelete
    <2>2. \A t \in Thread : ~handle'[t] => pc[t] \in {"none", "ended"}
      BY <1>0, <2>1, JoinedEnded
    <2>3. QED
      BY <1>5, <1>6, <2>1, <2>2, JoinedEnded DEF JoinAndDelete, Delete
  <1>10. CASE NotAlive
    BY <1>0, <1>10, CloseStep DEF NotAlive, memory, Closing
  <1>7. CASE DeleteNotAlive
    BY <1>0, <1>5, <1>7 DEF DeleteNotAlive, Delete, IInv, Skipping
  <1>8. CASE DeleteClients
    <2>1. \A t \in Thread : object[t] # "live"
      BY <1>8, <1>0 DEF DeleteClients, ListOf, Thread
    <2>2. client' \in [Addr -> {"none", "closed", "open", "deleted"}]
      BY <1>8 DEF DeleteClients
    <2>3. QED
      BY <1>0, <1>8, <2>1, <2>2, CloseStep DEF DeleteClients, Closing
  <1>9. QED
    BY <1>1, <1>2, <1>3, <1>4, <1>6, <1>7, <1>8, <1>10 DEF CloseThreads

LEMMA InvStep == IInv /\ [Next]_vars => IInv'
  <1> SUFFICES ASSUME IInv, [Next]_vars PROVE IInv'
    OBVIOUS
  <1>1. CASE OpenThreads
    BY <1>1, NewPairStep, CreateStep, SetRunningStep, CreateFailsStep, RollbackStep,
       JoinRollbackStep, OpenedStep DEF OpenThreads
  <1>2. CASE BeginClose \/ CloseThreads
    BY <1>2, CloseThreadsStep
  <1>3. ASSUME NEW t \in Thread, Run(t) PROVE IInv'
    BY <1>3, ThreadStep
  <1>4. CASE UNCHANGED vars
    BY <1>4 DEF vars, IInv, TypeOK, AllDone, Skipping, LiveHasClient, Handled,
       RunningLive, Paired, InBetween, Untouched, Whole, Gone, HalfMade
  <1>5. QED
    BY <1>1, <1>2, <1>3, <1>4 DEF Next

LEMMA InvHolds == Spec => []IInv
  BY InitInv, InvStep, PTL DEF Spec

-----------------------------------------------------------------------------
(* No object is freed under a thread that uses it, but under one that      *)
(* CloseThreads does not find in the registry, for any number of addresses *)
(* and whichever calls of pthread_create fail.                             *)
THEOREM NothingFreedInUse == Spec => []ThreadsAreSafe
  <1>1. IInv => ThreadsAreSafe
    <2> SUFFICES ASSUME IInv, NEW t \in Thread, t \notin skipped PROVE Safe(t)
      BY DEF ThreadsAreSafe
    <2>1. NeedsObject(t) => object[t] = "live"
      BY DEF NeedsObject, IInv, RunningLive
    <2>2. NeedsClient(t) => client[Client(t)] \in {"closed", "open"}
      BY <2>1 DEF NeedsClient, NeedsObject, IInv, LiveHasClient, Usable
    <2>3. pc[t] # "undefined"
      BY DEF IInv, RunningLive
    <2>4. QED
      BY <2>1, <2>2, <2>3 DEF Safe
  <1>2. QED
    BY <1>1, InvHolds, PTL

(* OpenThreads leaves every address whole or with nothing, whichever calls *)
(* of pthread_create fail.                                                 *)
THEOREM WholeOrGone == Spec => []AllOrNothing
  <1>1. IInv => AllOrNothing
    <2> SUFFICES ASSUME IInv, main \in {"opened", "failed"}, NEW a \in Addr
                 PROVE  LET live == {t \in {"io", "ctrl"} \X {a} : object[t] = "live"} IN
                        \/ Cardinality(live) = 2 /\ client[a] \in {"closed", "open"}
                        \/ live = {} /\ client[a] \notin {"closed", "open"}
      BY DEF AllOrNothing
    <2> DEFINE live == {t \in {"io", "ctrl"} \X {a} : object[t] = "live"}
    <2>1. Whole(a) \/ Gone(a)
      <3>1. todo = {}
        BY DEF IInv, AllDone
      <3>2. QED
        BY <3>1 DEF IInv, Paired, InBetween, Opening
    <2>2. CASE Whole(a)
      <3>1. live = {Io(a)} \cup {Ctrl(a)}
        BY <2>2 DEF Whole, Io, Ctrl
      <3>2. Cardinality(live) = 2
        <4>1. Ctrl(a) \notin {Io(a)}
          BY DEF Io, Ctrl
        <4>2. IsFiniteSet({Io(a)}) /\ Cardinality({Io(a)}) = 1
          BY FS_Singleton
        <4>3. Cardinality({Io(a)} \cup {Ctrl(a)}) = Cardinality({Io(a)}) + 1
          BY <4>1, <4>2, FS_AddElement
        <4>4. QED
          BY <3>1, <4>2, <4>3
      <3>3. QED
        BY <2>2, <3>2 DEF Whole, Usable
    <2>3. CASE Gone(a)
      <3>1. live = {}
        BY <2>3 DEF Gone, Io, Ctrl
      <3>2. QED
        BY <2>3, <3>1 DEF Gone, Usable
    <2>4. QED
      BY <2>1, <2>2, <2>3
  <1>2. QED
    BY <1>1, InvHolds, PTL

-----------------------------------------------------------------------------
(* TcpLink: the transactions of the two threads of an address.             *)
Places == {"loop", "opened", "want", "send", "recv", "close", "invalidate"}

LinkType ==
    /\ socket \in Conns \cup {Closed}
    /\ conn \in [Conns -> {"free", "created", "up", "closed", "reset", "dead"}]
    /\ pending \in [Conns -> Seq(Requests)] /\ arrived \in [Conns -> Seq(Requests)]
    /\ at \in [Threads -> Places]
    /\ request \in [Threads -> Requests \cup {NoRequest}]

(* A transaction holds the mutex from its request to its reply.            *)
HeldInTransaction == \A t \in Threads : at[t] \in {"send", "recv"} => lock = t

(* Requests are on their way only on a connection that is up, and a free   *)
(* descriptor has nothing unread.                                          *)
OnlyUpCarries ==
    \A k \in Conns :
        /\ conn[k] # "up" => pending[k] = <<>>
        /\ conn[k] = "free" => arrived[k] = <<>>

(* Without a timeout there is nothing on a connection but the request of   *)
(* the transaction under way, or its reply.                                *)
Quiet == pending[socket] = <<>> /\ arrived[socket] = <<>>
Under(t) ==
    /\ at[t] = "recv"
    /\ \/ pending[socket] = <<request[t]>> /\ arrived[socket] = <<>>
       \/ pending[socket] = <<>> /\ arrived[socket] = <<request[t]>>
OneUnderWay ==
    IsOpened /\ socket \notin gaveUp => Quiet \/ \E t \in Threads : Under(t)

LinkInv == LinkType /\ HeldInTransaction /\ OnlyUpCarries /\ OneUnderWay

-----------------------------------------------------------------------------
(* A queue with one element, its head and its tail.                        *)
LEMMA One ==
    ASSUME NEW r
    PROVE  Head(<<r>>) = r /\ Tail(<<r>>) = <<>> /\ <<r>> # <<>> /\ Append(<<>>, r) = <<r>>
  OBVIOUS

(* The empty queue is a queue of anything.                                 *)
LEMMA Nothing == ASSUME NEW R PROVE <<>> \in Seq(Requests)
  OBVIOUS

(* An open socket is a descriptor.                                         *)
LEMMA OpenConn == ASSUME LinkType, IsOpened PROVE socket \in Conns
  BY DEF LinkType, IsOpened

(* What a step that leaves the socket and its queues alone keeps.          *)
LEMMA SameLink ==
    ASSUME LinkInv, UNCHANGED <<socket, pending, arrived, gaveUp>>,
           \A t \in Threads : at[t] = "recv" => at'[t] = "recv" /\ request'[t] = request[t]
    PROVE  OneUnderWay'
  <1>1. \A t \in Threads : Under(t) => Under(t)'
    BY DEF Under
  <1>2. QED
    BY <1>1 DEF LinkInv, OneUnderWay, Quiet, IsOpened

(* Nothing on the socket.                                                  *)
LEMMA QuietLink ==
    ASSUME IsOpened' => pending'[socket'] = <<>> /\ arrived'[socket'] = <<>>
    PROVE  OneUnderWay'
  BY DEF OneUnderWay, Quiet

(* Before the first connection.                                            *)
LEMMA LinkInit == ASSUME TcpInit PROVE LinkInv
  <1>1. LinkType
    <2>1. pending \in [Conns -> Seq(Requests)] /\ arrived \in [Conns -> Seq(Requests)]
      BY Nothing DEF TcpInit
    <2>2. at \in [Threads -> {"loop"}] /\ request \in [Threads -> {NoRequest}]
      BY DEF TcpInit, NoRequest
    <2>3. QED
      BY <2>1, <2>2 DEF TcpInit, LinkType, Places
  <1>2. HeldInTransaction /\ OnlyUpCarries /\ OneUnderWay
    BY DEF TcpInit, HeldInTransaction, OnlyUpCarries, OneUnderWay, IsOpened
  <1>3. QED
    BY <1>1, <1>2 DEF LinkInv

(* Moving a thread.                                                        *)
LEMMA Moves ==
    ASSUME LinkType, NEW t \in Threads, NEW there \in Places, Goto(t, there)
    PROVE  /\ at' \in [Threads -> Places]
           /\ at'[t] = there /\ \A u \in Threads \ {t} : at'[u] = at[u]
  BY DEF LinkType, Goto

(* The thread that connects is one of the two.                             *)
LEMMA IoThread == "io" \in Threads
  BY DEF Threads

(* Connect: a new descriptor has nothing under way.                        *)
LEMMA OpenLink == ASSUME LinkInv, Open PROVE LinkInv'
  <1>1. PICK k \in Conns :
           conn[k] = "free" /\ socket' = k /\ conn' = [conn EXCEPT ![k] = "created"]
    BY DEF Open
  <1>2. /\ Goto("io", "opened") /\ at["io"] = "loop"
        /\ UNCHANGED <<pending, arrived, lock, request, gaveUp>>
    BY DEF Open, device
  <1>3. /\ at' \in [Threads -> Places]
        /\ at'["io"] = "opened" /\ \A u \in Threads \ {"io"} : at'[u] = at[u]
    BY <1>2, IoThread, Moves DEF Places, LinkInv
  <1>4. pending[k] = <<>> /\ arrived[k] = <<>>
    BY <1>1 DEF LinkInv, OnlyUpCarries
  <1>5. LinkType'
    BY <1>1, <1>2, <1>3 DEF LinkInv, LinkType
  <1>6. HeldInTransaction'
    BY <1>2, <1>3 DEF LinkInv, HeldInTransaction
  <1>7. OnlyUpCarries'
    BY <1>1, <1>2, <1>4 DEF LinkInv, LinkType, OnlyUpCarries
  <1>8. OneUnderWay'
    BY <1>1, <1>2, <1>4, QuietLink
  <1>9. QED
    BY <1>5, <1>6, <1>7, <1>8 DEF LinkInv

(* connect() changes only the state of the descriptor.                     *)
LEMMA ConnectLink == ASSUME LinkInv, Connect PROVE LinkInv'
  <1>1. /\ at["io"] = "opened"
        /\ UNCHANGED <<socket, pending, arrived, lock, request, gaveUp>>
    BY DEF Connect, device
  <1>2. PICK there \in {"loop", "close"} : Goto("io", there)
    BY DEF Connect
  <1>3. /\ at' \in [Threads -> Places]
        /\ at'["io"] = there /\ \A u \in Threads \ {"io"} : at'[u] = at[u]
    BY <1>2, IoThread, Moves DEF Places, LinkInv
  <1>4. \/ conn' = conn
        \/ /\ socket \in Conns /\ conn[socket] = "created"
           /\ conn' = [conn EXCEPT ![socket] = "up"]
    BY OpenConn DEF Connect, SocketState, LinkInv
  <1>5. LinkType'
    BY <1>1, <1>3, <1>4 DEF LinkInv, LinkType
  <1>6. HeldInTransaction'
    BY <1>1, <1>3 DEF LinkInv, HeldInTransaction
  <1>7. OnlyUpCarries'
    BY <1>1, <1>4 DEF LinkInv, LinkType, OnlyUpCarries
  <1>8. OneUnderWay'
    BY <1>1, <1>3, SameLink
  <1>9. QED
    BY <1>5, <1>6, <1>7, <1>8 DEF LinkInv

(* The mutex is taken when it is free.                                     *)
LEMMA BeginLink == ASSUME LinkInv, NEW t \in Threads, Begin(t) \/ Acquire(t)
                   PROVE LinkInv'
  <1>1. UNCHANGED <<socket, conn, pending, arrived, request, gaveUp>>
    BY DEF Begin, Acquire, device
  <1>2. PICK there \in {"want", "send"} :
           /\ Goto(t, there) /\ at[t] # "recv" /\ at[t] # "send"
           /\ \/ there = "want" /\ lock' = lock
              \/ there = "send" /\ lock = "free" /\ lock' = t
    BY DEF Begin, Acquire
  <1>3. /\ at' \in [Threads -> Places]
        /\ at'[t] = there /\ \A u \in Threads \ {t} : at'[u] = at[u]
    BY <1>2, Moves DEF Places, LinkInv
  <1>4. LinkType' /\ OnlyUpCarries'
    BY <1>1, <1>3 DEF LinkInv, LinkType, OnlyUpCarries
  <1>5. HeldInTransaction'
    <2>1. \A u \in Threads : u # "free"
      BY DEF Threads
    <2>2. QED
      BY <1>2, <1>3, <2>1 DEF LinkInv, HeldInTransaction
  <1>6. OneUnderWay'
    BY <1>1, <1>2, <1>3, SameLink
  <1>7. QED
    BY <1>4, <1>5, <1>6 DEF LinkInv

(* A transaction that sends finds nothing on the connection.               *)
LEMMA BeforeSend ==
    ASSUME LinkInv, NEW t \in Threads, at[t] = "send", IsOpened, socket \notin gaveUp
    PROVE  Quiet
  <1>1. \A u \in Threads : at[u] # "recv"
    BY DEF LinkInv, HeldInTransaction
  <1>2. QED
    BY <1>1 DEF LinkInv, OneUnderWay, Under

(* The request is the only thing on the connection.                        *)
LEMMA SendLink ==
    ASSUME LinkInv, NEW t \in Threads, Send(t) PROVE LinkInv'
  <1>1. at[t] = "send" /\ UNCHANGED <<socket, arrived, gaveUp>>
    BY DEF Send, Flush
  <1>2. lock = t /\ \A u \in Threads \ {t} : at[u] # "send" /\ at[u] # "recv"
    BY <1>1 DEF LinkInv, HeldInTransaction
  <1>3. pending \in [Conns -> Seq(Requests)] /\ arrived \in [Conns -> Seq(Requests)]
    BY DEF LinkInv, LinkType
  <1>4. request \in [Threads -> Requests \cup {NoRequest}]
    BY DEF LinkInv, LinkType
  <1>5. CASE /\ SocketState = "up" /\ Goto(t, "recv") /\ UNCHANGED <<lock, conn>>
             /\ \E r \in Requests \ InUse :
                   /\ request' = [request EXCEPT ![t] = r]
                   /\ pending' = [pending EXCEPT ![socket] = Append(@, r)]
    <2>1. PICK r \in Requests :
                   /\ request' = [request EXCEPT ![t] = r]
                   /\ pending' = [pending EXCEPT ![socket] = Append(@, r)]
      BY <1>5
    <2>2. IsOpened /\ conn[socket] = "up"
      BY <1>5 DEF SocketState
    <2>3. socket \in Conns
      BY <2>2, OpenConn DEF LinkInv
    <2>4. /\ at' \in [Threads -> Places]
          /\ at'[t] = "recv" /\ \A u \in Threads \ {t} : at'[u] = at[u]
      BY <1>5, Moves DEF Places, LinkInv
    <2>5. request' \in [Threads -> Requests \cup {NoRequest}] /\ request'[t] = r
      BY <1>4, <2>1
    <2>6. /\ pending' \in [Conns -> Seq(Requests)] /\ arrived' \in [Conns -> Seq(Requests)]
          /\ pending'[socket] = Append(pending[socket], r)
          /\ \A k \in Conns \ {socket} : pending'[k] = pending[k]
      <3>1. Append(pending[socket], r) \in Seq(Requests)
        BY <1>3, <2>3
      <3>2. QED
        BY <1>1, <1>3, <2>1, <2>3, <3>1
    <2>7. LinkType'
      BY <1>1, <1>5, <2>4, <2>5, <2>6 DEF LinkInv, LinkType
    <2>8. HeldInTransaction'
      BY <1>2, <1>5, <2>4 DEF HeldInTransaction
    <2>9. OnlyUpCarries'
      BY <1>1, <1>5, <2>2, <2>3, <2>6 DEF LinkInv, OnlyUpCarries
    <2>10. OneUnderWay'
      <3>1. SUFFICES ASSUME socket \notin gaveUp PROVE Under(t)'
        BY <1>1 DEF OneUnderWay
      <3>2. Quiet
        BY <1>1, <2>2, <3>1, BeforeSend
      <3>3. pending'[socket] = <<request'[t]>> /\ arrived'[socket] = <<>>
        BY <1>1, <2>5, <2>6, <3>2, One DEF Quiet
      <3>4. QED
        BY <1>1, <2>4, <3>3 DEF Under
    <2>11. QED
      BY <2>7, <2>8, <2>9, <2>10 DEF LinkInv
  <1>6. CASE /\ UNCHANGED <<pending, request>>
             /\ \/ UNCHANGED lock /\ Goto(t, "recv")
                \/ lock' = "free" /\ Goto(t, "close")
                \/ UNCHANGED <<lock, at>>
             /\ \/ UNCHANGED conn
                \/ /\ IsOpened /\ conn[socket] \in {"closed", "reset"}
                   /\ \E c \in {"reset", "dead"} : conn' = [conn EXCEPT ![socket] = c]
    <2>1. /\ at' \in [Threads -> Places]
          /\ \A u \in Threads \ {t} : at'[u] = at[u]
          /\ lock' = t \/ at'[t] = "close"
      <3>1. CASE UNCHANGED at
        BY <1>1, <1>2, <1>6, <3>1, Moves DEF Places, LinkInv, LinkType
      <3>2. CASE UNCHANGED lock /\ Goto(t, "recv")
        BY <1>2, <3>2, Moves DEF Places, LinkInv
      <3>3. CASE lock' = "free" /\ Goto(t, "close")
        BY <3>3, Moves DEF Places, LinkInv
      <3>4. QED
        BY <1>6, <3>1, <3>2, <3>3
    <2>2. LinkType'
      BY <1>1, <1>3, <1>4, <1>6, <2>1 DEF LinkInv, LinkType
    <2>3. HeldInTransaction'
      BY <1>2, <2>1 DEF HeldInTransaction
    <2>4. OnlyUpCarries'
      <3>1. CASE UNCHANGED conn
        BY <1>1, <1>6, <3>1 DEF LinkInv, OnlyUpCarries
      <3>2. CASE /\ IsOpened /\ conn[socket] \in {"closed", "reset"}
                 /\ \E c \in {"reset", "dead"} : conn' = [conn EXCEPT ![socket] = c]
        BY <1>1, <1>6, <3>2, OpenConn DEF LinkInv, LinkType, OnlyUpCarries
      <3>3. QED
        BY <1>6, <3>1, <3>2
    <2>5. OneUnderWay'
      BY <1>1, <1>6, BeforeSend DEF OneUnderWay, Quiet, IsOpened
    <2>6. QED
      BY <2>2, <2>3, <2>4, <2>5 DEF LinkInv
  <1>7. QED
    BY <1>5, <1>6 DEF Send, SocketState

(* A transaction that ends leaves the mutex and its number.                *)
LEMMA EndLink ==
    ASSUME LinkInv, NEW t \in Threads, at[t] = "recv", NEW there \in {"loop", "close"},
           EndTransaction(t, there)
    PROVE  /\ at' \in [Threads -> Places]
           /\ request' \in [Threads -> Requests \cup {NoRequest}]
           /\ HeldInTransaction'
           /\ \A u \in Threads \ {t} : at[u] # "recv"
  <1>1. /\ at' \in [Threads -> Places]
        /\ at'[t] = there /\ \A u \in Threads \ {t} : at'[u] = at[u]
    BY Moves DEF Places, LinkInv, EndTransaction
  <1>2. request \in [Threads -> Requests \cup {NoRequest}]
    BY DEF LinkInv, LinkType
  <1>3. request' \in [Threads -> Requests \cup {NoRequest}]
    BY <1>2 DEF EndTransaction
  <1>4. lock = t /\ \A u \in Threads \ {t} : at[u] # "send" /\ at[u] # "recv"
    BY DEF LinkInv, HeldInTransaction
  <1>5. QED
    BY <1>1, <1>3, <1>4 DEF HeldInTransaction

(* The reply read was the only thing on the connection.                    *)
LEMMA ReplyLink ==
    ASSUME LinkInv, NEW t \in Threads, RecvReply(t) PROVE LinkInv'
  <1>1. /\ at[t] = "recv" /\ Readable /\ EndTransaction(t, "loop")
        /\ arrived' = [arrived EXCEPT ![socket] = Tail(@)]
        /\ UNCHANGED <<socket, conn, pending, gaveUp>>
    BY DEF RecvReply
  <1>2. /\ at' \in [Threads -> Places]
        /\ request' \in [Threads -> Requests \cup {NoRequest}]
        /\ HeldInTransaction' /\ \A u \in Threads \ {t} : at[u] # "recv"
    BY <1>1, EndLink
  <1>3. IsOpened /\ arrived[socket] # <<>> /\ conn[socket] # "free"
    BY <1>1 DEF Readable, SocketState
  <1>4. socket \in Conns
    BY <1>3, OpenConn DEF LinkInv
  <1>5. pending \in [Conns -> Seq(Requests)] /\ arrived \in [Conns -> Seq(Requests)]
    BY DEF LinkInv, LinkType
  <1>6. arrived[socket] \in Seq(Requests) /\ Tail(arrived[socket]) \in Seq(Requests)
    BY <1>3, <1>4, <1>5, HeadTailProperties
  <1>7. /\ arrived' \in [Conns -> Seq(Requests)] /\ arrived'[socket] = Tail(arrived[socket])
        /\ \A k \in Conns \ {socket} : arrived'[k] = arrived[k]
    BY <1>1, <1>4, <1>5, <1>6
  <1>8. LinkType'
    BY <1>1, <1>2, <1>5, <1>7 DEF LinkInv, LinkType
  <1>9. OnlyUpCarries'
    BY <1>1, <1>3, <1>7 DEF LinkInv, OnlyUpCarries
  <1>10. OneUnderWay'
    <2>1. SUFFICES ASSUME socket \notin gaveUp PROVE pending'[socket] = <<>> /\ arrived'[socket] = <<>>
      BY <1>1 DEF OneUnderWay, Quiet
    <2>2. PICK u \in Threads : Under(u)
      BY <1>3, <2>1 DEF LinkInv, OneUnderWay, Quiet
    <2>3. pending[socket] = <<>> /\ arrived[socket] = <<request[u]>>
      BY <1>3, <2>2 DEF Under
    <2>4. QED
      BY <1>1, <1>7, <2>3, One
  <1>11. QED
    BY <1>2, <1>8, <1>9, <1>10 DEF LinkInv

(* After a timeout the connection is one on which a transaction gave up.   *)
LEMMA TimeoutLink ==
    ASSUME LinkInv, NEW t \in Threads, RecvTimeout(t) PROVE LinkInv'
  <1>1. /\ at[t] = "recv" /\ EndTransaction(t, "loop")
        /\ gaveUp' = IF IsOpened THEN gaveUp \cup {socket} ELSE gaveUp
        /\ UNCHANGED <<socket, conn, pending, arrived>>
    BY DEF RecvTimeout, device
  <1>2. /\ at' \in [Threads -> Places]
        /\ request' \in [Threads -> Requests \cup {NoRequest}]
        /\ HeldInTransaction'
    BY <1>1, EndLink
  <1>3. LinkType' /\ OnlyUpCarries'
    BY <1>1, <1>2 DEF LinkInv, LinkType, OnlyUpCarries
  <1>4. OneUnderWay'
    BY <1>1 DEF OneUnderWay, IsOpened
  <1>5. QED
    BY <1>2, <1>3, <1>4 DEF LinkInv

(* A failed recv() leaves nothing that a reader could take.                *)
LEMMA ErrorLink ==
    ASSUME LinkInv, NEW t \in Threads, RecvError(t) PROVE LinkInv'
  <1>1. /\ at[t] = "recv" /\ EndTransaction(t, "close") /\ RecvFails
        /\ conn' = [conn EXCEPT ![socket] = IF @ = "reset" THEN "dead" ELSE @]
        /\ UNCHANGED <<socket, pending, arrived, gaveUp>>
    BY DEF RecvError, device
  <1>2. /\ at' \in [Threads -> Places]
        /\ request' \in [Threads -> Requests \cup {NoRequest}]
        /\ HeldInTransaction'
    BY <1>1, EndLink
  <1>3. /\ IsOpened /\ conn[socket] \in {"created", "closed", "reset", "dead"}
        /\ arrived[socket] = <<>>
    BY <1>1 DEF RecvFails, Readable, SocketState
  <1>4. socket \in Conns
    BY <1>3, OpenConn DEF LinkInv
  <1>5. pending[socket] = <<>>
    BY <1>3, <1>4 DEF LinkInv, OnlyUpCarries
  <1>6. /\ conn' \in [Conns -> {"free", "created", "up", "closed", "reset", "dead"}]
        /\ conn'[socket] # "free" /\ \A k \in Conns \ {socket} : conn'[k] = conn[k]
    BY <1>1, <1>3, <1>4 DEF LinkInv, LinkType
  <1>7. LinkType' /\ OnlyUpCarries'
    BY <1>1, <1>2, <1>4, <1>5, <1>6 DEF LinkInv, LinkType, OnlyUpCarries
  <1>8. OneUnderWay'
    BY <1>1, <1>3, <1>5, QuietLink
  <1>9. QED
    BY <1>2, <1>7, <1>8 DEF LinkInv

(* Close drops what is under way on the descriptor it closes.              *)
LEMMA CloseLink ==
    ASSUME LinkInv, NEW t \in Threads, CloseDescriptor(t) PROVE LinkInv'
  <1>1. PICK there \in {"loop", "invalidate"} : Goto(t, there)
    BY DEF CloseDescriptor
  <1>2. at[t] = "close" /\ UNCHANGED <<socket, lock, request>>
    BY DEF CloseDescriptor
  <1>3. /\ at' \in [Threads -> Places]
        /\ at'[t] = there /\ \A u \in Threads \ {t} : at'[u] = at[u]
    BY <1>1, Moves DEF Places, LinkInv
  <1>4. HeldInTransaction'
    BY <1>2, <1>3 DEF LinkInv, HeldInTransaction
  <1>5. CASE ~IsOpened /\ UNCHANGED <<conn, pending, arrived, gaveUp>>
    <2>1. LinkType' /\ OnlyUpCarries'
      BY <1>2, <1>3, <1>5 DEF LinkInv, LinkType, OnlyUpCarries
    <2>2. OneUnderWay'
      BY <1>2, <1>5 DEF OneUnderWay, IsOpened
    <2>3. QED
      BY <1>4, <2>1, <2>2 DEF LinkInv
  <1>6. CASE /\ IsOpened
             /\ conn' = [conn EXCEPT ![socket] = "free"]
             /\ pending' = [pending EXCEPT ![socket] = <<>>]
             /\ arrived' = [arrived EXCEPT ![socket] = <<>>]
    <2>1. socket \in Conns
      BY <1>6, OpenConn DEF LinkInv
    <2>2. pending \in [Conns -> Seq(Requests)] /\ arrived \in [Conns -> Seq(Requests)]
      BY DEF LinkInv, LinkType
    <2>3. <<>> \in Seq(Requests)
      BY Nothing
    <2>4. /\ pending' \in [Conns -> Seq(Requests)] /\ arrived' \in [Conns -> Seq(Requests)]
          /\ pending'[socket] = <<>> /\ arrived'[socket] = <<>>
          /\ \A k \in Conns \ {socket} : pending'[k] = pending[k] /\ arrived'[k] = arrived[k]
      BY <1>6, <2>1, <2>2, <2>3
    <2>5. /\ conn' \in [Conns -> {"free", "created", "up", "closed", "reset", "dead"}]
          /\ \A k \in Conns \ {socket} : conn'[k] = conn[k]
      BY <1>6, <2>1 DEF LinkInv, LinkType
    <2>6. LinkType' /\ OnlyUpCarries'
      BY <1>2, <1>3, <2>4, <2>5 DEF LinkInv, LinkType, OnlyUpCarries
    <2>7. OneUnderWay'
      BY <1>2, <2>4, QuietLink
    <2>8. QED
      BY <1>4, <2>6, <2>7 DEF LinkInv
  <1>7. QED
    BY <1>5, <1>6 DEF CloseDescriptor

(* Without a socket there is nothing on it.                                *)
LEMMA InvalidateLink ==
    ASSUME LinkInv, NEW t \in Threads, Invalidate(t) PROVE LinkInv'
  <1>1. /\ at[t] = "invalidate" /\ socket' = Closed /\ Goto(t, "loop")
        /\ UNCHANGED <<conn, pending, arrived, lock, request, gaveUp>>
    BY DEF Invalidate, device
  <1>2. /\ at' \in [Threads -> Places]
        /\ at'[t] = "loop" /\ \A u \in Threads \ {t} : at'[u] = at[u]
    BY <1>1, Moves DEF Places, LinkInv
  <1>3. LinkType' /\ OnlyUpCarries'
    BY <1>1, <1>2 DEF LinkInv, LinkType, OnlyUpCarries
  <1>4. HeldInTransaction'
    BY <1>1, <1>2 DEF LinkInv, HeldInTransaction
  <1>5. OneUnderWay'
    BY <1>1 DEF OneUnderWay, IsOpened
  <1>6. QED
    BY <1>3, <1>4, <1>5 DEF LinkInv

(* The device answers the request, or does not.                            *)
LEMMA AnswerLink ==
    ASSUME LinkInv, NEW k \in Conns, Answer(k) \/ Ignore(k)
    PROVE  LinkInv'
  <1>1. /\ pending[k] # <<>> /\ pending' = [pending EXCEPT ![k] = Tail(@)]
        /\ UNCHANGED <<socket, conn, lock, at, request, gaveUp>>
    BY DEF Answer, Ignore
  <1>2. conn[k] = "up"
    BY <1>1 DEF LinkInv, OnlyUpCarries
  <1>3. pending \in [Conns -> Seq(Requests)] /\ arrived \in [Conns -> Seq(Requests)]
    BY DEF LinkInv, LinkType
  <1>4. /\ pending[k] \in Seq(Requests) /\ arrived[k] \in Seq(Requests)
        /\ Head(pending[k]) \in Requests /\ Tail(pending[k]) \in Seq(Requests)
        /\ Append(arrived[k], Head(pending[k])) \in Seq(Requests)
    <2>1. pending[k] \in Seq(Requests) /\ arrived[k] \in Seq(Requests)
      BY <1>3
    <2>2. Head(pending[k]) \in Requests /\ Tail(pending[k]) \in Seq(Requests)
      BY <1>1, <2>1, HeadTailProperties
    <2>3. QED
      BY <2>1, <2>2
  <1>5. PICK a \in Seq(Requests) :
           /\ arrived' = [arrived EXCEPT ![k] = a]
           /\ \/ a = arrived[k]
              \/ a = Append(arrived[k], Head(pending[k]))
    <2>1. arrived = [arrived EXCEPT ![k] = arrived[k]]
      BY <1>3
    <2>2. QED
      BY <1>4, <2>1 DEF Answer, Ignore
  <1>6. /\ pending' \in [Conns -> Seq(Requests)] /\ arrived' \in [Conns -> Seq(Requests)]
        /\ pending'[k] = Tail(pending[k]) /\ arrived'[k] = a
        /\ \A j \in Conns \ {k} : pending'[j] = pending[j] /\ arrived'[j] = arrived[j]
    BY <1>1, <1>3, <1>4, <1>5
  <1>7. LinkType' /\ OnlyUpCarries'
    BY <1>1, <1>2, <1>6 DEF LinkInv, LinkType, OnlyUpCarries
  <1>8. HeldInTransaction'
    BY <1>1 DEF LinkInv, HeldInTransaction
  <1>9. OneUnderWay'
    <2>1. SUFFICES ASSUME IsOpened, socket \notin gaveUp
                   PROVE  Quiet' \/ \E t \in Threads : Under(t)'
      BY <1>1 DEF OneUnderWay, IsOpened
    <2>2. socket \in Conns
      BY <2>1, OpenConn DEF LinkInv
    <2>3. CASE socket # k
      <3>1. pending'[socket] = pending[socket] /\ arrived'[socket] = arrived[socket]
        BY <1>6, <2>2, <2>3
      <3>2. QED
        BY <1>1, <2>1, <3>1 DEF LinkInv, OneUnderWay, Quiet, Under
    <2>4. CASE socket = k
      <3>1. PICK t \in Threads :
               at[t] = "recv" /\ pending[k] = <<request[t]>> /\ arrived[k] = <<>>
        BY <1>1, <2>1, <2>4 DEF LinkInv, OneUnderWay, Quiet, Under
      <3>2. pending'[k] = <<>> /\ (arrived'[k] = <<>> \/ arrived'[k] = <<request[t]>>)
        BY <1>5, <1>6, <3>1, One
      <3>3. QED
        BY <1>1, <2>4, <3>1, <3>2 DEF Quiet, Under
    <2>5. QED
      BY <2>3, <2>4
  <1>10. QED
    BY <1>7, <1>8, <1>9 DEF LinkInv

(* The peer's end drops what is on its way to the device.                  *)
LEMMA PeerLink == ASSUME LinkInv, NEW k \in Conns, PeerEnds(k) PROVE LinkInv'
  <1>1. /\ conn[k] = "up" /\ pending' = [pending EXCEPT ![k] = <<>>]
        /\ UNCHANGED <<socket, arrived, lock, at, request, gaveUp>>
    BY DEF PeerEnds
  <1>2. PICK end \in {"closed", "reset"} : conn' = [conn EXCEPT ![k] = end]
    BY DEF PeerEnds
  <1>3. pending \in [Conns -> Seq(Requests)] /\ arrived \in [Conns -> Seq(Requests)]
    BY DEF LinkInv, LinkType
  <1>4. /\ pending' \in [Conns -> Seq(Requests)] /\ pending'[k] = <<>>
        /\ \A j \in Conns \ {k} : pending'[j] = pending[j]
    BY <1>1, <1>3, Nothing
  <1>5. LinkType' /\ OnlyUpCarries'
    BY <1>1, <1>2, <1>3, <1>4 DEF LinkInv, LinkType, OnlyUpCarries
  <1>6. HeldInTransaction'
    BY <1>1 DEF LinkInv, HeldInTransaction
  <1>7. OneUnderWay'
    <2>1. SUFFICES ASSUME IsOpened, socket \notin gaveUp
                   PROVE  Quiet' \/ \E t \in Threads : Under(t)'
      BY <1>1 DEF OneUnderWay, IsOpened
    <2>2. socket \in Conns
      BY <2>1, OpenConn DEF LinkInv
    <2>3. pending'[socket] = pending[socket] \/ pending'[socket] = <<>>
      BY <1>4, <2>2
    <2>4. Quiet \/ \E t \in Threads : Under(t)
      BY <2>1 DEF LinkInv, OneUnderWay
    <2>5. QED
      BY <1>1, <2>3, <2>4 DEF Quiet, Under
  <1>8. QED
    BY <1>5, <1>6, <1>7 DEF LinkInv

(* Steps that touch neither threads nor connections.                       *)
LEMMA SilentLink == ASSUME LinkInv, FallSilent \/ UNCHANGED tcpVars PROVE LinkInv'
  <1>1. UNCHANGED <<socket, conn, pending, arrived, lock, at, request, gaveUp>>
    BY DEF FallSilent, tcpVars
  <1>2. LinkType' /\ HeldInTransaction' /\ OnlyUpCarries'
    BY <1>1 DEF LinkInv, LinkType, HeldInTransaction, OnlyUpCarries
  <1>3. OneUnderWay'
    BY <1>1, SameLink
  <1>4. QED
    BY <1>2, <1>3 DEF LinkInv

(* Every step keeps the invariant.                                         *)
LEMMA LinkStep == ASSUME LinkInv, [TcpNext]_tcpVars PROVE LinkInv'
  <1>1. ASSUME NEW t \in Threads, TransactionStep(t) PROVE LinkInv'
    BY <1>1, BeginLink, SendLink, ReplyLink, TimeoutLink, ErrorLink, CloseLink, InvalidateLink
       DEF TransactionStep
  <1>2. CASE Network
    BY <1>2, AnswerLink, PeerLink, SilentLink DEF Network
  <1>3. CASE UNCHANGED tcpVars
    BY <1>3, SilentLink
  <1>4. QED
    BY <1>1, <1>2, <1>3, OpenLink, ConnectLink DEF TcpNext

(* Until a transaction times out on a connection, each transaction of      *)
(* either thread reads the reply to its own request there, however often   *)
(* Socket::Close and Connect change the socket under it.                   *)
THEOREM RepliesArePaired == TcpSpec => []PairedUntilTimeout
  <1>1. LinkInv => PairedUntilTimeout
    <2>1. SUFFICES ASSUME LinkInv, NEW t \in Threads, at[t] = "recv", Readable,
                          socket \notin gaveUp
                   PROVE  Head(arrived[socket]) = request[t]
      BY DEF PairedUntilTimeout
    <2>2. IsOpened /\ arrived[socket] # <<>>
      BY <2>1 DEF Readable, SocketState
    <2>3. PICK u \in Threads : Under(u)
      BY <2>1, <2>2 DEF LinkInv, OneUnderWay, Quiet
    <2>4. u = t
      BY <2>1, <2>3 DEF LinkInv, HeldInTransaction, Under
    <2>5. arrived[socket] = <<request[t]>>
      BY <2>2, <2>3, <2>4 DEF Under
    <2>6. QED
      BY <2>5, One
  <1>2. QED
    BY <1>1, LinkInit, LinkStep, PTL DEF TcpSpec
==============================================================================
