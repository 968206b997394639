---------------------------- MODULE SocketThreads ----------------------------
(***************************************************************************)
(* The pool of TCP device threads (io/socket/SocketThreads) and the life   *)
(* cycle of a thread object (etc/socket/Thread).  OpenThreads creates, for *)
(* every address, a TcpClient, an acquisition thread "io" and a control    *)
(* thread "ctrl" that share it; CloseThreads stops the threads and deletes *)
(* everything.  Both are run by the thread of main.                        *)
(*                                                                         *)
(* An action is one step between two accesses to something shared: m_state, *)
(* the thread registry m_threads, an object that another thread deletes.   *)
(* What a thread does once an object it needs is deleted is undefined: it  *)
(* is "undefined" and the model says nothing more of it.                   *)
(***************************************************************************)
EXTENDS Naturals, FiniteSets

CONSTANT Addr   \* the distinct IP and port pairs of the configuration

ASSUME SocketThreadsAssumption == IsFiniteSet(Addr) /\ Addr # {}

Thread == {"io", "ctrl"} \X Addr
Client(t) == t[2]

VARIABLES main,      \* where the thread of main is
          todo,      \* m_socketTypeDevs still to be handled
          cur,       \* the thread object main is working on
          object,    \* memory of each Thread object
          client,    \* memory and socket of each TcpClient
          state,     \* m_state
          handle,    \* m_handle # 0
          pc,        \* where the thread itself is
          registry,  \* m_threads
          skipped    \* (history) the threads CloseThreads did not find registered

vars == <<main, todo, cur, object, client, state, handle, pc, registry, skipped>>
memory == <<object, client>>

InOpenThreads == {"open", "start", "started", "rollback", "joinRollback"}

(* m_socketThreads and m_socketCtrlThreads.                                *)
ListOf(kind) == {t \in {kind} \X Addr : object[t] = "live"}

Delete(t) == object' = [object EXCEPT ![t] = "deleted"]

-----------------------------------------------------------------------------
Init ==
    /\ main = "open" /\ todo = Addr
    /\ cur \in Thread
    /\ object = [t \in Thread |-> "none"]
    /\ client = [a \in Addr |-> "none"]
    /\ state = [t \in Thread |-> "STOPPED"]
    /\ handle = [t \in Thread |-> FALSE]
    /\ pc = [t \in Thread |-> "none"]
    /\ registry = {} /\ skipped = {}

(* OpenThreads, the next address: a client and the acquisition thread.     *)
NewPair(a) ==
    /\ main = "open" /\ a \in todo
    /\ todo' = todo \ {a}
    /\ cur' = <<"io", a>>
    /\ client' = [client EXCEPT ![a] = "closed"]
    /\ object' = [object EXCEPT ![<<"io", a>>] = "live"]
    /\ main' = "start"
    /\ UNCHANGED <<state, handle, pc, registry, skipped>>

(* Thread::Start: pthread_create ...                                       *)
Create ==
    /\ main = "start"
    /\ handle' = [handle EXCEPT ![cur] = TRUE]
    /\ pc' = [pc EXCEPT ![cur] = "created"]
    /\ main' = "started"
    /\ UNCHANGED <<todo, cur, memory, state, registry, skipped>>

(* ... and only then m_state = RUNNING.  After the acquisition thread the  *)
(* control thread is created, after the control thread the next address.   *)
SetRunning ==
    /\ main = "started"
    /\ state' = [state EXCEPT ![cur] = "RUNNING"]
    /\ \/ /\ cur[1] = "io"
          /\ cur' = <<"ctrl", Client(cur)>>
          /\ object' = [object EXCEPT ![cur'] = "live"]
          /\ main' = "start"
       \/ /\ cur[1] = "ctrl"
          /\ main' = "open"
          /\ UNCHANGED <<cur, object>>
    /\ UNCHANGED <<todo, client, handle, pc, registry, skipped>>

(* pthread_create fails: the thread object is deleted, and for the control *)
(* thread the acquisition thread has to be stopped first.                  *)
CreateFails ==
    /\ main = "start"
    /\ Delete(cur)
    /\ \/ /\ cur[1] = "io"
          /\ client' = [client EXCEPT ![Client(cur)] = "deleted"]
          /\ main' = "open"
          /\ UNCHANGED cur
       \/ /\ cur[1] = "ctrl"
          /\ cur' = <<"io", Client(cur)>>
          /\ main' = "rollback"
          /\ UNCHANGED client
    /\ UNCHANGED <<todo, state, handle, pc, registry, skipped>>

(* Thread::Stop is Thread::Join: STOPPING ...                              *)
RequestStop(there) ==
    /\ state' = [state EXCEPT ![cur] = IF handle[cur] THEN "STOPPING" ELSE "STOPPED"]
    /\ main' = there
    /\ UNCHANGED <<todo, cur, memory, handle, pc, registry, skipped>>

(* ... and, after a wait of 5 s and then without limit, STOPPED.           *)
Joined_OrTimeout ==  \* mutant: Join returns after 5 s in any case
    /\ state' = [state EXCEPT ![cur] = "STOPPED"]
    /\ handle' = [handle EXCEPT ![cur] = FALSE]

Joined ==
    /\ handle[cur] => pc[cur] = "ended"
    /\ state' = [state EXCEPT ![cur] = "STOPPED"]
    /\ handle' = [handle EXCEPT ![cur] = FALSE]

Rollback == main = "rollback" /\ RequestStop("joinRollback")

JoinRollback_KeepsClient ==  \* mutant: the client is left behind
    /\ main = "joinRollback"
    /\ Joined
    /\ Delete(cur)
    /\ main' = "open"
    /\ UNCHANGED <<todo, cur, client, pc, registry, skipped>>

JoinRollback ==
    /\ main = "joinRollback"
    /\ Joined
    /\ Delete(cur)
    /\ client' = [client EXCEPT ![Client(cur)] = "deleted"]
    /\ main' = "open"
    /\ UNCHANGED <<todo, cur, pc, registry, skipped>>

(* OpenThreads returns: ERR_OK, or ERR_FAILED with nothing left to close.  *)
Opened ==
    /\ main = "open" /\ todo = {}
    /\ main' = IF ListOf("ctrl") = {} THEN "failed" ELSE "opened"
    /\ UNCHANGED <<todo, cur, memory, state, handle, pc, registry, skipped>>

-----------------------------------------------------------------------------
(* CloseThreads, at any time after OpenThreads: first it closes the        *)
(* sockets of the clients, one after the other.                            *)
BeginClose ==
    /\ main = "opened"
    /\ main' = "closeClients"
    /\ todo' = {a \in Addr : client[a] \in {"closed", "open"}}
    /\ UNCHANGED <<cur, memory, state, handle, pc, registry, skipped>>

CloseClient(a) ==
    /\ main = "closeClients" /\ a \in todo
    /\ todo' = todo \ {a}
    /\ client' = [client EXCEPT ![a] = "closed"]
    /\ UNCHANGED <<main, cur, object, state, handle, pc, registry, skipped>>

(* The control threads first, then the acquisition threads.                *)
NextThread(t) ==
    /\ main = "closeClients" /\ todo = {}
    /\ t \in IF ListOf("ctrl") # {} THEN ListOf("ctrl") ELSE ListOf("io")
    /\ cur' = t
    /\ main' = "alive"
    /\ UNCHANGED <<todo, memory, state, handle, pc, registry, skipped>>

(* if (IsAlive()) Stop(): IsAlive looks the handle up in the registry.     *)
StopIfAlive ==
    /\ main = "alive"
    /\ cur \in registry
    /\ RequestStop("join")

JoinAndDelete ==
    /\ main = "join"
    /\ Joined
    /\ Delete(cur)
    /\ main' = "closeClients"
    /\ UNCHANGED <<todo, cur, client, pc, registry, skipped>>

(* Not registered, because it has not begun or is past Remove: deleted     *)
(* without Stop.  The thread may move on between the test and the delete.  *)
NotAlive ==
    /\ main = "alive"
    /\ cur \notin registry
    /\ skipped' = skipped \cup {cur}
    /\ main' = "delete"
    /\ UNCHANGED <<todo, cur, memory, state, handle, pc, registry>>

DeleteNotAlive ==
    /\ main = "delete"
    /\ Delete(cur)
    /\ main' = "closeClients"
    /\ UNCHANGED <<todo, cur, client, state, handle, pc, registry, skipped>>

DeleteClients ==
    /\ main = "closeClients" /\ todo = {} /\ ListOf("ctrl") \cup ListOf("io") = {}
    /\ client' = [a \in Addr |-> IF client[a] = "none" THEN "none" ELSE "deleted"]
    /\ main' = "closed"
    /\ UNCHANGED <<todo, cur, object, state, handle, pc, registry, skipped>>

-----------------------------------------------------------------------------
(* The threads.  Thread::Init: Add, Run, Remove, and a last look at        *)
(* m_autoDel, which is in the object.                                      *)
ThreadGoto(t, there) == pc' = [pc EXCEPT ![t] = there]

Add(t) ==
    /\ pc[t] = "created" /\ object[t] = "live"
    /\ registry' = registry \cup {t}
    /\ ThreadGoto(t, "check")
    /\ UNCHANGED <<main, todo, cur, memory, state, handle, skipped>>

IsThreadStopping_OnlyStopped(t) == state[t] = "STOPPED"  \* mutant: STOPPING ignored
IsThreadStopping(t) == state[t] \in {"STOPPING", "STOPPED"}

(* Run, the test at the head of the loop and in every InterruptibleSleepMs.*)
Check(t) ==
    /\ pc[t] = "check" /\ object[t] = "live"
    /\ ThreadGoto(t, IF IsThreadStopping(t) THEN "ending" ELSE "work")
    /\ UNCHANGED <<main, todo, cur, memory, state, handle, registry, skipped>>

(* Run, one round.  The acquisition thread connects a closed client, which *)
(* may fail; both talk to their devices through an open one, which may     *)
(* close it.                                                               *)
Work(t) ==
    /\ pc[t] = "work" /\ object[t] = "live"
    /\ client[Client(t)] \in {"closed", "open"}
    /\ \/ UNCHANGED client
       \/ /\ t[1] = "io" \/ client[Client(t)] = "open"
          /\ client' = [client EXCEPT ![Client(t)] = IF @ = "open" THEN "closed" ELSE "open"]
    /\ ThreadGoto(t, "check")
    /\ UNCHANGED <<main, todo, cur, object, state, handle, registry, skipped>>

RemoveThread(t) ==
    /\ pc[t] = "ending" /\ object[t] = "live"
    /\ registry' = registry \ {t}
    /\ ThreadGoto(t, "removed")
    /\ UNCHANGED <<main, todo, cur, memory, state, handle, skipped>>

End(t) ==
    /\ pc[t] = "removed" /\ object[t] = "live"
    /\ ThreadGoto(t, "ended")
    /\ UNCHANGED <<main, todo, cur, memory, state, handle, registry, skipped>>

NeedsObject(t) == pc[t] \in {"created", "check", "work", "ending", "removed"}
NeedsClient(t) == pc[t] \in {"check", "work"}

(* A thread reaches for memory that was freed.                             *)
UseAfterFree(t) ==
    /\ \/ NeedsObject(t) /\ object[t] = "deleted"
       \/ pc[t] = "work" /\ client[Client(t)] = "deleted"
    /\ ThreadGoto(t, "undefined")
    /\ UNCHANGED <<main, todo, cur, memory, state, handle, registry, skipped>>

OpenThreads == \/ \E a \in Addr : NewPair(a)
               \/ Create \/ SetRunning \/ CreateFails \/ Rollback \/ JoinRollback \/ Opened

CloseThreads == \/ \E a \in Addr : CloseClient(a)
                \/ \E t \in Thread : NextThread(t)
                \/ StopIfAlive \/ JoinAndDelete \/ NotAlive \/ DeleteNotAlive \/ DeleteClients

Run(t) == Add(t) \/ Check(t) \/ Work(t) \/ RemoveThread(t) \/ End(t) \/ UseAfterFree(t)

Next == OpenThreads \/ BeginClose \/ CloseThreads \/ \E t \in Thread : Run(t)

(* The operating system runs every thread; every wait of a thread has a    *)
(* timeout (connect, 400 ms for a reply, 100 ms slices of a sleep).  That  *)
(* the system is told to stop is not assumed.                              *)
Fairness == /\ WF_vars(OpenThreads) /\ WF_vars(CloseThreads)
            /\ \A t \in Thread : WF_vars(Run(t))

Spec == Init /\ [][Next]_vars
FairSpec == Spec /\ Fairness

-----------------------------------------------------------------------------
Safe(t) == /\ NeedsObject(t) => object[t] = "live"
           /\ NeedsClient(t) => client[Client(t)] \in {"closed", "open"}
           /\ pc[t] # "undefined"

(* No object is freed under a thread that uses it, but for one that        *)
(* CloseThreads looks for in the registry and does not find: however       *)
(* pthread_create fails in OpenThreads (BUG_FIX_SUMMARY.md 2.2, the        *)
(* unconditional Stop of the roll-back), and in CloseThreads, as Stop      *)
(* comes before delete and does not return before the thread has ended     *)
(* (2.2, Join after a timeout).                                            *)
ThreadsAreSafe == \A t \in Thread \ skipped : Safe(t)

(* OpenThreads leaves an address with both threads and their client, or    *)
(* with none of the three, at whichever call pthread_create fails.         *)
AllOrNothing ==
    main \in {"opened", "failed"} =>
        \A a \in Addr :
            LET live == {t \in {"io", "ctrl"} \X {a} : object[t] = "live"} IN
            \/ Cardinality(live) = 2 /\ client[a] \in {"closed", "open"}
            \/ live = {} /\ client[a] \notin {"closed", "open"}

(* CloseThreads ends: every thread sees the request to stop, whatever it   *)
(* is doing.                                                               *)
CloseEnds == main = "closeClients" ~> (main = "closed" \/ \E t \in Thread : ~Safe(t))

(* BUG_FIX_SUMMARY.md 2.4: shutting down never frees an object under a     *)
(* thread that still runs.  It does not hold: README, Behaviour that falls *)
(* short.                                                                  *)
CloseIsSafe == \A t \in Thread : Safe(t)

(* Thread.h:62, "RUNNING: the thread is running".  It does not hold:       *)
(* README, Behaviour that falls short.                                     *)
RunningHasNotEnded == \A t \in Thread : state[t] = "RUNNING" => pc[t] # "ended"
==============================================================================
