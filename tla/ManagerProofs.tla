---------------------------- MODULE ManagerProofs ----------------------------
(* Theorems of Manager, for every type of controller: whatever fails while *)
(* the program starts and whenever it is stopped, the threads it stops are *)
(* gone before what they use is freed, and before main returns.  A device  *)
(* thread that has not registered itself when CloseThreads looks for it is *)
(* not among them.                                                         *)
EXTENDS Manager, TLAPS

-----------------------------------------------------------------------------
(* While the program starts, the flags are those of the steps done.        *)
FlagsUp ==
    /\ main = "memDb" => flags = {}
    /\ main = "device" => flags = {"memDb"}
    /\ main = "io" => flags = {"memDb", "device"}
    /\ main \in {"netSlave", "netMaster"} => flags = {"memDb", "device", "io"}
    /\ main = "ctrl" => flags = {"memDb", "device", "io", "net"}

(* While it stops, the flags of the components that are down are cleared.  *)
FlagsDown ==
    /\ main \in {"pvStop", "pvJoin"} => ("ctrl" \in flags <=> "pvVol" \in flags)
    /\ main = "net" => flags \subseteq {"memDb", "device", "io", "net"}
    /\ main \in {"ioStop", "ioJoin", "poolStop", "poolJoin", "poolDelete"} =>
           flags \subseteq {"memDb", "device", "io"}
    /\ main = "freeMemDb" => flags \subseteq {"memDb", "device"}
    /\ main = "freeDevice" => flags \subseteq {"device"}
    /\ main = "exit" => flags = {}

(* What the next threads will use is there when they are started.          *)
Held ==
    /\ main \in (Starting \ {"memDb"}) \cup {"run"} => resource["memDb"] = "live"
    /\ main \in (Starting \ {"memDb", "device"}) \cup {"run"} => resource["device"] = "live"

(* A thread that can be stopped runs only between its start and its join,  *)
(* with the flag that leads Uninit to its join, and with what it uses.     *)
PvRuns ==
    ~HasEnded("pvVol") => /\ main \in {"run", "pvStop", "pvJoin", "undefined"}
                          /\ "pvVol" \in flags
                          /\ resource["memDb"] = "live"

ListenerRuns ==
    ~HasEnded("modbusListen") =>
        /\ main \notin {"memDb", "device", "io", "poolStop", "poolJoin", "poolDelete",
                       "freeMemDb", "freeDevice", "exit"}
        /\ "io" \in flags
        /\ resource["factory"] = "live"

PoolRuns ==
    ~HasEnded("pool") /\ missed = {} =>
        /\ main \notin {"memDb", "device", "io", "poolDelete", "freeMemDb", "freeDevice", "exit"}
        /\ "io" \in flags
        /\ \A r \in {"memDb", "device", "threads"} : resource[r] = "live"

(* It never holds a stale pointer: it looks nothing up during a round.     *)
NeverStale ==
    \A t \in Stoppable \ missed : run[t] \in {"none", "created", "check", "work"}

(* A thread is missed when main is past the pool.                          *)
MissedLate ==
    missed # {} => main \in {"poolDelete", "freeMemDb", "freeDevice", "exit", "undefined"}

IInv == TypeOK /\ FlagsUp /\ FlagsDown /\ Held /\ PvRuns /\ ListenerRuns /\ PoolRuns
            /\ NeverStale /\ MissedLate

-----------------------------------------------------------------------------
(* The threads by what they can be: a Stoppable one is no service, looks   *)
(* nothing up in the middle of a round, and does not end by itself.        *)
LEMMA StoppableFacts ==
    /\ Stoppable = {"pvVol", "modbusListen", "pool"} /\ Stoppable \subseteq Thread
    /\ \A t \in Stoppable : /\ t \notin SlaveThreads \cup MasterThreads \cup Services
                            /\ Iterates(t) = {} /\ Again(t) = "check" /\ ~EndsByItself(t)
    /\ Begin("pvVol") = "check" /\ Begin("modbusListen") = "check" /\ Begin("pool") = "created"
    /\ Keeps("pvVol") = {"memDb"}
    /\ Keeps("modbusListen") = {"factory"}
    /\ Keeps("pool") = {"memDb", "device", "threads"}
  BY DEF Stoppable, Thread, SlaveThreads, MasterThreads, Services, Iterates, Begin,
         Again, EndsByItself, Keeps

LEMMA BeginType == \A t \in Thread : Begin(t) \in RunStates /\ Again(t) \in RunStates
  BY DEF Begin, Again, RunStates

LEMMA InitInv == Init => IInv
  BY StoppableFacts DEF Init, IInv, TypeOK, RunStates, FlagsUp, FlagsDown, Held, PvRuns, ListenerRuns,
     PoolRuns, NeverStale, MissedLate,
     HasEnded, Starting, Stopping, Resource

-----------------------------------------------------------------------------
(* Starting threads changes no other thread.                               *)
LEMMA StartKeeps ==
    ASSUME TypeOK, NEW threads \in SUBSET Thread, Start(threads)
    PROVE  /\ run' \in [Thread -> RunStates]
           /\ \A t \in Thread \ threads : run'[t] = run[t]
           /\ \A t \in threads : run'[t] \in {run[t], Begin(t)}
  BY BeginType DEF Start, TypeOK

(* Allocating resources takes none away.                                   *)
LEMMA AllocateKeeps ==
    ASSUME TypeOK, NEW rs \in SUBSET Resource, Allocate(rs)
    PROVE  /\ resource' \in [Resource -> {"none", "live", "freed"}]
           /\ \A r \in Resource : resource'[r] = IF r \in rs THEN "live" ELSE resource[r]
  BY DEF Allocate, TypeOK

(* Freeing resources leaves the other resources and the stoppable threads  *)
(* alone.                                                                  *)
LEMMA FreeKeeps ==
    ASSUME TypeOK, NEW rs \in SUBSET Resource, Free(rs)
    PROVE  /\ resource' \in [Resource -> {"none", "live", "freed"}]
           /\ run' \in [Thread -> RunStates]
           /\ \A r \in Resource \ rs : resource'[r] = resource[r]
           /\ \A t \in Stoppable : run'[t] = run[t]
  <1>1. resource' \in [Resource -> {"none", "live", "freed"}]
        /\ \A r \in Resource \ rs : resource'[r] = resource[r]
    BY DEF Free, TypeOK
  <1>2. PICK inside \in SUBSET {t \in Thread : run[t] = "work" /\ Iterates(t) \cap rs # {}} :
            run' = [t \in Thread |-> IF t \in inside THEN "stale" ELSE run[t]]
    BY DEF Free
  <1>3. \A t \in Stoppable : t \notin inside
    BY <1>2, StoppableFacts
  <1>4. QED
    BY <1>1, <1>2, <1>3, StoppableFacts DEF TypeOK, RunStates

(* Starting the network threads with their configurations leaves the       *)
(* stoppable threads and what they use alone.                              *)
LEMMA NetStart ==
    ASSUME TypeOK, NEW rs \in SUBSET {"masterConfigs", "slaveConfigs"},
           NEW threads \in SUBSET (SlaveThreads \cup MasterThreads),
           Allocate(rs), Start(threads)
    PROVE  /\ resource' \in [Resource -> {"none", "live", "freed"}]
           /\ run' \in [Thread -> RunStates]
           /\ \A r \in {"memDb", "device", "factory", "threads"} : resource'[r] = resource[r]
           /\ \A t \in Stoppable : run'[t] = run[t]
  <1>1. rs \in SUBSET Resource /\ {"memDb", "device", "factory", "threads"} \subseteq Resource \ rs
    BY DEF Resource
  <1>2. threads \in SUBSET Thread /\ Stoppable \subseteq Thread \ threads
    BY StoppableFacts DEF Thread
  <1>3. QED
    BY <1>1, <1>2, AllocateKeeps, StartKeeps

(* Telling a stoppable thread to stop.                                     *)
LEMMA TellType ==
    ASSUME TypeOK, NEW t \in Stoppable, Tell(t) \/ UNCHANGED told
    PROVE  told' \subseteq Stoppable
  BY DEF TypeOK, Tell

LEMMA ResourceNames ==
    {"memDb", "device", "masterConfigs", "slaveConfigs", "factory", "threads"} = Resource
  BY DEF Resource

-----------------------------------------------------------------------------
(* Init, one step at a time.                                               *)
LEMMA InitSteps == IInv /\ ManagerInit => IInv'
  <1> SUFFICES ASSUME IInv, ManagerInit PROVE IInv'
    OBVIOUS
  <1> USE StoppableFacts, ResourceNames
      DEF IInv, FlagsUp, FlagsDown, Held, PvRuns, ListenerRuns, PoolRuns, NeverStale, MissedLate,
     HasEnded,
          Starting, Stopping, Success, Fail
  <1>1. CASE InitMemDb
    <2>1. CASE Success("memDb", "device") /\ Allocate({"memDb"})
      BY <1>1, <2>1, AllocateKeeps DEF InitMemDb, TypeOK
    <2>2. CASE Fail /\ UNCHANGED resource
      BY <1>1, <2>2 DEF InitMemDb, TypeOK
    <2>3. QED
      BY <1>1, <2>1, <2>2 DEF InitMemDb
  <1>2. CASE InitDevice
    BY <1>2, AllocateKeeps DEF InitDevice, TypeOK
  <1>3. CASE InitIo
    <2>1. CASE Fail /\ UNCHANGED <<resource, run>>
      BY <1>3, <2>1 DEF InitIo, TypeOK
    <2>2. CASE Success("io", "netSlave") /\ Allocate({"factory", "threads"})
               /\ Start({"pool", "modbusListen"})
      <3>1. /\ run' \in [Thread -> RunStates]
            /\ \A t \in Thread \ {"pool", "modbusListen"} : run'[t] = run[t]
            /\ \A t \in {"pool", "modbusListen"} : run'[t] \in {run[t], Begin(t)}
        BY <2>2, StartKeeps
      <3>2. /\ resource' \in [Resource -> {"none", "live", "freed"}]
            /\ \A r \in Resource :
                  resource'[r] = IF r \in {"factory", "threads"} THEN "live" ELSE resource[r]
        BY <2>2, AllocateKeeps
      <3>3. QED
        BY <1>3, <2>2, <3>1, <3>2 DEF InitIo, TypeOK
    <2>3. QED
      BY <1>3, <2>1, <2>2 DEF InitIo
  <1>4. CASE InitNetSlave
    <2>1. /\ resource' \in [Resource -> {"none", "live", "freed"}]
          /\ run' \in [Thread -> RunStates]
          /\ \A r \in {"memDb", "device", "factory", "threads"} : resource'[r] = resource[r]
          /\ \A t \in Stoppable : run'[t] = run[t]
          /\ configured' \in BOOLEAN
      <3>1. CASE configured' = TRUE /\ Allocate({"masterConfigs"}) /\ Start(SlaveThreads)
        BY <3>1, NetStart
      <3>2. CASE UNCHANGED <<configured, resource, run>>
        BY <3>2 DEF TypeOK
      <3>3. QED
        BY <1>4, <3>1, <3>2 DEF InitNetSlave
    <2>2. QED
      BY <1>4, <2>1 DEF InitNetSlave, TypeOK
  <1>5. CASE InitNetMaster
    <2>1. CASE Success("net", "ctrl") /\ Allocate({"slaveConfigs"}) /\ Start(MasterThreads)
      <3>1. /\ resource' \in [Resource -> {"none", "live", "freed"}]
            /\ run' \in [Thread -> RunStates]
            /\ \A r \in {"memDb", "device", "factory", "threads"} : resource'[r] = resource[r]
            /\ \A t \in Stoppable : run'[t] = run[t]
        BY <2>1, NetStart
      <3>2. QED
        BY <1>5, <2>1, <3>1 DEF InitNetMaster, TypeOK
    <2>2. CASE Fail /\ UNCHANGED <<resource, run>>
      BY <1>5, <2>2 DEF InitNetMaster, TypeOK
    <2>3. QED
      BY <1>5, <2>1, <2>2 DEF InitNetMaster
  <1>6. CASE InitCtrl
    <2>1. /\ run' \in [Thread -> RunStates]
          /\ \A t \in Stoppable \ {"pvVol"} : run'[t] = run[t]
          /\ run'["pvVol"] \in {run["pvVol"], "check"}
      <3>1. {"pvVol"} \in SUBSET Thread /\ Stoppable \ {"pvVol"} \subseteq Thread \ {"pvVol"}
        OBVIOUS
      <3>2. QED
        BY <1>6, <3>1, StartKeeps DEF InitCtrl
    <2>2. QED
      BY <1>6, <2>1 DEF InitCtrl, TypeOK
  <1>7. QED
    BY <1>1, <1>2, <1>3, <1>4, <1>5, <1>6 DEF ManagerInit

-----------------------------------------------------------------------------
(* Uninit, one step at a time: what is freed is freed after the join of    *)
(* the threads that keep it.                                               *)
LEMMA UninitSteps == IInv /\ ManagerUninit => IInv'
  <1> SUFFICES ASSUME IInv, ManagerUninit PROVE IInv'
    OBVIOUS
  <1> USE StoppableFacts, ResourceNames
      DEF IInv, FlagsUp, FlagsDown, Held, PvRuns, ListenerRuns, PoolRuns, NeverStale, MissedLate,
     HasEnded,
          Starting, Stopping
  <1>1. CASE StopPv
    <2>1. TypeOK'
      <3>1. told' \subseteq Stoppable /\ main' \in {"pvJoin", "net"}
        BY <1>1, TellType DEF StopPv
      <3>2. QED
        BY <1>1, <3>1 DEF StopPv, TypeOK
    <2>2. FlagsUp' /\ FlagsDown' /\ Held'
      BY <1>1 DEF StopPv, TypeOK
    <2>3. PvRuns' /\ ListenerRuns' /\ PoolRuns' /\ NeverStale' /\ MissedLate'
      BY <1>1 DEF StopPv, TypeOK
    <2>4. QED
      BY <2>1, <2>2, <2>3
  <1>2. CASE JoinPv
    <2>1. TypeOK' /\ FlagsUp' /\ FlagsDown' /\ Held'
      BY <1>2 DEF JoinPv, TypeOK
    <2>2. PvRuns' /\ ListenerRuns' /\ PoolRuns' /\ NeverStale' /\ MissedLate'
      BY <1>2 DEF JoinPv, TypeOK
    <2>3. QED
      BY <2>1, <2>2
  <1>3. CASE UninitNet
    <2>1. /\ resource' \in [Resource -> {"none", "live", "freed"}]
          /\ run' \in [Thread -> RunStates]
          /\ \A r \in {"memDb", "device", "factory", "threads"} : resource'[r] = resource[r]
          /\ \A t \in Stoppable : run'[t] = run[t]
      <3>1. CASE Free({"slaveConfigs", "masterConfigs"})
        BY <3>1, FreeKeeps
      <3>2. CASE UNCHANGED <<resource, run>>
        BY <3>2 DEF TypeOK
      <3>3. QED
        BY <1>3, <3>1, <3>2 DEF UninitNet
    <2>2. QED
      BY <1>3, <2>1 DEF UninitNet, TypeOK
  <1>4. CASE StopListener
    BY <1>4 DEF StopListener, Tell, TypeOK
  <1>5. CASE JoinListener
    <2>1. /\ resource' \in [Resource -> {"none", "live", "freed"}]
          /\ run' \in [Thread -> RunStates]
          /\ \A r \in {"memDb", "device", "threads"} : resource'[r] = resource[r]
          /\ \A t \in Stoppable : run'[t] = run[t]
      BY <1>5, FreeKeeps DEF JoinListener
    <2>2. QED
      BY <1>5, <2>1 DEF JoinListener, TypeOK
  <1>6. CASE StopPool
    BY <1>6 DEF StopPool, Tell, TypeOK
  <1>7. CASE JoinPool
    BY <1>7 DEF JoinPool, TypeOK
  <1>11. CASE DeletePool
    <2>1. /\ resource' \in [Resource -> {"none", "live", "freed"}]
          /\ run' \in [Thread -> RunStates]
          /\ \A r \in {"memDb", "device", "factory"} : resource'[r] = resource[r]
          /\ \A t \in Stoppable : run'[t] = run[t]
      BY <1>11, FreeKeeps DEF DeletePool
    <2>2. QED
      BY <1>11, <2>1 DEF DeletePool, TypeOK
  <1>8. CASE UninitMemDb
    <2>1. /\ resource' \in [Resource -> {"none", "live", "freed"}]
          /\ run' \in [Thread -> RunStates]
          /\ \A t \in Stoppable : run'[t] = run[t]
      <3>1. CASE Free({"memDb"})
        BY <3>1, FreeKeeps
      <3>2. CASE UNCHANGED <<resource, run>>
        BY <3>2 DEF TypeOK
      <3>3. QED
        BY <1>8, <3>1, <3>2 DEF UninitMemDb
    <2>2. QED
      BY <1>8, <2>1 DEF UninitMemDb, TypeOK
  <1>9. CASE FreeDevice
    <2>1. /\ resource' \in [Resource -> {"none", "live", "freed"}]
          /\ run' \in [Thread -> RunStates]
          /\ \A t \in Stoppable : run'[t] = run[t]
      <3>1. CASE Free({"device"})
        BY <3>1, FreeKeeps
      <3>2. CASE UNCHANGED <<resource, run>>
        BY <3>2 DEF TypeOK
      <3>3. QED
        BY <1>9, <3>1, <3>2 DEF FreeDevice
    <2>2. QED
      BY <1>9, <2>1 DEF FreeDevice, TypeOK
  <1>10. QED
    BY <1>1, <1>2, <1>3, <1>4, <1>5, <1>6, <1>7, <1>8, <1>9, <1>11 DEF ManagerUninit

-----------------------------------------------------------------------------
(* A thread's own steps do not disturb the stoppable threads, except by    *)
(* ending one.                                                             *)
LEMMA RunSteps ==
    ASSUME IInv, NEW t \in Thread, Run(t)
    PROVE  IInv'
  <1> USE DEF IInv, FlagsUp, FlagsDown, Held, PvRuns, ListenerRuns, PoolRuns, NeverStale, MissedLate,
     HasEnded,
              Starting, Stopping
  <1>5. CASE Register(t)
    <2>1. /\ run' \in [Thread -> RunStates]
          /\ \A s \in Stoppable : run[s] = "none" => run'[s] = "none"
          /\ \A s \in Stoppable \ missed : run'[s] \in {"none", "created", "check", "work"}
      BY <1>5, StoppableFacts DEF Register, TypeOK, RunStates
    <2>2. QED
      BY <1>5, <2>1, StoppableFacts DEF Register, TypeOK
  <1>1. CASE Check(t)
    <2>1. /\ run' \in [Thread -> RunStates]
          /\ \A s \in Stoppable : run[s] = "none" => run'[s] = "none"
          /\ \A s \in Stoppable \ missed : run'[s] \in {"none", "created", "check", "work"}
      BY <1>1, StoppableFacts DEF Check, TypeOK, RunStates
    <2>2. QED
      BY <1>1, <2>1, StoppableFacts DEF Check, TypeOK
  <1>2. CASE Work(t)
    <2>1. PICK end \in {Again(t)} \cup (IF EndsByItself(t) THEN {"none"} ELSE {}),
               new \in SUBSET {s \in ServiceOf(t) : HasEnded(s)} :
              run' = [s \in Thread |-> IF s = t THEN end
                                       ELSE IF s \in new THEN Begin(s) ELSE run[s]]
      BY <1>2 DEF Work
    <2>2. new \subseteq Services
      BY <2>1 DEF ServiceOf, Services
    <2>3. /\ run' \in [Thread -> RunStates]
      BY <2>1, BeginType DEF TypeOK, RunStates
    <2>4. /\ \A s \in Stoppable : run[s] = "none" => run'[s] = "none"
          /\ \A s \in Stoppable \ missed : run'[s] \in {"none", "created", "check", "work"}
      BY <1>2, <2>1, <2>2, StoppableFacts DEF Work
    <2>5. QED
      BY <1>2, <2>3, <2>4, StoppableFacts DEF Work, TypeOK
  <1>3. CASE UseFreed(t)
    <2>1. t \notin Stoppable \ missed
      BY <1>3, StoppableFacts DEF UseFreed, UsesFreed, TypeOK
    <2>2. /\ run' \in [Thread -> RunStates]
          /\ \A s \in Stoppable \ missed : run'[s] = run[s]
          /\ \A s \in Stoppable : s # t => run'[s] = run[s]
      BY <1>3, <2>1, StoppableFacts DEF UseFreed, TypeOK, RunStates
    <2>3. QED
      BY <1>3, <2>1, <2>2, StoppableFacts DEF UseFreed, TypeOK
  <1>4. QED
    BY <1>1, <1>2, <1>3, <1>5 DEF Run

(* Every step keeps the invariant.                                         *)
LEMMA Steps == IInv /\ [Next]_vars => IInv'
  <1> SUFFICES ASSUME IInv, [Next]_vars PROVE IInv'
    OBVIOUS
  <1>1. CASE LeaveLoop
    BY <1>1, StoppableFacts DEF LeaveLoop, IInv, TypeOK, FlagsUp, FlagsDown, Held, PvRuns,
       ListenerRuns, PoolRuns, NeverStale, MissedLate,
     HasEnded, Starting, Stopping
  <1>2. CASE Signal
    BY <1>2, StoppableFacts DEF Signal, IInv, TypeOK, FlagsUp, FlagsDown, Held, PvRuns,
       ListenerRuns, PoolRuns, NeverStale, MissedLate,
     HasEnded, Starting, Stopping
  <1>3. CASE UNCHANGED vars
    BY <1>3 DEF vars, IInv, TypeOK, FlagsUp, FlagsDown, Held, PvRuns, ListenerRuns, PoolRuns,
       NeverStale, MissedLate, HasEnded
  <1>4. QED
    BY <1>1, <1>2, <1>3, InitSteps, UninitSteps, RunSteps DEF Next, Main

THEOREM Invariance == Spec => []IInv
  BY InitInv, Steps, PTL DEF Spec

(* Every state is typed, and the program runs only with every flag set.    *)
THEOREM TypeCorrect == Spec => []TypeOK
  <1>1. IInv => TypeOK
    BY DEF IInv
  <1>2. QED
    BY <1>1, Invariance, PTL

(* The threads that Uninit stops, all that can be stopped but a device     *)
(* thread CloseThreads did not find, keep what they use as long as they    *)
(* run.                                                                    *)
THEOREM StopsBeforeFree == Spec => []StoppableIsSafe
  <1>1. IInv => StoppableIsSafe
    BY StoppableFacts DEF IInv, TypeOK, PvRuns, ListenerRuns, PoolRuns, StoppableIsSafe
  <1>2. QED
    BY <1>1, Invariance, PTL

(* When main has returned, every component is down, and of the threads     *)
(* that can be stopped none is left but one CloseThreads did not find.     *)
THEOREM StoppedWhenDone == Spec => []StoppedAtExit
  <1>1. IInv => StoppedAtExit
    BY StoppableFacts DEF IInv, TypeOK, FlagsDown, PvRuns, ListenerRuns, PoolRuns, StoppedAtExit
  <1>2. QED
    BY <1>1, Invariance, PTL
==============================================================================
