------------------------------- MODULE Manager -------------------------------
(***************************************************************************)
(* Starting and stopping the program: main, Manager, io/IoManager,         *)
(* net/NetManager with its SlaveManager and MasterManager, and             *)
(* etc/socket/TcpThreadedServer.  The thread of main starts everything in  *)
(* order and, told by a signal, stops what it can stop and frees what the  *)
(* threads share.                                                          *)
(*                                                                         *)
(* A thread that can be stopped alternates between "check", where it sees  *)
(* whether it is told to, and "work", where it uses what it shares with    *)
(* the others; the other threads are always at "work".  The device threads *)
(* are one thread here, "pool", which is "created" until it has registered *)
(* itself; SocketThreads is about them all, and its CloseThreads can only  *)
(* succeed.  A server's connections are one service thread.  Nothing is    *)
(* said of the program once a thread has reached for something freed.      *)
(***************************************************************************)
EXTENDS Naturals

CONSTANT ControllerType   \* GetControllerType(): "SLAVE", "MASTER" or "MULT"

ASSUME ManagerAssumption == ControllerType \in {"SLAVE", "MASTER", "MULT"}

SlaveThreads == {"udpServer", "upload", "ctrlListen"}
MasterThreads == {"udpClient", "uploadServer"}
Services == {"modbusService", "ctrlService", "ctrlClient"}
Stoppable == {"pvVol", "modbusListen", "pool"}
Thread == SlaveThreads \cup MasterThreads \cup Services \cup Stoppable

(* "threads" are the thread objects of the pool.                           *)
Resource == {"memDb", "device", "masterConfigs", "slaveConfigs", "factory", "threads"}

(* What a thread keeps a pointer to from one round to the next.            *)
Keeps(t) ==
    CASE t = "pool" -> {"memDb", "device", "threads"}
      [] t = "upload" -> {"memDb", "device"}
      [] t = "modbusListen" -> {"factory"}
      [] t = "ctrlService" -> {"memDb", "masterConfigs"}
      [] t = "ctrlClient" -> {"memDb", "slaveConfigs"}
      [] t \in {"modbusService", "uploadServer", "pvVol"} -> {"memDb"}
      [] OTHER -> {}

(* What a thread looks up again in every round.                            *)
Iterates(t) ==
    CASE t = "udpServer" -> {"masterConfigs"}
      [] t \in {"udpClient", "uploadServer"} -> {"slaveConfigs"}
      [] t = "ctrlClient" -> {"device"}
      [] OTHER -> {}

Begin(t) ==
    CASE t = "pool" -> "created"
      [] t \in {"pvVol", "modbusListen"} -> "check"
      [] OTHER -> "work"

VARIABLES main,        \* where the thread of main is
          flags,       \* Manager's m_memDbInited, m_deviceInited, m_ioStarted, ...
          resource,    \* what the threads share
          run,         \* each thread
          told,        \* the threads told to stop: STOPPING, or m_listen FALSE
          missed,      \* history: threads that CloseThreads did not find registered
          stopFlag,    \* g_stopFlag
          configured   \* history: SlaveManager::InitConfig has succeeded

vars == <<main, flags, resource, run, told, missed, stopFlag, configured>>

Starting == {"memDb", "device", "io", "netSlave", "netMaster", "ctrl"}
Stopping == {"pvStop", "pvJoin", "net", "ioStop", "ioJoin", "poolStop", "poolJoin",
             "poolDelete", "freeMemDb", "freeDevice"}
RunStates == {"none", "created", "check", "work", "stale", "undefined"}
Alive == main \notin {"exit", "killed", "undefined"}

Init ==
    /\ main = "memDb"
    /\ flags = {}
    /\ resource = [r \in Resource |-> "none"]
    /\ run = [t \in Thread |-> "none"]
    /\ told = {} /\ missed = {}
    /\ stopFlag = FALSE
    /\ configured = FALSE

-----------------------------------------------------------------------------
(* Thread::Start of the threads in threads; where pthread_create fails,    *)
(* the thread is missing and nobody hears of it.                           *)
Start(threads) ==
    \E started \in SUBSET threads :
        run' = [t \in Thread |-> IF t \in started THEN Begin(t) ELSE run[t]]

(* A step of Manager::Init succeeds: its flag is set; or it fails: Uninit. *)
Success_NoFlag(flag, next) == flags' = flags /\ main' = next  \* mutant: the flag is not set
Success(flag, next) == flags' = flags \cup {flag} /\ main' = next
Fail == flags' = flags /\ main' = "pvStop"

Allocate(rs) == resource' = [r \in Resource |-> IF r \in rs THEN "live" ELSE resource[r]]

InitMemDb ==
    /\ main = "memDb"
    /\ \/ Success("memDb", "device") /\ Allocate({"memDb"})
       \/ Fail /\ UNCHANGED resource
    /\ UNCHANGED <<run, told, missed, stopFlag, configured>>

(* Device::GetInstance and Device::Init: the instance is there even when   *)
(* the configuration could not be read.                                    *)
InitDevice ==
    /\ main = "device"
    /\ Allocate({"device"})
    /\ Success("device", "io") \/ Fail
    /\ UNCHANGED <<run, told, missed, stopFlag, configured>>

(* IoManager::Init: the pool, which leaves no thread behind when it fails  *)
(* and has none when no device is configured, and the Modbus TCP server.   *)
InitIo ==
    /\ main = "io"
    /\ \/ /\ Success("io", "netSlave")
          /\ Allocate({"factory", "threads"})
          /\ Start({"pool", "modbusListen"})
       \/ Fail /\ UNCHANGED <<resource, run>>
    /\ UNCHANGED <<told, missed, stopFlag, configured>>

(* NetManager::Init, the slave side.  SlaveManager::Init returns ERR_FAILED *)
(* or true, which are both 1; NetManager takes either for a success.  A    *)
(* controller of type SLAVE has no master side.                            *)
InitNetSlave ==
    /\ main = "netSlave"
    /\ \/ configured' = TRUE /\ Allocate({"masterConfigs"}) /\ Start(SlaveThreads)
       \/ UNCHANGED <<configured, resource, run>>
    /\ IF ControllerType = "SLAVE" THEN Success("net", "ctrl")
                                   ELSE main' = "netMaster" /\ UNCHANGED flags
    /\ UNCHANGED <<told, missed, stopFlag>>

InitNetMaster ==
    /\ main = "netMaster"
    /\ \/ Success("net", "ctrl") /\ Allocate({"slaveConfigs"}) /\ Start(MasterThreads)
       \/ Fail /\ UNCHANGED <<resource, run>>
    /\ UNCHANGED <<told, missed, stopFlag, configured>>

(* CtrlManager::Init does nothing; the last thread is PvVolatility.        *)
InitCtrl ==
    /\ main = "ctrl"
    /\ flags' = flags \cup {"ctrl", "pvVol"}
    /\ main' = "run"
    /\ Start({"pvVol"})
    /\ UNCHANGED <<resource, told, missed, stopFlag, configured>>

-----------------------------------------------------------------------------
(* SIGTERM or SIGINT.  The handler is there once Init has returned; before *)
(* that the signal ends the process.                                       *)
Signal ==
    /\ Alive /\ ~stopFlag
    /\ \/ main \in Starting /\ main' = "killed" /\ UNCHANGED stopFlag
       \/ main = "run" /\ stopFlag' = TRUE /\ UNCHANGED main
    /\ UNCHANGED <<flags, resource, run, told, missed, configured>>

LeaveLoop ==
    /\ main = "run" /\ stopFlag
    /\ main' = "pvStop"
    /\ UNCHANGED <<flags, resource, run, told, missed, stopFlag, configured>>

(* Manager::Uninit, one step: done only when the flag is set, which it     *)
(* clears when the component is down.                                      *)
Tell(t) == told' = told \cup {t}
HasEnded(t) == run[t] = "none"

StopPv ==
    /\ main = "pvStop"
    /\ IF "pvVol" \in flags THEN Tell("pvVol") /\ main' = "pvJoin"
                            ELSE UNCHANGED told /\ main' = "net"
    /\ UNCHANGED <<flags, resource, run, missed, stopFlag, configured>>

JoinPv_NotWaited ==  \* mutant: Stop without Join
    /\ main = "pvJoin"
    /\ flags' = flags \ {"pvVol", "ctrl"}
    /\ main' = "net"
    /\ UNCHANGED <<resource, run, told, missed, stopFlag, configured>>

JoinPv ==
    /\ main = "pvJoin" /\ HasEnded("pvVol")
    /\ flags' = flags \ {"pvVol", "ctrl"}
    /\ main' = "net"
    /\ UNCHANGED <<resource, run, told, missed, stopFlag, configured>>

(* delete of the resources rs: a thread that is in the middle of a round   *)
(* with one of them goes on with a stale pointer.                          *)
Free(rs) ==
    /\ resource' = [r \in Resource |->
                        IF r \in rs /\ resource[r] = "live" THEN "freed" ELSE resource[r]]
    /\ \E inside \in SUBSET {t \in Thread : run[t] = "work" /\ Iterates(t) \cap rs # {}} :
            run' = [t \in Thread |-> IF t \in inside THEN "stale" ELSE run[t]]

(* MasterManager::Uninit and SlaveManager::Uninit delete the configurations *)
(* and stop no thread.                                                     *)
UninitNet ==
    /\ main = "net"
    /\ main' = IF "io" \in flags THEN "ioStop" ELSE "freeMemDb"
    /\ flags' = flags \ {"net"}
    /\ IF "net" \in flags THEN Free({"slaveConfigs", "masterConfigs"})
                          ELSE UNCHANGED <<resource, run>>
    /\ UNCHANGED <<told, missed, stopFlag, configured>>

(* TcpThreadedServer::Stop: m_listen = false, Join, no factory any more.   *)
StopListener ==
    /\ main = "ioStop"
    /\ Tell("modbusListen")
    /\ main' = "ioJoin"
    /\ UNCHANGED <<flags, resource, run, missed, stopFlag, configured>>

JoinListener_NotWaited ==  \* mutant: Stop without Join
    /\ main = "ioJoin"
    /\ Free({"factory"})
    /\ main' = "poolStop"
    /\ UNCHANGED <<flags, told, missed, stopFlag, configured>>

JoinListener ==
    /\ main = "ioJoin" /\ HasEnded("modbusListen")
    /\ Free({"factory"})
    /\ main' = "poolStop"
    /\ UNCHANGED <<flags, told, missed, stopFlag, configured>>

(* SocketThreads::CloseThreads: a thread that IsAlive finds registered is  *)
(* stopped and joined, any other is not waited for; then its object is     *)
(* deleted.  The pools of serial and CAN threads are empty, and no pool's  *)
(* CloseThreads reports a failure.                                         *)
IsAlive(t) == run[t] \in {"check", "work"}

StopPool ==
    /\ main = "poolStop"
    /\ \/ IsAlive("pool") /\ Tell("pool") /\ main' = "poolJoin" /\ UNCHANGED missed
       \/ /\ ~IsAlive("pool")
          /\ missed' = missed \cup {t \in {"pool"} : ~HasEnded(t)}
          /\ main' = "poolDelete"
          /\ UNCHANGED told
    /\ UNCHANGED <<flags, resource, run, stopFlag, configured>>

JoinPool ==
    /\ main = "poolJoin" /\ HasEnded("pool")
    /\ main' = "poolDelete"
    /\ UNCHANGED <<flags, resource, run, told, missed, stopFlag, configured>>

DeletePool ==
    /\ main = "poolDelete"
    /\ Free({"threads"})
    /\ flags' = flags \ {"io"}
    /\ main' = "freeMemDb"
    /\ UNCHANGED <<told, missed, stopFlag, configured>>

UninitMemDb ==
    /\ main = "freeMemDb"
    /\ IF "memDb" \in flags THEN Free({"memDb"}) ELSE UNCHANGED <<resource, run>>
    /\ flags' = flags \ {"memDb"}
    /\ main' = "freeDevice"
    /\ UNCHANGED <<told, missed, stopFlag, configured>>

(* Device::FreeInstanse, and main returns: the process ends.               *)
FreeDevice ==
    /\ main = "freeDevice"
    /\ IF "device" \in flags THEN Free({"device"}) ELSE UNCHANGED <<resource, run>>
    /\ flags' = flags \ {"device"}
    /\ main' = "exit"
    /\ UNCHANGED <<told, missed, stopFlag, configured>>

-----------------------------------------------------------------------------
UsesFreed(t) == \/ t = "pool" /\ ~HasEnded(t) /\ resource["threads"] = "freed"
                \/ run[t] = "work" /\ \E r \in Keeps(t) : resource[r] = "freed"
                \/ run[t] = "stale"

(* Thread::Add.  A device thread that ran before Start had set RUNNING     *)
(* ends at once (SocketThreads).                                           *)
Register(t) ==
    /\ run[t] = "created" /\ ~UsesFreed(t)
    /\ \E next \in {"check", "none"} : run' = [run EXCEPT ![t] = next]
    /\ UNCHANGED <<main, flags, resource, told, missed, stopFlag, configured>>

(* The head of a thread's loop.  A listener tests m_listen, the others     *)
(* m_state.                                                                *)
MustStop_NotListener(t) == t \in told \ {"modbusListen"}  \* mutant: m_listen is not tested
MustStop(t) == t \in told

Check(t) ==
    /\ run[t] = "check" /\ ~UsesFreed(t)
    /\ run' = [run EXCEPT ![t] = IF MustStop(t) THEN "none" ELSE "work"]
    /\ UNCHANGED <<main, flags, resource, told, missed, stopFlag, configured>>

(* One round.  A network thread ends when its socket is not open.  A       *)
(* listener may start the service of a new connection, and the discovery   *)
(* of a slave station the client of its control link.                      *)
ServiceOf(t) == CASE t = "modbusListen" -> {"modbusService"}
                  [] t = "ctrlListen" -> {"ctrlService"}
                  [] t = "udpClient" -> {"ctrlClient"}
                  [] OTHER -> {}

Again(t) == IF t \in Stoppable THEN "check" ELSE "work"
EndsByItself(t) == t \in {"udpServer", "upload", "udpClient", "uploadServer"} \cup Services

Work(t) ==
    /\ run[t] = "work" /\ ~UsesFreed(t)
    /\ \E end \in {Again(t)} \cup (IF EndsByItself(t) THEN {"none"} ELSE {}),
          new \in SUBSET {s \in ServiceOf(t) : HasEnded(s)} :
            run' = [s \in Thread |-> IF s = t THEN end
                                     ELSE IF s \in new THEN Begin(s) ELSE run[s]]
    /\ UNCHANGED <<main, flags, resource, told, missed, stopFlag, configured>>

UseFreed(t) ==
    /\ UsesFreed(t)
    /\ run' = [run EXCEPT ![t] = "undefined"]
    /\ main' = "undefined"
    /\ UNCHANGED <<flags, resource, told, missed, stopFlag, configured>>

Run(t) == Alive /\ (Register(t) \/ Check(t) \/ Work(t) \/ UseFreed(t))

ManagerInit == InitMemDb \/ InitDevice \/ InitIo \/ InitNetSlave \/ InitNetMaster \/ InitCtrl
ManagerUninit == \/ StopPv \/ JoinPv \/ UninitNet \/ StopListener \/ JoinListener
                 \/ StopPool \/ JoinPool \/ DeletePool \/ UninitMemDb \/ FreeDevice

Main == ManagerInit \/ LeaveLoop \/ ManagerUninit

Next == Main \/ Signal \/ \E t \in Thread : Run(t)

(* The operating system runs every thread, and the waits of the threads    *)
(* that are joined are bounded: 5 s of sleep in PvVolatility, 1 s or 10 s  *)
(* in the listener, the timeouts of the device threads.  That a signal     *)
(* comes is not assumed.                                                   *)
Fairness == WF_vars(Main) /\ \A t \in Stoppable : WF_vars(Run(t))

Spec == Init /\ [][Next]_vars
FairSpec == Spec /\ Fairness

-----------------------------------------------------------------------------
TypeOK ==
    /\ main \in Starting \cup Stopping \cup {"run", "exit", "killed", "undefined"}
    /\ flags \subseteq {"memDb", "device", "io", "net", "ctrl", "pvVol"}
    /\ resource \in [Resource -> {"none", "live", "freed"}]
    /\ run \in [Thread -> RunStates]
    /\ told \subseteq Stoppable
    /\ missed \subseteq {"pool"}
    /\ stopFlag \in BOOLEAN /\ configured \in BOOLEAN
    /\ main = "run" => flags = {"memDb", "device", "io", "net", "ctrl", "pvVol"}

(* The threads that Uninit stops never touch what it frees, whichever step *)
(* of Init failed and whenever the signal came: pvVol and the pool have    *)
(* ended before MemDb::Uninit, and the listener before its factory is      *)
(* cleared.  The exception is a device thread that CloseThreads does not   *)
(* find registered, which it neither stops nor joins.                      *)
StoppableIsSafe ==
    \A t \in Stoppable \ missed : ~HasEnded(t) => \A r \in Keeps(t) : resource[r] = "live"

(* When main has returned, no thread it started and can stop is left, also *)
(* after a failed Init, but for a device thread that CloseThreads did not  *)
(* find registered.                                                        *)
StoppedAtExit == main = "exit" => /\ flags = {}
                                  /\ \A t \in Stoppable \ missed : HasEnded(t)

(* BUG_FIX_SUMMARY.md 2.1, a controlled stop: told to stop, or after a     *)
(* failed Init, the program ends, unless a thread has run into freed       *)
(* memory before.                                                          *)
StopEnds == (stopFlag \/ main \in Stopping) ~> main \in {"exit", "undefined"}

(* BUG_FIX_SUMMARY.md 2.1: the modules are stopped in order, and no        *)
(* half-initialised state is left behind: no thread runs into freed        *)
(* memory.  It does not hold: README, Behaviour that falls short.          *)
ShutdownIsSafe == main # "undefined"

(* SlaveManeger.h:32, Init returns an error code: an Init that failed      *)
(* does not count as a start.  It does not hold: README, Behaviour that    *)
(* falls short.                                                            *)
RunIsConfigured == main = "run" => configured
==============================================================================
