# MCCS: a verification project in TLA+

MCCS is the controller program of a micro-grid station. One controller reads
and commands the devices of its station over Modbus TCP, keeps their values in
a bank of registers, and offers the bank to a Modbus master above it. The
controllers of a site also talk to each other over a station protocol derived
from IEC 103: a *master station* finds its *slave stations* by UDP broadcast,
commands them over TCP links and receives their measurements by UDP. A
controller is of type SLAVE, MASTER or MULT; every one runs the slave side, and
all but SLAVE run the master side as well.

The modules in this directory model the program's own core (`src/src`, without
its vendored libraries) and, of its 91 device drivers, two whose control side
keeps a state from one call to the next. TLC checks them on small
instances and TLAPS proves theorems about them for every instance. The paths
below are relative to `src/src` unless they begin with `src/`.

## 1. Inventory

| Part | Code | State it keeps | Operations | Meets the others by |
|---|---|---|---|---|
| Register bank | `db/MemDb` | `m_realData[]`: value, type, `writed`, `writed_num`; a mutex | SetRealData (measurement, command), SetRealDataUnknown, GetRealData, GetRealDataWrited | everybody calls it |
| TCP transaction | `etc/socket/Socket`, `TcpClient` | `m_socket`, `m_mutex`, the kernel's socket | Connect, TxRxMsg, Close | shared by the two threads of a device |
| Thread | `etc/socket/Thread` | `m_state`, `m_handle`, the registry `m_threads` | Start, Join/Stop, Cancel, IsAlive | base class of every thread |
| Device thread pool | `io/socket/SocketThreads`, `SocketThread`, `SocketCtrlThread` | lists of threads and clients | OpenThreads, CloseThreads, the threads' loops | drivers call MemDb and TxRxMsg |
| Control link | `net/master/ControlClient`, `net/slave/ControlServer` | both data numbers, two connections, `isRun`, `flag` | rounds of commands and of time synchronisation, their retry, comparison, saving, confirmation | TCP frames; MemDb on both sides |
| Discovery | `net/master/UdpManangerClient`, `net/slave/UdpManagerServer` | `SlaveConfig` and `MasterConfig` lists | broadcast, answer, start of a ControlClient | UDP; `SlaveConfig` shared with ControlClient and UploadServer |
| Upload | `net/slave/UploadClient`, `net/master/UploadServer` | place in the ranges; `isRun` | a round of frames, storing them | UDP; MemDb on both sides |
| Start and stop | `main`, `Manager`, `IoManager`, `NetManager`, `MasterManager`, `SlaveManager` | start flags, the shared configurations | Init and Uninit, step by step; the signal | creates all threads, frees what they share |
| TCP server | `etc/socket/TcpServer` | `m_listen`, a count of the connections so far | accept, service threads that delete themselves, Stop | Modbus TCP server, ControlServer |
| Modbus TCP server | `io/protocol/modbus/ModbusTcpServer` | a service thread for each connection; the bounds of Check, which never change | orders 1-6, 15, 16 and the error answer | MemDb |
| Modbus masters | `io/protocol/modbus` | none; what the socket still holds of late answers | pack a request, check its answer, try again | drivers, TxRxMsg |
| Device register map | `db/Device` | devices and their register ranges | Init, GetMemAddr, InitMemDb | threads look devices up |
| Iec103 | `net/Iec103` | none | Pack, Unpack, DataComparison | link, discovery and upload |
| PV fluctuation | `db/PvVolatility` | a history of power values | a computation every 5 s | MemDb |
| Database | `db/Db`, `ConfigDb`, `HisDb*` | a handle, a mutex | SQL; `HisDbSave` and `HisDbDel` are called by nobody | Device reads its configuration |
| Serial, CAN | `io/com`, `io/can` | as the socket pool | as the socket pool | left out of the build (`#if 0` in IoManager) |
| Control strategies | `control/CtrlManager` | none | empty in this release | |
| Drivers | `io/device` | some keep words of the device between calls (`EcmPcs`: `m_state`, `m_mode`) | Get (read and store), Preset (take commands in a fixed order and turn them into writes) | MemDb, Modbus masters |

What is hard here: every part runs in threads that share objects, mostly
without a lock; two threads share each device connection and two networks each
control link; the links break, time out and are retried; UDP loses and reorders;
the program must stop while all this goes on. The hazards, each at its line, are
listed in `PROJECT.json`.

What makes each part correct:

* *Bank*: a command waits until it is taken, is replaced by a newer one, or has
  outlived `WRITED_NUM` measurements; it is taken once.
* *TCP transaction*: a transaction reads its own reply; the mutex is released
  on every path; an ended connection is dropped.
* *Pool and threads*: whatever cannot be created, no object is deleted while a
  thread uses it, and nothing is half created.
* *Control link*: a command is saved once and in order; what is confirmed was
  saved; a round ends.
* *Command path*: a command that was taken is in exactly one frame; the slave's
  register gets the commands once and in order; what is confirmed is in the
  slave's bank; no command is passed over for ever.
* *Discovery*: one client for one slave; a slave that answers gets its client
  again.
* *Upload*: a round covers every register once; the master ends up with the
  slave's values.
* *Modbus server*: a request gets one answer, and the answer is true of the
  bank; what was commanded reads back.
* *Device register map*: two devices never share a register.
* *Drivers*: the device ends up with what the last command asked for, whatever
  was lost before; a command changes what it names and nothing else; outputs
  that exclude each other are not set together; every command gets its turn.
* *Start and stop*: whatever fails and whenever the signal comes, what was
  started and can be stopped is stopped before what it uses is freed, and the
  program ends.

## 2. Modules

| Module | Models | State and actions |
|---|---|---|
| `RealData` | one register (`RealData`) and what SetRealData and GetRealDataWrited make of it | pure operators, used by `MemDb` and `RlcLoad` |
| `CommandSlot` | what the bank promises (abstract) | one place per register: Command, Withhold, Expire, Take |
| `MemDb` | `db/MemDb` and its callers | `cell` is `m_realData`; one action per critical section of `m_mutexRealData`, so SetRealDataUnknown is ReadType, then SetRealDataUnknown |
| `MemDbProofs` | theorems of `MemDb` | |
| `TcpLink` | `Socket::TxRxMsg`, `TcpClient::Connect`, `Socket::Close` for SocketThread and SocketCtrlThread | one action per system call or access to `m_socket`, `m_mutex`; the device and the network are actions too |
| `SocketThreads` | `SocketThreads::OpenThreads`, `CloseThreads`, `Thread` | one action per access to `m_state`, the registry, or an object somebody deletes, so that the test IsAlive and the delete that follows it are two; every `pthread_create` may fail |
| `SocketThreadsProofs` | theorems of `SocketThreads` and `TcpLink` | |
| `DataNumbers` | `Iec103::DataComparison`, the 16-bit counter | pure operators |
| `ControlLink` | `ControlClient` with `ControlServer`, uses `DataNumbers` | rounds and attempts of the client; Recv, Compare, Save, Confirm of each service thread; connections that break |
| `CommandPath` | `ControlClient::GetControlData` and `SendCtrlData`, `ControlServer::SaveCtrlData`; composes `CommandSlot` and `ControlLink` | the array register by register, the rounds of `ControlLink`, the storing value by value, as many as the 7-bit length of the frame announces; the masters command in between |
| `CommandPathProofs` | theorems of `DataNumbers`, `ControlLink` and `CommandPath` | |
| `DeviceMap` | `Device::GetMemAddr` and the loop of `InitSlaveDevConfig` that calls it | pure operators and a recursive function over the rows |
| `RlcLoad` | `RLCLoad::RLC_a_Preset`, its two power functions; uses `RealData` | one action per register of its order and per write; the load's steps, all that the masks name, with their powers as RLC_a_Read decodes them, and its coils |
| `EcmPcs` | `EcmPcs::EcmPcsPreset` over `ModbusTcpClient` and `TxRxMsg` | one action per read and per try of a write; the words of the converters; the bytes of all answers that the client has not read, on their way or arrived; the connection that is lost |
| `DriverProofs` | theorems of `RlcLoad` and `EcmPcs` | |
| `Discovery` | `UdpManangerClient`, `UdpManagerServer`, the life of a ControlClient, UploadServer's marks | `flag`, `isRun`, the client threads; messages lost and repeated |
| `DiscoveryProofs` | theorems of `Discovery` | |
| `Upload` | `UploadClient::SendRealData`, `UploadServer::RecvInfo` | the ranges frame by frame; two networks |
| `UploadProofs` | theorems of `DeviceMap` and `Upload` | |
| `Manager` | `main`, `Manager`, and the Init and Uninit of what it starts | one action per step of Init and Uninit; every thread as "check" and "work", the pool's also as created and not yet registered |
| `ManagerProofs` | theorems of `Manager` | |
| `ModbusServer` | `ModbusTcpServer` and the accepting thread; composes `MemDb` | `job` is the request a service thread works on; one action per Recv, per critical section of the bank and per answer; clients that wait, pipeline, close, or leave words out of a write |
| `ModbusServerProofs` | theorems of `ModbusServer` | |
| `MC*` | values of the constants for TLC | |

Interaction: `MemDb` is below everything; `Discovery` decides when a
`ControlLink` exists; `SocketThreads` owns the threads of `TcpLink`; `Manager`
owns all threads and takes `SocketThreads` as one thread, which CloseThreads
stops and joins if it finds it registered, and passes over if not.
`ModbusServer` composes the bank: its steps are `MemDb`'s actions, with a
service thread for each connection. `CommandPath` composes the master's bank, as
the slots that `MemDbProofs` shows `MemDb` to implement, with the control link:
its steps are the actions of both modules, and the registers of its run are
those that `DeviceMap` computes for the rows of four devices. `RlcLoad` and
`EcmPcs` are control threads of `SocketThreads` seen from the driver; `EcmPcs`
looks at the connection that `TcpLink` models from the side of the two threads.
The other modules are separate because each hazard is local to one of them; the
compositions still worth checking are in the plan.

## 3. Runs

| Run | Question and answer |
|---|---|
| `memdb` | Two registers, an INT and a float, a service thread, three commands. Holds: a register is a command slot (`SlotSpec`, refinement), commands are taken once and in order. |
| `tcp_link` | Two threads, two descriptors, two request numbers. Holds: until a first timeout on a connection every transaction reads its own reply (`PairedUntilTimeout`), also while the other thread closes it; the mutex is released; ended connections are dropped. |
| `socket_threads` | Two addresses, every failure of `pthread_create`. Holds: OpenThreads is safe and leaves pairs whole; every thread keeps its objects, but one that CloseThreads looks for in the registry and does not find; CloseThreads ends. |
| `control_link` | One network, one connection, four rounds of up to three attempts. Holds: saved once and in order, confirmed means saved, rounds end. |
| `control_link_two` | The same with two networks: a frame is saved twice. |
| `discovery` | Two slaves that answer. Holds: never two connected clients for a slave, `flag` tells the truth, a slave that answers gets a client again. |
| `upload` | Two ranges, frames of two values. Holds: every register once a round, the master converges. |
| `manager` | A MASTER controller, every failure of Init, a signal at any time. Holds: the stoppable threads never touch what is freed and are gone at exit, but for a device thread that CloseThreads does not find registered; the stop ends. |
| `modbus_server` | Two connections, one whose client waits for its answers and one whose client pipelines, over two registers; one request names register `RegEnd`, one has a word too few. Holds: one answer to a request, in order; a normal answer to a write means that every register of it was commanded, with its own word where the request has one, an error answer that nothing was; what was commanded reads back; a waiting client gets an answer to every order that the server knows. |
| `command_path` | Three commanded registers of two devices, two commands, a clock round, a link that breaks. Holds: a command taken is carried by one frame, the slave gets the commands of a register once and in order, a confirmed round is in the slave's bank unless its frame is longer than its length field can say, no command waits for ever while the client runs. |
| `rlc_load` | Two phases of three banks, some steps connected when the program starts, one bank also commanded by itself, writes that are lost. Holds: a bank whose writes got through has the power commanded, up to 700 W; the last total is connected in all phases; the coils are interlocked; every command is taken. |
| `ecm_pcs` | Two converters behind one connection that may be lost, two queries or answers lost or late, of which several may be unread at a time. Holds: a converter without such a query has the words its commands ask for; a write reported as done is in the device, unless a write of that register was given up while the client was behind; every command is taken. |

### Bounds, and why they are enough

* `memdb`: `WRITED_NUM` is the code's 5. A command's fate depends on the
  command before and after it, so three commands show all pairs; the registers
  do not influence each other, and two show that. The theorems have no bound.
* `tcp_link`: two descriptors let a closed number be handed out again while the
  other thread still holds it; two request numbers, each reused only when it is
  nowhere under way, tell an own reply from a foreign one.
* `socket_threads`: one address shows the pair, the second shows a roll-back in
  the middle of the list.
* `control_link`: with four rounds, a frame can be repeated, overtaken by the
  next round and compared with both neighbours. The modulus is the code's
  65536; the wrap is the subject of the theorems, not of the run. One network
  and one connection in the passing run, as the property fails with two.
* `discovery`: two slaves, as entries of one list influence each other
  (UploadServer's loop); two threads at a time per slave, as an old client may
  still be ending when its successor starts.
* `upload`: a frame of two values in place of 127; one range is as long as a
  frame and the other one longer by one register. At most three frames are
  under way, values change twice.
* `modbus_server`: words of two bits have negative and positive values; the
  bank has two registers, so a request can be inside, end at its end, or pass
  it, as with the code's 65535 (`MAX_LENGTH` and `regEnd` are the same number).
  A request of two registers can be interrupted in the middle. The pipelining
  client sends two requests, enough for one to be read with the other or after
  it. `WRITED_NUM` is 0, which lets a measurement replace a command at any
  moment: more than the code does, so that the taking of commands can be left
  to `MemDb`. One word is missing in the request that has too few: what is read
  in its place is any word, or the read leaves the memory of the process and a
  signal ends it.
* `command_path`: two commands, of registers in different places of the list or
  of one register, are all that order and loss can tell apart; the third round
  is the clock's. `Capacity` is 1 in place of the code's limit, so that a frame
  is full after one value and the second command is left for the next scan, if
  it is not of the same device. `LengthModulus` is 2 in place of 128, so that
  such a frame of two values is one whose length field says 0. A frame of more,
  whose length says 1 and whose values the slave stores under wrong addresses,
  takes a third command: it is in the theorems and not in the run. The four devices
  of the list are one whose type has a length, one whose type has none (the
  length of the one before is carried over), one of another station, and one of
  several registers. `WRITED_NUM` is 1: a command can be withheld and evicted.
* `rlc_load`: two phases share a total; a third would be treated as the second.
  The powers are -200 W (a capacitive total) and 1000 W, which is more than the
  steps have that Preset connects. One phase starts with steps connected that
  Preset never connects, and the device starts loaded. Three commands: a total,
  a bank of it, and another total. The theorems are about every power, start
  and number of phases; what the bounds of
  RLCLoad.cpp:1283 and 1298 do, 7000 and 2000 for a number of hundreds of watts,
  is in the theorems only.
* `ecm_pcs`: two converters share the members; a bit of each word and a
  set-point. A fault is a query or an answer that is lost, an answer that is
  late, or the connection that is lost with all that is unread. Two faults let a
  late answer meet a lost one, or a second late one; `m_retries` is 2 in place of
  what the configuration says. A write that is given up and whose echo is
  accepted for a later one takes seven in a row, with `m_retries` 1: that is
  beyond this run; with the constants of the row on `EveryDoneIsWritten` in
  section 4 TLC finds it, and finds `DoneIsWritten` to hold. A converter carries a
  query out when it is sent and only its answer is late; the queries of one
  connection are carried out in their order either way.
* `manager`: no bound: the model is finite for each type of controller.

### Fairness

* The operating system runs every thread (weak fairness of each thread), and
  every wait of a thread that is joined has a timeout in the code: 400 ms for a
  reply, slices of 100 ms of sleep, 1 s or 10 s in the listener, 5 s in
  PvVolatility. A mutex is granted to one of its waiters, not to each.
* `discovery`: not every broadcast and not every answer of a slave is lost
  (SendInfo reaches it again and again; strong fairness of the receipt). This
  is about the network, not the code.
* `upload`: a frame does not stay under way for ever, and of the frames with a
  register, sent again and again, not all are lost.
* `modbus_server`: each service thread goes on; it waits for nobody but its
  client. An answer is promised only to a client that has its last one, keeps
  the connection open, and whose thread could be created, to an order that the
  server knows, and while no signal has ended the process.
* `command_path`, `rlc_load`, `ecm_pcs`: the threads of the two programs go on
  (weak fairness of the client, of each service thread, of Preset). The bound on
  the commands makes the masters silent in the end; what the properties ask for
  is that what waits is then taken. A driver's call on a closed connection
  returns before it takes anything (RLCLoad.cpp:1171-1174,
  EcmPcs.cpp:1008-1011), so the two properties of drivers are about a connection
  that is open again and again: the acquisition thread reopens it (`TcpLink`).
* Nowhere is it assumed that a signal comes, that a link breaks, or that a
  device answers. Deadlock is not checked where the system really may stop: the
  process ends (`manager`, `tcp_link` and `modbus_server` after a signal,
  `socket_threads` after CloseThreads), the client exits or the bound on rounds
  is reached (`control_link`, `command_path`), or the masters are silent
  (`rlc_load`, `ecm_pcs`).

A run has a type invariant where a proof or a composition rests on it
(`PathTypeOK` includes that of `ControlLink`); the other runs state what they
are for.

## 4. Behaviour that falls short

Where a document, a comment or a declaration promises something and the code
does something else, the promise is stated as a property. One is kept as a run
that TLC refutes (`findings` in `PROJECT.json`): in `control_link_two` the mutex
of `ControlServer.cpp:209` is a member of each service thread, so the threads of
the two networks both find a frame new and both save it. TLC refutes these too;
add the property to the module's configuration to see it:

| Property | What happens |
|---|---|
| `MemDb!UnknownKeepsType` | SetRealDataUnknown reads the type, a driver or the station link stores another type, and the command is stored with the old one. |
| `TcpLink!OwnReply` | Socket.cpp:775 says that what the port has buffered is cleared before a request. tcflush acts on terminals and fails on a socket: a reply that comes after its timeout is read as the reply of the next transaction. |
| `TcpLink!SilentIsDropped` | No line increments `uNoResponse` in SocketThread and SocketCtrlThread, so their test for more than 16 never holds; a silent device keeps its connection. |
| `SocketThreads!RunningHasNotEnded` | The new thread sees STOPPED before Start sets RUNNING, ends, and stays RUNNING. |
| `SocketThreads!CloseIsSafe` | CloseThreads stops a thread only if IsAlive, which is false until the thread has entered itself in the registry: before that it is deleted without Stop, also when it enters itself between the test and the delete (SocketThreads.cpp:238 and 243, 257 and 262). It is registered then, and its object is gone. |
| `Manager!ShutdownIsSafe` | SlaveManager::Uninit and MasterManager::Uninit stop none of the network threads, which go on using the bank and the configurations that are freed. So does a device thread that CloseThreads does not find registered, when Init fails just after OpenThreads. |
| `Discovery!OwnIsFound` | The timed Recvfrom (Socket.cpp:464-495) never fills in the address of the sender, so the answer of a slave goes to address 0 and the master never hears it. |
| `CommandPath!FrameWithinLimit` | ControlClient.h:106 allows 128 values a frame; the size is looked at after a device only, so a device of many registers passes it (`MaxCommand = 3`, `MaxSeq = 4`, and a third commanded register of the last device). |
| `CommandPath!AllowedIsSaved` | The length field has 7 bits below the bit that says how the values are addressed, and the number is added to that bit (Iec103.cpp:281, 153-154). A frame of 128 values, which ControlClient.h:106 allows, says that it has none: the slave stores nothing and confirms it. One of more values says so many fewer, and the slave stores those in the registers after the first one's. |
| `ModbusServer!DoneHasWords` | ModbusTcpServer.h:102 says that a request of the wrong length gets no answer. Check compares what came with the length that the request names (ModbusTcpServer.cpp:509-511) and not with its number of registers, so a write with fewer words is carried out with what lies behind them in memory. |
| `ModbusServer!SilentOnUnknown` | ModbusTcpServer.h:101 and 103 say that what is no Modbus request, or does not pass the check of its order, gets no answer. It gets the error answer. |
| `RlcLoad!SettledUpToCapacity` | RLCLoad.cpp:309-310 and the masks of 1162-1163 give a bank steps of 2000 W (reactive) and 7000 W (resistive), the numbers that bound a command in 1283 and 1298; GetActivePowerCmd and GetReactivePowerCmd connect steps 0, 1 and 3 only, 700 W. The comments there (1629-1639) give bits 3, 1 and 0 of the mask 0.2, 0.4 and 0.3 kW, the table 0.4, 0.2 and 0.1. |
| `EcmPcs!OnlyCommandedBits` | When a read fails, `m_state` and `m_mode` keep the words of another converter, or none (`m_mode` is not initialised), and the command writes them with its bit changed (EcmPcs.cpp:1015). |
| `EcmPcs!EveryDoneIsWritten` | PresetSingleRegister accepts every echo equal to its query (ModbusTcpClient.cpp:848-859). Two writes to a register, of 0 and then of 1, are given up and their echoes are late; a third one, of 0, is lost, takes the echo of the first for its own and is reported as done, while the converter has 1 (one converter and register, `m_retries = 1`, `MaxOrder = 3`, `MaxFault = 7`). |
| `EcmPcs!Resynchronises` | After a late answer every query reads the answer of the one before; the client drops nothing and does not catch up while the connection is open. |
| `ControlLink!FreshConfirm` | `fcb` is always 1, and a confirmation does not say what it confirms: a late one ends the next round. |
| `ControlLink!ConfirmedWasSaved` with `MaxOpen = 2` | After a reconnect the old service thread stores its number over the reset one, and commands of the new link are confirmed as received before. |
| `Manager!RunIsConfigured` | SlaveManager::Init returns 1 for success and for failure, and NetManager takes either as success. |
| `Discovery!IsRunHasClient` | UploadServer marks every entry it passes on the way to the sender's. |
| `Upload!NeverBack` | The data number of a frame is not looked at; a late frame stores an old value. |

The Modbus server has three limits that no document promises away, so that no
property is stated about them: order 16 stores a negative word without its sign
(65000 and not -536) where order 6 keeps it; the registers of one request are
stored one by one, so a driver may act on half of it; and of requests that
arrive together only the first is looked at. A request of the wrong length gets
the error answer, as those of `SilentOnUnknown` do, although the header promises
none (ModbusTcpServer.h:102).

The drivers have limits of this kind too. The float writes of `EcmPcs`
(registers regStart + 6 to + 11) are never accepted: the comparison looks at the
length byte, 11 in the query and 6 in the answer (ModbusTcpClient.cpp:1212), so
each is sent `m_retries` times and reported as failed. The working mode that is
"read" into regStart + 4 is the last command, not the device's
(EcmPcs.cpp:1152-1157); a mode other than 1 to 4 changes no bit, and the word is
written as it was read (1144-1152). Its 32-bit readings are put together from
signed words: a low word above 32767 takes 1 from the high one (EcmPcs.cpp:652).
The zeroes that RLCLoad stores after an unloading (RLCLoad.cpp:1381) are
measurements, and the bank withholds them from a register whose command waits.
In the register map a row of an unknown system takes the range of the row before
it (Device.cpp:327), and the blocks of different systems overlap: DGS + 6000 is
LOADS + 2000.

Two more remarks. IoManager::Uninit retries CloseThreads and gives up after three
failures; CloseThreads returns ERR_OK on every path, so neither the retry nor
Manager's early return on its failure can happen, and the models have no such
step. A control link needs a slave that answers discovery: `Discovery` shows
that this release's slave is not heard, so `ControlLink` and the passing run of
`Discovery` are about slaves whose receive fills in the address of the sender
(the constant `Filling`), as the blocking receive did that this code used
before.

## 5. Proofs

TLAPS checks every proof; none has an omitted step. The assumptions are the
named ASSUMEs on the constants, which TLC evaluates in the runs, and the
hypotheses that a theorem states itself, which are given here. A module of
theorems may be about two components that have no names in common.

* `MemDbProofs`: `TypeCorrect`, `CommandsInOrder`, `WaitingStaysNewest` and
  `BankImplementsSlots`, for any registers, threads and bounds.
  `TakenOnceInOrder` is not inductive: it does not say that the command waiting
  now is newer than the ones taken. `WaitingIsNewest` does, and `IInv == TypeOK
  /\ TakenOnceInOrder /\ WaitingIsNewest` is inductive; the run checks it too. The
  refinement maps each step of the bank to a step of the slot of one register, or
  to a stutter: withheld measurements are Withhold, the one after `WRITED_NUM` is
  Expire.
* `SocketThreadsProofs`: `NothingFreedInUse` (`ThreadsAreSafe`) and
  `WholeOrGone` (`AllOrNothing`), for any number of addresses and every
  `pthread_create` that fails. The first is about every thread but those that
  CloseThreads tested with IsAlive and did not find (`skipped`); of these it is
  not true (section 4). It needs that an object that lives has its client
  (`LiveHasClient`), that Join passes a thread only when it does not run
  (`Handled`), that whatever runs has its object (`RunningLive`), and that
  CloseThreads deletes without a join only what it skipped (`Skipping`). While
  OpenThreads runs, every pair but the one it works on is untouched, whole or
  gone (`Paired`); the one it works on is described step by step (`HalfMade`).
  Of `TcpLink`: `RepliesArePaired` (`PairedUntilTimeout`), for any number of
  descriptors and request numbers. The property speaks of the moment at which a
  reply is read; the invariant (`LinkInv`) says why nothing else can be there: a
  transaction holds the mutex from its request to its reply
  (`HeldInTransaction`), a connection on which none gave up holds the one
  request under way or its reply and nothing else (`OneUnderWay`), and a
  descriptor that is handed out again comes empty (`OnlyUpCarries`).
* `CommandPathProofs`, of `DataNumbers`: a repeated number is never new
  (`RepetitionIsOld`), the next number is newer, across the wrap as well
  (`NextIsNewer`), and the comparison is one-sided: after the wrap a number from
  before counts as new (`OldAfterWrapIsNewer`).

  Of `ControlLink`: `LinkTypeCorrect`, for any networks and connections;
  `SavedInOrder` (`AppliedOnceInOrder`) and `ConfirmationsAreTrue`
  (`ConfirmedWasSaved`) for one connection (`OneConnection`: one network, no
  reconnect). With two the properties do not hold (section 4), so the hypothesis
  is not one that a proof could drop. What the server compares is a number
  of 16 bits, what must not be saved twice is a round. The invariant therefore
  speaks of the *line* of frames on their way: read and not yet looked at, sent and
  not yet read, and the one that the client repeats. Each is of a later round than
  the one before it or a repetition of it (`LineInv`); none is older than a round
  that was saved, and one that was saved carries the number that was saved last
  (`SavedInv`). So a frame that passes the comparison is of a round not saved yet,
  also when the numbers wrap. The converse, that a frame which does not pass was
  saved (`NumberInv`), is what a confirmation says, and holds only until the
  numbers wrap: `ConfirmationsAreTrue` has the hypothesis `NoWrap`, fewer rounds
  than numbers. When so many rounds fail in a row that the numbers wrap in
  between, which takes thousands of time rounds without an answer, a frame never
  saved counts as old and is confirmed.

  Of `CommandPath`: `PathImplementsLink` shows that every behaviour of the path is
  one of the control link, so that what is proved of the link holds here too.
  `PathTypeCorrect` (`PathTypeOK`) and `CommandsAreCarried` (`TakenIsCarried`) are
  for any networks, lists of devices and limits; the latter needs that a command
  that waits is younger than those taken (`YoungerInv`). `CommandsSavedInOrder`
  (`SavedOnceInOrder`) is for one connection: the commands in the slave's register
  are those in the places of the frames saved, and of the frame being saved up to
  the value reached (`SavedExactly`); the order of the frames then comes from
  `SavedInv`, that within a frame from the walk over the devices. A frame gives
  the register as many of its values as its length field announces (`Kept`), none
  when the bit of the addresses is lost; a value nobody commanded is stored only
  from a frame that is too long (`OnlyCommands`).
  `ConfirmedCommandsAreSaved` (`ConfirmedIsSaved`), with `NoWrap`, follows with
  what a confirmation received proves (`EndedInv`) and that a frame of time
  carries no command (`KindInv`). It is about frames of fewer values than
  `LengthModulus` (`Whole`); of longer ones it is not true (section 4).
* `UploadProofs`, of `DeviceMap`: `BlockIsInBank` and `BlocksAreDisjoint`, by
  cases over the systems and the lengths of the blocks, for every pair of devices
  whose types have a block and whose numbers are within it. Nothing is proved of
  numbers beyond it: the code does not look.

  Of `Upload`: `EveryRoundCovers` (`RoundCovers`), for any ranges and frame sizes,
  provided the ranges are disjoint and a frame does not exceed what its length
  field can say. `RoundCovers` speaks of the end of a round; the invariant
  (`UploadInv`) says at each frame which registers have been sent, namely those
  before the position. `UploadedAreDisjoint` discharges the first hypothesis for a
  station whose devices are of one system and have blocks, from
  `BlocksAreDisjoint`. Where devices of several systems meet it can fail: their
  blocks overlap (section 4), and a register in two ranges is sent twice.
* `DiscoveryProofs`: `NeverTwoConnections` (`OneConnection`) and `FlagIsTrue`
  (`FlagHasClient`), for any number of slaves and of clients that are ending.
  `OneConnection` counts connected clients; it is not inductive, as a client that
  has closed its connections still is to clear `flag`. The invariant takes that
  client in: of those, a slave has one (`OneLives`), `flag` is set exactly while
  there is one or while one could not be created (`FlagLives`), never both
  (`MissingHasNone`).
* `DriverProofs`, of `RlcLoad`: `TypeCorrect`, `SettledHasItsPower`
  (`SettledIsCommanded`), `CoilsInterlocked` (`Interlocked`) and `TotalsAreShared`
  (`TotalsReachAllPhases`), for any phases, powers, commands and losses. The
  invariant says which writes of
  the register in hand are still to be made, and that a first one that is done
  reached the load or made the bank faulty (`WritesOfCommand`), and that the steps
  connected are those of the mask commanded, out of all that the bank has
  (`StepsOfCommand`). By the table of RLC_a_Read that mask has the power commanded,
  or 700 W when it is more (`Within`). For the totals, which are compared when
  Preset is not running, it says what holds in the middle of a call: a share waits
  only in a register that Preset still comes to (`SharesWait`), and what each bank
  has taken or is about to take is its share of the last total (`SharesAgree`).

  Of `EcmPcs`: `WritesAreDone` (`DoneIsWritten`) and `BitsAreKept`
  (`UndisturbedIsIntended`), for any converters, commands, faults and retries, as
  long as some converter is listed. Three things carry it: the members hold the
  words of the converter that is visited once they were read (`MembersIntended`),
  the word being written is the only one that may differ from what is intended
  (`WordsIntended`), and of the words of which no write was given up, the echoes
  that the client has not read say what the converter has (`EchoesKnown`). While a
  word is written, echoes of its old value may be unread before those of the new
  one, never behind them, and there are some of the new one only when the
  converter has it. Any number of answers may be unread.
  Once a write is given up this need not be so, until nothing is unread:
  `DoneIsWritten` leaves those words out (section 4).
* `ManagerProofs`: `TypeCorrect`, `StopsBeforeFree` and `StoppedWhenDone`, for
  every type of controller. `StoppableIsSafe` is not inductive: nothing in it
  says that Uninit will come to the join of a thread that runs. The invariant
  adds which flags are set at each step of Init (`FlagsUp`) and Uninit
  (`FlagsDown`), that what the next thread needs is there (`Held`), and that a
  thread runs only while its flag leads Uninit to its join (`PvRuns`,
  `ListenerRuns`, `PoolRuns`) and never holds a pointer over a round
  (`NeverStale`). Both theorems leave out the device threads that CloseThreads did
  not find registered (`missed`), of which they are not true (section 4); there
  are such only after the pool was stopped (`MissedLate`).
* `ModbusServerProofs`: `CheckedIsInBank`, `AnsweredOnce` (`OneAnswer`),
  `AnswersAreTrue` (`AnswerIsTrue`), `ServerTypeCorrect` (`TypeOK`) and
  `CommandsReadBack` (`ReadsBack`), for any connections, clients, requests and
  size of the bank. `OneAnswer` speaks of
  answers only; the invariant adds that the requests answered, worked on and
  waiting follow each other in their order (`Busy`, `Free`) and that the request
  worked on has passed Check. With that, `CheckedIsInBank` keeps the loops of
  orders 1 to 4, 15 and 16 from the register that would make them answer twice.
  It rests on `RegEnd \in 0 .. BankLength` (IoManager.cpp:19 and MemDb.cpp:10).
  `AnswerIsTrue` needs in addition what the log holds of each request
  (`LogInv`): nothing of one that waits or has just begun, and of the one worked
  on, every register before the current one. `TypeOK` and `ReadsBack` are about the
  bank as well (`BankInv`): a thread between the two critical sections of a store
  is at a register of its request that the bank has (`Storing`), a value in a cell
  is the number of a command of the log (`CellsKnown`), and what was read back is
  the word that command was given (`ShownKnown`). A request may have fewer words
  than it names: its thread then goes on with words that are anything, one for
  each register. They rest on the assumption that a word has an even number of
  values, as 16 bits do.

Only model-checked: all liveness (`LockReleased`, `EndedIsDropped`, `CloseEnds`,
`RoundEnds`, `EveryAnswer`, `FillingRestarts`, `Converges`, `StopEnds`,
`WaitingIsServed`, `CommandsAreServed`, `CommandsAreTaken`), because TLAPS does
not do fairness and ENABLED. Every invariant of a passing run is stated by a
theorem; those of `ControlLink` and `CommandPath` under the hypotheses above.
What the loop of `DeviceMap` computes
for every list of rows is an induction over the list, which the provers cannot
do: `command_path` runs on what it gives for four devices.

## 6. Plan

Done: the bank with its abstract specification, the transaction, the pool, the
control link, discovery, upload, the Modbus server, start and stop, the path of
a command through both banks, the map of the devices, two drivers with state of
their own; the theorems above.

What is left, in this order:

1. The service threads of `TcpServer` as they delete themselves while the
   accepting thread still writes their state (Thread.cpp:50).
2. Several masters and two networks in `Discovery`; `Iec103` frames as far as
   lengths and the 7-bit field go.
3. The computation of `PvVolatility`; other drivers whose state outlives a call.
4. Theorems: what of `SavedInOrder` remains true of two connections, and the
   same of `CommandsSavedInOrder`.

## 7. Not modelled

Device drivers but two: the others of `io/device` translate between the
registers of a device and the bank, one long list of registers each; what they share
is the bank (`MemDb`), the transaction (`TcpLink`) and the threads
(`SocketThreads`). Of RLCLoad and EcmPcs the reading side is not modelled: its
result is a measurement. They are most of the lines that no module maps, with the
vendored libraries. Further: requests that TCP delivers in two pieces, the bytes
of Modbus and station frames, the SQL that fills the device list, SQL and the
history database (called by nobody), serial and CAN pools (not in the build; the
pattern of their CloseThreads is that of `SocketThreads`), control strategies
(empty), logging, watchdog device, vendored libraries (sqlite3, xyssl, zlog,
tinyxml, libmodbus, freemodbus). In the modelled parts: register values (a
command is its number), types other than INT and float, addresses out of range
(the bank refuses them and changes nothing), and what happens after an access
to freed memory (the model stops there).
