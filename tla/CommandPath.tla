----------------------------- MODULE CommandPath -----------------------------
(***************************************************************************)
(* The way of a command from the register bank of the master station to    *)
(* that of a slave station: the bank (a CommandSlot per register, which    *)
(* MemDb implements), the control link (ControlLink), and between them     *)
(* ControlClient::GetControlData, which empties the registers of the       *)
(* slave's devices into the array of the next frame, and                   *)
(* ControlServer::SaveCtrlData, which stores the values of a frame.  Both  *)
(* take one register at a time, and the bank may change between two.       *)
(***************************************************************************)
EXTENDS ControlLink

CONSTANTS SlaveDev,    \* the station's devices in order: own, devType, regStart
          Slave,       \* controllerAddr of the slave station
          Commanded,   \* bound on the registers that masters command
          Capacity,    \* maxLength: no device is visited once the array has so many values
          LengthModulus, \* 128: the number of values has 7 bits of the frame
          WRITED_NUM,  \* measurements that a waiting command outlives
          MaxCommand,  \* bound on the commands issued
          MaxTime      \* bound on the rounds of time synchronisation

ASSUME CommandPathAssumption ==
    /\ Len(SlaveDev) \in Nat /\ DOMAIN SlaveDev = 1 .. Len(SlaveDev)
    /\ \A d \in DOMAIN SlaveDev : SlaveDev[d].regStart \in Nat
    /\ Commanded \subseteq Nat /\ Capacity \in Nat \ {0} /\ WRITED_NUM \in Nat
    /\ LengthModulus \in Nat \ {0}
    /\ MaxCommand \in Nat /\ MaxTime \in Nat /\ MaxSeq >= MaxCommand + MaxTime

(* How many registers of a device are visited.  regLength keeps its value  *)
(* from one device to the next: a type that is not listed gets the length  *)
(* of the device of the slave before it.                                   *)
CtrlLength == [DO |-> 1, DO_OPT |-> 1, DC_DO_OPT |-> 1, DC_DO |-> 1, PCS |-> 36, PV |-> 5,
               DCDC |-> 11, SIMU_DC_LOAD |-> 10, SIMU_AC_LOAD |-> 35, AC_LOAD |-> 18,
               SIMU_WT |-> 36, SIMU_DG |-> 30, SIMU_DC |-> 22, SIMU_PV |-> 22,
               SIMU_CABLE |-> 7, SIMU_FLASH |-> 6, SIMU_AC_GRID |-> 63]

Listed(d) == {e \in 1 .. d : SlaveDev[e].own = Slave /\ SlaveDev[e].devType \in DOMAIN CtrlLength}

RegLength == [d \in DOMAIN SlaveDev |->
                IF SlaveDev[d].own # Slave \/ Listed(d) = {} THEN 0
                ELSE CtrlLength[SlaveDev[Max(Listed(d))].devType]]

Registers(d) == SlaveDev[d].regStart .. SlaveDev[d].regStart + RegLength[d] - 1
Reg == UNION {Registers(d) : d \in DOMAIN SlaveDev}

(* The devices that have registers to visit, and the end of the list.      *)
EndOfList == Len(SlaveDev) + 1
Stops == {d \in DOMAIN SlaveDev : RegLength[d] > 0} \cup {EndOfList}
NextDevice(d) == Min({e \in Stops : e > d})

VARIABLES waiting, outlived, taken, last,   \* the master's bank, see CommandSlot
          at,        \* where GetControlData is: a device and a register of it; Nowhere
          array,     \* the commands it has taken: <<register, command>>
          content,   \* history: the values of each round's frame
          proof,     \* history: the rounds whose confirmation the current attempt received
          ended,     \* history: how each round ended
          stored,    \* values of its frame each service thread has stored
          saved,     \* history: the commands stored in each register of the slave
          garbled    \* history: its registers given a value that nobody commanded

Bank == INSTANCE CommandSlot WITH Addr <- Reg, Patience <- WRITED_NUM

linkVars == <<client, opens, chan, server, dataNumber, applied, stale>>
bankVars == <<waiting, outlived, taken, last>>
clientVars == <<at, array, content, proof, ended>>
serverVars == <<stored, saved, garbled>>
pathVars == <<linkVars, bankVars, clientVars, serverVars>>

Nowhere == [dev |-> 0, reg |-> 0]
Start == [dev |-> NextDevice(0), reg |-> 1]
Gathering == at # Nowhere
AtEnd == at.dev = EndOfList

PathInit ==
    /\ Init /\ Bank!Init
    /\ at = Nowhere /\ array = <<>> /\ content = <<>> /\ proof = {} /\ ended = <<>>
    /\ stored = [c \in Conn |-> 0]
    /\ saved = [a \in Reg |-> <<>>] /\ garbled = {}

-----------------------------------------------------------------------------
(* A master of the station commands a register; an upload stores in it.    *)
Command(a) ==
    /\ last < MaxCommand
    /\ Bank!Put(a)
    /\ UNCHANGED <<linkVars, clientVars, serverVars>>

Measure(a) ==
    /\ Bank!Outlive(a) \/ Bank!Evict(a)
    /\ UNCHANGED <<linkVars, clientVars, serverVars>>

(* GetControlData.                                                         *)
BeginGather ==
    /\ client.pc = "idle" /\ IsTcpOpened /\ ~Gathering
    /\ at' = Start /\ array' = <<>>
    /\ UNCHANGED <<linkVars, bankVars, content, proof, ended, serverVars>>

Register == SlaveDev[at.dev].regStart + at.reg - 1

(* The next register; after the last one of a device the array's size is   *)
(* looked at.                                                              *)
Following(size) ==
    IF at.reg < RegLength[at.dev] THEN [at EXCEPT !.reg = @ + 1]
    ELSE [dev |-> IF size >= Capacity THEN EndOfList ELSE NextDevice(at.dev), reg |-> 1]

VisitWaiting_LimitFirst ==  \* mutant: a full array refuses what was already taken
    /\ Gathering /\ ~AtEnd
    /\ Bank!Take(Register)
    /\ array' = IF Len(array) < Capacity THEN Append(array, <<Register, waiting[Register]>>) ELSE array
    /\ at' = Following(Len(array'))
    /\ UNCHANGED <<linkVars, content, proof, ended, serverVars>>

VisitWaiting ==
    /\ Gathering /\ ~AtEnd
    /\ Bank!Take(Register)
    /\ array' = Append(array, <<Register, waiting[Register]>>)
    /\ at' = Following(Len(array'))
    /\ UNCHANGED <<linkVars, content, proof, ended, serverVars>>

VisitIdle_StopsThere ==  \* mutant: break for continue
    /\ Gathering /\ ~AtEnd
    /\ waiting[Register] = Bank!NoCommand
    /\ at' = [dev |-> EndOfList, reg |-> 1]
    /\ UNCHANGED <<linkVars, bankVars, array, content, proof, ended, serverVars>>

VisitIdle ==
    /\ Gathering /\ ~AtEnd
    /\ waiting[Register] = Bank!NoCommand
    /\ at' = Following(Len(array))
    /\ UNCHANGED <<linkVars, bankVars, array, content, proof, ended, serverVars>>

(* SendCtrlData has nothing to send, or starts the round of its frame.     *)
NothingToSend ==
    /\ Gathering /\ AtEnd /\ array = <<>>
    /\ at' = Nowhere
    /\ UNCHANGED <<linkVars, bankVars, array, content, proof, ended, serverVars>>

StartRound_WithoutValues ==  \* mutant: the frame goes out without its values
    /\ Gathering /\ AtEnd /\ array # <<>>
    /\ SendCtrlData
    /\ at' = Nowhere /\ array' = <<>> /\ proof' = {}
    /\ UNCHANGED <<bankVars, content, ended, serverVars>>

StartRound ==
    /\ Gathering /\ AtEnd /\ array # <<>>
    /\ SendCtrlData
    /\ content' = Append(content, array)
    /\ at' = Nowhere /\ array' = <<>> /\ proof' = {}
    /\ UNCHANGED <<bankVars, ended, serverVars>>

TimeRounds == Cardinality({s \in DOMAIN content : content[s] = <<>>})

StartTimeRound ==
    /\ ~Gathering
    /\ TimeRounds < MaxTime
    /\ SendTimeSync
    /\ content' = Append(content, <<>>) /\ proof' = {}
    /\ UNCHANGED <<bankVars, at, array, ended, serverVars>>

(* An attempt of a round; the confirmations it receives.                   *)
Attempt ==
    /\ SendFrames
    /\ proof' = {}
    /\ UNCHANGED <<bankVars, at, array, content, ended, serverVars>>

Receive(n) ==
    /\ RecvInfo(n)
    /\ proof' = IF client'.result[n]
                THEN proof \cup {Head(chan[Current(n)].replies).frame.seq} ELSE proof
    /\ UNCHANGED <<bankVars, at, array, content, ended, serverVars>>

Outcome == IF client.seq \in proof THEN "confirmed" ELSE IF Success THEN "other" ELSE "failed"

FinishAttempt ==
    /\ EndRound
    /\ ended' = IF client'.pc = "send" THEN ended ELSE Append(ended, Outcome)
    /\ UNCHANGED <<bankVars, at, array, content, proof, serverVars>>

StartOrExit ==
    /\ ~Gathering
    /\ StartClient \/ Exit
    /\ UNCHANGED <<bankVars, clientVars, serverVars>>

ClientMoves == \/ BeginGather \/ VisitWaiting \/ VisitIdle \/ NothingToSend \/ StartRound
               \/ StartTimeRound \/ Attempt \/ FinishAttempt \/ StartOrExit
               \/ \E n \in Net : Receive(n)

-----------------------------------------------------------------------------
(* PackCtrlData writes the number of values into the 7 bits below the bit  *)
(* that says that every value has an address of its own, by an addition:   *)
(* a frame of LengthModulus values announces none, and the bit is lost.    *)
Announced(values) == Len(values) % LengthModulus
Alone(values) == (Len(values) \div LengthModulus) % 2 = 0

(* SaveCtrlData: SetRealData(.., true) for one value of the frame or, when *)
(* the bit is lost, for the next register after the first value's, with    *)
(* what the bytes at that place of the frame happen to be ...              *)
SaveValue(c) ==
    LET values == content[Got(c).seq]
        value == values[stored[c] + 1] IN
    /\ server[c].pc = "save"
    /\ stored[c] < Announced(values)
    /\ saved' = IF Alone(values) THEN [saved EXCEPT ![value[1]] = Append(@, value[2])] ELSE saved
    /\ garbled' = IF Alone(values) THEN garbled ELSE garbled \cup {values[1][1] + stored[c]}
    /\ stored' = [stored EXCEPT ![c] = @ + 1]
    /\ UNCHANGED <<linkVars, bankVars, clientVars>>

(* ... until as many are as the frame announces.                           *)
AllSaved_OneLess(c) ==  \* mutant: i < dataLength - 1
    /\ server[c].pc = "save"
    /\ stored[c] >= Announced(content[Got(c).seq]) - 1
    /\ Save(c)
    /\ stored' = [stored EXCEPT ![c] = 0]
    /\ UNCHANGED <<bankVars, clientVars, saved, garbled>>

AllSaved(c) ==
    /\ server[c].pc = "save"
    /\ stored[c] = Announced(content[Got(c).seq])
    /\ Save(c)
    /\ stored' = [stored EXCEPT ![c] = 0]
    /\ UNCHANGED <<bankVars, clientVars, saved, garbled>>

ServerMoves(c) ==
    \/ SaveValue(c) \/ AllSaved(c)
    \/ /\ Recv(c) \/ Compare(c) \/ Confirm(c) \/ EndService(c)
       /\ UNCHANGED <<bankVars, clientVars, serverVars>>

Environment ==
    \/ \E a \in Commanded : Command(a) \/ Measure(a)
    \/ \E c \in Conn : Break(c) /\ UNCHANGED <<bankVars, clientVars, serverVars>>

PathNext == ClientMoves \/ Environment \/ \E c \in Conn : ServerMoves(c)

PathSpec == /\ PathInit /\ [][PathNext]_pathVars
            /\ WF_pathVars(ClientMoves) /\ \A c \in Conn : WF_pathVars(ServerMoves(c))

-----------------------------------------------------------------------------
Value == Reg \X (1 .. MaxCommand)

PathTypeOK ==
    /\ TypeOK
    /\ at \in [dev : Stops \cup {0}, reg : Nat]
    /\ Gathering => at.dev # 0 /\ at.reg \in IF AtEnd THEN {1} ELSE 1 .. RegLength[at.dev]
    /\ array \in Seq(Value)
    /\ Len(content) = client.seq /\ \A s \in DOMAIN content : content[s] \in Seq(Value)
    /\ proof \subseteq 1 .. MaxSeq
    /\ ended \in Seq({"confirmed", "other", "failed"})
    /\ stored \in [Conn -> Nat]
    /\ \A c \in Conn :
          stored[c] <= IF server[c].pc = "save" THEN Announced(content[Got(c).seq]) ELSE 0
    /\ saved \in [Reg -> Seq(1 .. MaxCommand)] /\ garbled \subseteq Nat

(* ControlClient::GetControlData takes a command by clearing its flag:     *)
(* from then on only the array and the frame hold it.  Every command taken *)
(* is in exactly one place of one frame, and the frames carry the commands *)
(* of a register in their order.                                           *)
Frames == Append(content, array)
Place == UNION {{s} \X DOMAIN Frames[s] : s \in DOMAIN Frames}
Carried(p) == Frames[p[1]][p[2]]
Precedes(p, q) == p[1] < q[1] \/ (p[1] = q[1] /\ p[2] < q[2])

TakenIsCarried ==
    /\ \A a \in Reg :
          ToSet(taken[a]) = {Carried(p)[2] : p \in {q \in Place : Carried(q)[1] = a}}
    /\ \A p, q \in Place : Precedes(p, q) /\ Carried(p)[1] = Carried(q)[1]
                              => Carried(p)[2] < Carried(q)[2]

(* The slave's register gets the commands of its master once and in the    *)
(* order in which they were given, whatever is lost, repeated or refused   *)
(* on the way (over one connection: ControlLink's AppliedOnceInOrder), and *)
(* SaveCtrlData gives it nothing that nobody commanded unless a frame had  *)
(* more values than its 7 bits count.                                      *)
Whole(s) == Len(content[s]) < LengthModulus

SavedOnceInOrder ==
    /\ \A a \in Reg : \A i, j \in DOMAIN saved[a] : i < j => saved[a][i] < saved[a][j]
    /\ (\A s \in DOMAIN content : Whole(s)) => garbled = {}

(* ControlClient::SendCtrlData returns ERR_OK for a round that its own     *)
(* confirmation has ended: then every command of it is in the slave's      *)
(* bank, if the frame had no more values than its 7 bits count.  Otherwise *)
(* a command is lost only with a round that failed, which ends the client, *)
(* or that a confirmation of another round has ended.                      *)
InBank(s) == \A i \in DOMAIN content[s] : content[s][i][2] \in ToSet(saved[content[s][i][1]])

ConfirmedIsSaved == \A s \in DOMAIN ended : ended[s] = "confirmed" /\ Whole(s) => InBank(s)

(* The same of every frame that ControlClient.h:106 allows, "no more than  *)
(* 128 values each time".  It does not hold: a frame of 128 announces none *)
(* and is confirmed (README, Behaviour that falls short).                  *)
AllowedIsSaved ==
    \A s \in DOMAIN ended :
        ended[s] = "confirmed" /\ Len(content[s]) <= LengthModulus => InBank(s)

(* ControlClient.h:106, "no more than 128 values each time": the size is   *)
(* looked at after a device only.  It does not hold: README, Behaviour     *)
(* that falls short.                                                       *)
FrameWithinLimit == Len(array) <= Capacity + 1

(* A command does not wait for ever while the client runs, although every  *)
(* frame has a limit and every scan begins at the first device.            *)
WaitingIsServed ==
    \A a \in Reg :
        (waiting[a] # Bank!NoCommand /\ client.pc # "exited")
            ~> (waiting[a] = Bank!NoCommand \/ client.pc = "exited")
==============================================================================
