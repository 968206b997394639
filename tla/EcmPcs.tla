-------------------------------- MODULE EcmPcs --------------------------------
(***************************************************************************)
(* The control side of the driver of ECM power converters                  *)
(* (io/device/pcs/EcmPcs::EcmPcsPreset) over Modbus TCP                    *)
(* (io/protocol/modbus/ModbusTcpClient), for the converters behind one     *)
(* connection.  A converter has two words of control bits, registers 512   *)
(* and 701.  A command changes one bit: the driver reads both words into   *)
(* m_state and m_mode at the start of each call, changes the bit there and *)
(* writes the word.  The two members are shared by all converters of the   *)
(* control thread and keep their value when a read fails.                  *)
(*                                                                         *)
(* The connection hands over answers in order, and any number of them      *)
(* later than the client waits.  The client sends transaction number 0 in  *)
(* every query and drops nothing before it sends (tcflush has no effect on *)
(* a socket), so it reads the answer of an earlier query as that of the    *)
(* next one, and as answers differ in length, part of it.  Only this       *)
(* thread's queries are modelled; TcpLink has the acquisition thread       *)
(* beside it, which also opens a connection again that was closed.         *)
(***************************************************************************)
EXTENDS Integers, Sequences, FiniteSets, SequencesExt

CONSTANTS DevOrder,    \* the converters, in the order in which they are visited
          Commanded,   \* the pairs of a converter and a register that masters command
          m_retries,   \* tries of a write
          MaxOrder,  \* bound on the commands issued
          MaxFault     \* bound on the queries and answers that are lost or late

Dev == ToSet(DevOrder)
Word == {512, 701}             \* m_state and m_mode
Bits == {0, 1, 6, 11, 14}      \* those EcmPcsPreset changes

(* The command registers (regStart + n) in the order of EcmPcsPreset.      *)
RegisterOrder == <<1, 2, 14, 5, 6, 7, 8, 9, 10, 11, 12, 13, 3>>
WorkMode == 3
CommandReg == ToSet(RegisterOrder)
BitOf == [n \in {1, 2, 14, 5, WorkMode} |->
            CASE n = 1  -> [word |-> 512, bit |-> 0]        \* start, stop
              [] n = 2  -> [word |-> 512, bit |-> 14]       \* reset of faults
              [] n = 14 -> [word |-> 512, bit |-> 1]        \* with or without grid
              [] n = 5  -> [word |-> 701, bit |-> 11]        \* automatic battery simulation
              [] n = WorkMode -> [word |-> 701, bit |-> 6]]

ASSUME EcmPcsAssumption ==
    /\ DevOrder \in Seq(Dev) /\ DevOrder # <<>>
    /\ Commanded \subseteq Dev \X CommandReg
    /\ m_retries \in Nat \ {0} /\ MaxOrder \in Nat /\ MaxFault \in Nat

VARIABLES command,   \* the bank: value and flag of the command registers
          reported,  \* the bank: register regStart + 4
          word,      \* the devices: the bits set in each word
          shared,    \* m_state and m_mode
          at,        \* the converter that is visited, as an index of DevOrder
          stage,     \* where its call is: 1, 2 the reads, then 2 + n for RegisterOrder[n]
          query,     \* the write under way
          tries,     \* how often it failed
          stream,    \* bytes of answers that the client has not read, arrived or not
          orders, faults,  \* bounds
          intended,  \* history: the words with exactly the commands taken applied
          disturbed, \* history: converters with a query that did not go smoothly
          givenUp,   \* history: words with a write given up, since no byte was unread
          done       \* history: the write just reported as done

bank == <<command, reported, orders>>
pcsVars == <<bank, word, shared, at, stage, query, tries, stream, faults, intended, disturbed,
              givenUp, done>>

NoQuery == [fn |-> "none"]

(* The working modes are 1 to 4; a master may write any other number.      *)
ValueOf(n) == IF n = WorkMode THEN 0 .. 4 ELSE {0, 1}

PcsInit ==
    /\ command = [c \in Commanded |-> [value |-> 0, writed |-> FALSE]]
    /\ reported = [d \in Dev |-> 0]
    /\ word = [d \in Dev |-> [w \in Word |-> IF w = 701 /\ d = DevOrder[1] THEN {6} ELSE {}]]
    /\ \E m_mode \in {{}, Bits} :   \* it is not initialised
          shared = [w \in Word |-> IF w = 701 THEN m_mode ELSE {}]
    /\ at = 1 /\ stage = 1
    /\ query = NoQuery /\ tries = 0
    /\ stream = <<>>
    /\ orders = 0 /\ faults = 0
    /\ intended = word
    /\ disturbed = {} /\ givenUp = {} /\ done = NoQuery

(* SetRealData(regStart + n, value, true) of a master's service thread.    *)
PcsCommand(c) ==
    /\ orders < MaxOrder
    /\ \E v \in ValueOf(c[2]) : command' = [command EXCEPT ![c] = [value |-> v, writed |-> TRUE]]
    /\ orders' = orders + 1
    /\ done' = NoQuery
    /\ UNCHANGED <<reported, word, shared, at, stage, query, tries, stream, faults,
                   intended, disturbed, givenUp>>

-----------------------------------------------------------------------------
(* The bytes of an answer: 11 for a word that was read, 12 for the echo of *)
(* a write.  The answer of a read does not name the register.              *)
Size(fn) == IF fn = "read" THEN 11 ELSE 12
AnswerTo(q) == IF q.fn = "read" THEN [q EXCEPT !.value = word[q.dev][q.reg]] ELSE q
Bytes(answer) == [i \in 1 .. Size(answer.fn) |-> <<answer, i>>]

(* Socket::TxRxMsg.  The query or its answer is lost, or the connection    *)
(* is, with every byte that is unread; the client closes it.  Until it is  *)
(* open again, the queries of the call are lost.                           *)
Fate == {"answered", "answer lost", "query lost", "closed"}
Executed(fate) == fate \in {"answered", "answer lost"}

Answer(q) == Bytes(AnswerTo(q))
Sent(q, fate) ==
    CASE fate = "answered" -> stream \o Answer(q)
      [] fate = "closed"   -> <<>>
      [] OTHER             -> stream

(* The bytes that the client gets within 400 ms: of the answers that it    *)
(* has not read, the first ones have arrived, each as a whole, and it      *)
(* takes no more than its answer should have.                              *)
Arrived(bytes) == {p \in 0 .. Len(bytes) : p = Len(bytes) \/ bytes[p + 1][2] = 1}
Counts(q, fate) ==
    {IF p < Size(q.fn) THEN p ELSE Size(q.fn) : p \in Arrived(Sent(q, fate))}

Read(q, fate, n) == SubSeq(Sent(q, fate), 1, n)
Unread(q, fate, n) == SubSeq(Sent(q, fate), n + 1, Len(Sent(q, fate)))

(* The comparison with the query: a read compares unit and function, the   *)
(* write of a register all bytes.  A float write compares the length in    *)
(* the header, which is 11 in the query and 6 in the answer.  Bytes of two *)
(* answers, or of an incomplete one, differ from any query here.           *)
Matches_AnyEcho(q, answer) ==  \* mutant: unit and function are compared, as for a read
    answer.fn = q.fn /\ answer.dev = q.dev /\ q.fn # "float"

Matches(q, answer) ==
    CASE q.fn = "read"  -> answer.fn = "read" /\ answer.dev = q.dev
      [] q.fn = "write" -> answer = q
      [] q.fn = "float" -> FALSE

Accepted(q, read) ==
    Len(read) = Size(q.fn) /\ read = Bytes(read[1][1]) /\ Matches(q, read[1][1])

(* What every query leaves behind.  It goes smoothly when nothing is       *)
(* unread before it and its own answer comes in time.                      *)
InTime(q, fate, n) == fate = "answered" /\ n = Size(q.fn)

Heard(q, fate, n) ==
    /\ faults' = IF InTime(q, fate, n) THEN faults ELSE faults + 1
    /\ faults' <= MaxFault
    /\ stream' = Unread(q, fate, n)
    /\ disturbed' = IF InTime(q, fate, n) /\ stream = <<>> THEN disturbed
                    ELSE disturbed \cup {q.dev}

StillGivenUp == IF stream = <<>> THEN {} ELSE givenUp

-----------------------------------------------------------------------------
Converter == DevOrder[at]

(* ReadInputRegisters(512) and (701): a read that fails leaves the member  *)
(* as it was.  A call that finds the connection closed returns before      *)
(* them: it changes nothing and is not a step.                             *)
ReadWord_FirstOnly ==  \* mutant: the words are read once for all converters
    /\ stage \in {1, 2}
    /\ stage' = stage + 1
    /\ LET w == IF stage = 1 THEN 512 ELSE 701
           q == [dev |-> Converter, fn |-> "read", reg |-> w, value |-> {}]
       IN  \E fate \in Fate : \E n \in Counts(q, fate) :
             LET read == Read(q, fate, n) IN
             /\ Heard(q, fate, n)
             /\ shared' = IF at = 1 /\ Accepted(q, read)
                          THEN [shared EXCEPT ![w] = read[1][1].value] ELSE shared
    /\ givenUp' = StillGivenUp
    /\ done' = NoQuery
    /\ UNCHANGED <<bank, word, at, query, tries, intended>>

ReadWord ==
    /\ stage \in {1, 2}
    /\ stage' = stage + 1
    /\ LET w == IF stage = 1 THEN 512 ELSE 701
           q == [dev |-> Converter, fn |-> "read", reg |-> w, value |-> {}]
       IN  \E fate \in Fate : \E n \in Counts(q, fate) :
             LET read == Read(q, fate, n) IN
             /\ Heard(q, fate, n)
             /\ shared' = IF Accepted(q, read)
                          THEN [shared EXCEPT ![w] = read[1][1].value] ELSE shared
    /\ givenUp' = StillGivenUp
    /\ done' = NoQuery
    /\ UNCHANGED <<bank, word, at, query, tries, intended>>

(* The command registers in their order; one that no master commands is    *)
(* always passed over.                                                     *)
Here(n) == <<Converter, n>>
InCall == stage \in 3 .. Len(RegisterOrder) + 2 /\ query = NoQuery
Register == RegisterOrder[stage - 2]
Waits(c) == c \in Commanded /\ command[c].writed

PassOver ==
    /\ InCall /\ ~Waits(Here(Register))
    /\ stage' = stage + 1
    /\ done' = NoQuery
    /\ UNCHANGED <<bank, word, shared, at, query, tries, stream, faults, intended, disturbed,
                   givenUp>>

(* Util::SetBitValue with a command's value.  The working modes 1 and 2    *)
(* clear their bit, 3 and 4 set it.                                        *)
IsSet(n, value) == IF n = WorkMode THEN value \in {3, 4} ELSE value # 0
SetBitValue(bits, n, value) ==
    IF IsSet(n, value) THEN bits \cup {BitOf[n].bit} ELSE bits \ {BitOf[n].bit}

Take ==
    /\ InCall /\ Waits(Here(Register))
    /\ command' = [command EXCEPT ![Here(Register)].writed = FALSE]
    /\ LET n == Register
           value == command[Here(n)].value
       IN  IF n \in DOMAIN BitOf
           THEN LET w == BitOf[n].word IN
                /\ shared' = [shared EXCEPT ![w] = SetBitValue(@, n, value)]
                /\ intended' = [intended EXCEPT ![Converter][w] = SetBitValue(@, n, value)]
                /\ query' = [dev |-> Converter, fn |-> "write", reg |-> w, value |-> shared'[w]]
           ELSE /\ query' = [dev |-> Converter, fn |-> IF n \in 6 .. 11 THEN "float" ELSE "write",
                             reg |-> n, value |-> {value}]
                /\ UNCHANGED <<shared, intended>>
    /\ tries' = 0
    /\ done' = NoQuery
    /\ UNCHANGED <<reported, orders, word, at, stage, stream, faults, disturbed, givenUp>>

(* One turn of the loop of PresetSingleRegister and                        *)
(* PresetMultipleFloatRegisters, which the device may carry out whether or *)
(* not its answer is accepted.                                             *)
Failed_NotCounted == tries  \* mutant: a failure is not counted
Failed == tries + 1
GivesUp(n) == n >= m_retries

TryWrite ==
    /\ query # NoQuery
    /\ \E fate \in Fate : \E n \in Counts(query, fate) :
         LET accepted == Accepted(query, Read(query, fate, n)) IN
         /\ Heard(query, fate, n)
         /\ word' = IF Executed(fate) /\ query.reg \in Word
                    THEN [word EXCEPT ![Converter][query.reg] = query.value] ELSE word
         /\ tries' = IF accepted THEN tries ELSE Failed
         /\ LET ends == accepted \/ GivesUp(tries') IN
            /\ query' = IF ends THEN NoQuery ELSE query
            /\ stage' = IF ends THEN stage + 1 ELSE stage
            /\ givenUp' = StillGivenUp \cup
                  (IF ends /\ ~accepted THEN {<<query.dev, query.reg>>} ELSE {})
         /\ done' = IF accepted THEN query ELSE NoQuery
    /\ UNCHANGED <<bank, shared, at, intended>>

(* The end of EcmPcsPreset; SocketCtrlThread goes on to the next device.   *)
EndCall ==
    /\ stage = Len(RegisterOrder) + 3
    /\ reported' = [reported EXCEPT ![Converter] =
                      IF Here(WorkMode) \in Commanded THEN command[Here(WorkMode)].value ELSE 0]
    /\ at' = (at % Len(DevOrder)) + 1
    /\ stage' = 1
    /\ done' = NoQuery
    /\ UNCHANGED <<command, orders, word, shared, query, tries, stream, faults,
                   intended, disturbed, givenUp>>

EcmPcsPreset == ReadWord \/ PassOver \/ Take \/ TryWrite \/ EndCall
PcsNext == EcmPcsPreset \/ \E c \in Commanded : PcsCommand(c)

(* The control thread runs until it is stopped, and the acquisition thread *)
(* opens a connection that was closed.                                     *)
PcsSpec == PcsInit /\ [][PcsNext]_pcsVars /\ WF_pcsVars(EcmPcsPreset)

-----------------------------------------------------------------------------
(* EcmPcsPreset (1015-1058) keeps the words of all converters in the same  *)
(* two members: a command to one changes its bit in the word of that       *)
(* converter and nothing else, as long as none of its queries was lost,    *)
(* late, or met the late answer of another.                                *)
UndisturbedIsIntended ==
    \A c \in Dev \ disturbed :
        word[c] = intended[c] \/ (query # NoQuery /\ query.dev = c)

(* PresetSingleRegister compares the whole echo with its query, and takes  *)
(* the echo of an earlier one for its own.  A write that it reports as     *)
(* done is in the device all the same, however many answers were late, as  *)
(* long as no write to that register was given up since the client last    *)
(* had nothing unread.                                                     *)
DoneIsWritten ==
    done # NoQuery /\ done.reg \in Word /\ <<done.dev, done.reg>> \notin givenUp
        => word[done.dev][done.reg] = done.value

(* ModbusTcpClient.cpp:848-859: a write that is reported as done is in the *)
(* device.  It does not hold: README, Behaviour that falls short.          *)
EveryDoneIsWritten ==
    done # NoQuery /\ done.reg \in Word => word[done.dev][done.reg] = done.value

(* EcmPcs.cpp:1015, "if (ERR_OK == ret)": a command to a converter changes *)
(* no other bit of its words, also when the words could not be read.  It   *)
(* does not hold: README, Behaviour that falls short.                      *)
OnlyCommandedBits == \A c \in Dev : word[c] = intended[c] \/ (query # NoQuery /\ query.dev = c)

(* A client that is behind catches up: a late answer does not make it      *)
(* refuse answers for ever.  It does not hold: README, Behaviour that      *)
(* falls short.                                                            *)
Resynchronises == stream # <<>> ~> stream = <<>>

(* The tries of a write are bounded and every converter has its turn, so   *)
(* each command is taken once the masters are silent, whatever is lost, as *)
(* long as the connection is opened again when it was closed.              *)
CommandWaits == \E c \in Commanded : Waits(c)
CommandsAreTaken == CommandWaits ~> ~CommandWaits
==============================================================================
