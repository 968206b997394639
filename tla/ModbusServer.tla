----------------------------- MODULE ModbusServer -----------------------------
(***************************************************************************)
(* The Modbus TCP server (io/protocol/modbus/ModbusTcpServer with the      *)
(* accepting thread of etc/socket/TcpServer): how an operator's station    *)
(* reads and commands the register bank.  Each connection has a service    *)
(* thread of its own; the threads share nothing but the bank, which is     *)
(* module MemDb and whose critical sections are taken as steps of theirs.  *)
(*                                                                         *)
(* Data: a request is its order, its first register, the number of         *)
(* registers and its words.  Orders 1 and 2 are "coils", 3 and 4           *)
(* "registers", 5 and 6 "single", 15 and 16 "multiple"; a coil is written  *)
(* as a register that gets 0 or 1.  A request reaches the server in one    *)
(* piece, possibly with others behind it; its client may have put fewer    *)
(* words in it than it announces.                                          *)
(***************************************************************************)
EXTENDS Integers, Sequences

CONSTANTS Conn,             \* connections, each with its service thread
          Pipelined,        \* those whose client may send before it has its answer
          Sends,            \* the requests the client of each connection sends
          MaxRequest,       \* bound on the requests of each connection
          BankLength,       \* MAX_LENGTH, the registers of the bank
          RegStart, RegEnd, \* ModbusCheck, the registers a request may name
          WordSize,         \* 2^16 in the code
          SensorType, WRITED_NUM, MaxCommand  \* of MemDb

Addr == 0 .. BankLength - 1
Word == 0 .. WordSize - 1
Short == -(WordSize \div 2) .. WordSize \div 2 - 1
Order == {"coils", "registers", "single", "multiple", "unknown"}
Writes == {"single", "multiple"}
Request == [order : Order, start : Nat, length : Nat, words : Seq(Word)]

ASSUME ModbusServerAssumption ==
    /\ Pipelined \subseteq Conn
    /\ Sends \in [Conn -> SUBSET Request]
    /\ MaxRequest \in [Conn -> Nat]
    /\ BankLength \in Nat
    /\ WordSize \in Nat \ {0} /\ WordSize % 2 = 0
    /\ RegStart \in Nat /\ RegEnd \in 0 .. BankLength
    /\ SensorType \in [Addr -> {"INT", "DB"}]
    /\ WRITED_NUM \in Nat /\ MaxCommand \in Nat

VARIABLES cell, request, issued, taken,  \* the bank
          conn,     \* each connection, as client and service thread see it
          sent,     \* number of requests each client sent; a request's number is its flag
          inbox,    \* requests sent and not yet received
          job,      \* what each service thread is doing
          answers,  \* history: the answers each client got
          log,      \* history: what each command of the bank stands for
          shown,    \* history: what read requests found in the bank
          killed    \* a signal has ended the process

Bank == INSTANCE MemDb WITH Service <- Conn

bank == <<cell, request, issued, taken>>
vars == <<cell, request, issued, taken, conn, sent, inbox, job, answers, log, shown, killed>>

NoJob == [id |-> 0]

-----------------------------------------------------------------------------
(* Modbus's view of a word.                                                *)

(* The word as a short: order 6 passes it on with its sign ...             *)
Signed_Off(w) == IF w > WordSize \div 2 THEN w - WordSize ELSE w  \* mutant
Signed(w) == IF w >= WordSize \div 2 THEN w - WordSize ELSE w

(* ... order 16 as the USHORT of modbus.data.                              *)
ValueOf_Unsigned(order, w) == w  \* mutant: order 6 without its short
ValueOf(order, w) == IF order = "single" THEN Signed(w) ELSE w

(* The words that may be shown for a cell.  What the conversion of a float *)
(* outside short gives is undefined; a coil stored as float shows as off.  *)
Contents(a) == IF cell[a].value = Bank!Measured THEN 0 ELSE log[cell[a].value].value
Shown(order, a) ==
    CASE order = "coils"     -> IF cell[a].type = "INT" /\ Contents(a) % WordSize # 0
                                THEN {1} ELSE {0}
      [] order = "registers" -> IF cell[a].type = "INT" \/ Contents(a) \in Short
                                THEN {Contents(a) % WordSize} ELSE Word

-----------------------------------------------------------------------------
Length(r) == IF r.order = "single" THEN 1 ELSE r.length

Check_EndInclusive(r) ==  \* mutant: the bound of order 5 and 6 for every order
    /\ r.order # "unknown"
    /\ r.start >= RegStart
    /\ r.start + Length(r) - 1 <= RegEnd

Check(r) ==
    /\ r.order # "unknown"
    /\ r.start >= RegStart
    /\ IF r.order = "single" THEN r.start <= RegEnd ELSE r.start + r.length <= RegEnd

(* UnpackModbus.  Check compares the size of what came with the size that  *)
(* the request names (data[5]), not with its number of registers, so that  *)
(* words can be missing: what is read past those received is anything.     *)
Missing(r) == r.order \in Writes /\ Len(r.words) < Length(r)

Decoded(r) ==
    IF r.order \in Writes
    THEN {w \in [1 .. Length(r) -> Word] :
             \A k \in 1 .. Length(r) : k <= Len(r.words) => w[k] = r.words[k]}
    ELSE {<<>>}

(* Socket::Send.  The peer that has closed its end answers with a reset;   *)
(* the next send raises SIGPIPE, which nobody handles.                     *)
Send(c, a) ==
    \/ /\ conn[c] = "up"
       /\ answers' = [answers EXCEPT ![c] = Append(@, a)]
       /\ UNCHANGED <<conn, killed>>
    \/ /\ conn[c] = "closed"
       /\ conn' \in {conn, [conn EXCEPT ![c] = "reset"]}
       /\ UNCHANGED <<answers, killed>>
    \/ /\ conn[c] = "reset"
       /\ killed' = TRUE
       /\ UNCHANGED <<conn, answers>>

PackErrorMessage_Silent(c, j) ==  \* mutant: no answer to what Check refuses
    IF Check(j.request)
    THEN Send(c, [id |-> j.id, request |-> j.request, kind |-> "error"])
    ELSE UNCHANGED <<conn, answers, killed>>
PackErrorMessage(c, j) ==
    Send(c, [id |-> j.id, request |-> j.request, kind |-> "error"])

Register(j) == j.request.start + j.i
Advance(j) == [j EXCEPT !.i = @ + 1]
More(j) == j.i < Length(j.request)
Refused(j) == Register(j) \notin Addr

(* After a register that the bank does not have: order 5 or 6 is over; the *)
(* loop of the other orders is left, and the normal answer follows it.     *)
AfterFail_Falls(j) == [j EXCEPT !.i = Length(j.request)]  \* mutant: order 6 without its else
AfterFail(j) ==
    IF j.request.order = "single" THEN NoJob ELSE [j EXCEPT !.i = Length(j.request)]

-----------------------------------------------------------------------------
Init ==
    /\ Bank!Init
    /\ conn = [c \in Conn |-> "new"]
    /\ sent = [c \in Conn |-> 0]
    /\ inbox = [c \in Conn |-> <<>>]
    /\ job = [c \in Conn |-> NoJob]
    /\ answers = [c \in Conn |-> <<>>]
    /\ log = <<>>
    /\ shown = {}
    /\ killed = FALSE

(* TcpListen::Run accepts a connection and starts its service.  Whether    *)
(* the thread could be created is not tested: an orphan is never served.   *)
Accept(c) ==
    /\ conn[c] = "new"
    /\ \E s \in {"up", "orphan"} : conn' = [conn EXCEPT ![c] = s]
    /\ UNCHANGED <<bank, sent, inbox, job, answers, log, shown, killed>>

Answered(c) == Len(answers[c]) = sent[c]

(* The client.                                                             *)
ClientSend(c, r) ==
    /\ conn[c] = "up"
    /\ sent[c] < MaxRequest[c]
    /\ Answered(c) \/ c \in Pipelined
    /\ sent' = [sent EXCEPT ![c] = @ + 1]
    /\ inbox' = [inbox EXCEPT ![c] = Append(@, [id |-> sent[c] + 1, request |-> r])]
    /\ UNCHANGED <<bank, conn, job, answers, log, shown, killed>>

ClientClose(c) ==
    /\ conn[c] = "up"
    /\ conn' = [conn EXCEPT ![c] = "closed"]
    /\ UNCHANGED <<bank, sent, inbox, job, answers, log, shown, killed>>

(* Run and UnpackModbus.  One Recv gets everything that has come; only the *)
(* first request of it is looked at.                                       *)
Recv(c) ==
    /\ job[c] = NoJob
    /\ inbox[c] # <<>>
    /\ \E n \in 1 .. Len(inbox[c]) :
          inbox' = [inbox EXCEPT ![c] = SubSeq(@, n + 1, Len(@))]
    /\ LET first == Head(inbox[c])
           j(w) == [id |-> first.id, request |-> first.request, i |-> 0, words |-> w]
       IN IF Check(first.request)
          THEN /\ \E w \in Decoded(first.request) : job' = [job EXCEPT ![c] = j(w)]
               /\ UNCHANGED <<conn, answers, killed>>
          ELSE PackErrorMessage(c, j(<<>>)) /\ UNCHANGED job
    /\ UNCHANGED <<bank, sent, log, shown>>

(* Reading past what was received leaves the memory of the process.        *)
Overrun(c) ==
    /\ job[c] = NoJob
    /\ inbox[c] # <<>>
    /\ Check(Head(inbox[c]).request)
    /\ Missing(Head(inbox[c]).request)
    /\ killed' = TRUE
    /\ UNCHANGED <<bank, conn, sent, inbox, job, answers, log, shown>>

(* Recv returns 0 or an error: the thread ends and deletes itself.         *)
End(c) ==
    /\ job[c] = NoJob
    /\ inbox[c] = <<>>
    /\ conn[c] \in {"closed", "reset"}
    /\ conn' = [conn EXCEPT ![c] = "ended"]
    /\ UNCHANGED <<bank, sent, inbox, job, answers, log, shown, killed>>

-----------------------------------------------------------------------------
(* PackModbus, one register at a time.                                     *)
Working(c, orders) == job[c] # NoJob /\ job[c].request.order \in orders

Read(c) ==
    LET j == job[c]  a == Register(j)
    IN /\ Working(c, {"coils", "registers"})
       /\ More(j)
       /\ ~Refused(j)
       /\ \E w \in Shown(j.request.order, a) :
             shown' = shown \cup {[order |-> j.request.order, command |-> cell[a].value,
                                  type |-> cell[a].type, word |-> w]}
       /\ job' = [job EXCEPT ![c] = Advance(@)]
       /\ UNCHANGED <<bank, conn, sent, inbox, answers, log, killed>>

(* SetRealDataUnknown of the next register: its two critical sections.     *)
ReadType(c) ==
    /\ Working(c, Writes)
    /\ More(job[c])
    /\ ~Refused(job[c])
    /\ Bank!ReadType(c, Register(job[c]))
    /\ UNCHANGED <<conn, sent, inbox, job, answers, log, shown, killed>>

Write(c) ==
    LET j == job[c]  r == j.request  w == j.words[j.i + 1]
    IN /\ Working(c, Writes)
       /\ Bank!SetRealDataUnknown(c)
       /\ log' = Append(log, [conn |-> c, id |-> j.id, addr |-> Register(j), order |-> r.order,
                              word |-> w, value |-> ValueOf(r.order, w)])
       /\ job' = [job EXCEPT ![c] = Advance(@)]
       /\ UNCHANGED <<conn, sent, inbox, answers, shown, killed>>

(* The bank has no such register: an error answer.                         *)
Fail(c) ==
    LET j == job[c]
    IN /\ Working(c, Order)
       /\ More(j)
       /\ Refused(j)
       /\ PackErrorMessage(c, j)
       /\ job' = [job EXCEPT ![c] = AfterFail(j)]
       /\ UNCHANGED <<bank, sent, inbox, log, shown>>

PackModbus(c) ==
    LET j == job[c]
    IN /\ Working(c, Order)
       /\ ~More(j)
       /\ Send(c, [id |-> j.id, request |-> j.request, kind |-> "done"])
       /\ job' = [job EXCEPT ![c] = NoJob]
       /\ UNCHANGED <<bank, sent, inbox, log, shown>>

(* The device threads store measurements.  That they take commands changes *)
(* no value and no type: a measurement that meets a command after          *)
(* WRITED_NUM others may be taken for one that follows its taking.         *)
Device ==
    /\ \E a \in Addr : Bank!Measure(a)
    /\ UNCHANGED <<conn, sent, inbox, job, answers, log, shown, killed>>

Service(c) ==
    \/ Accept(c) \/ Recv(c) \/ Overrun(c) \/ End(c) \/ Read(c)
    \/ ReadType(c) \/ Write(c) \/ Fail(c) \/ PackModbus(c)

Next ==
    /\ ~killed
    /\ \/ \E c \in Conn : \/ Service(c)
                          \/ ClientClose(c)
                          \/ \E r \in Sends[c] : ClientSend(c, r)
       \/ Device

Spec == Init /\ [][Next]_vars

(* The service threads are threads of the system and none of them waits    *)
(* for another: each of them goes on.                                      *)
FairSpec == Spec /\ \A c \in Conn : WF_vars(~killed /\ Service(c))

-----------------------------------------------------------------------------
Message == [id : Nat, request : Request]
Job == [id : Nat, request : Request, i : Nat, words : Seq(Word)]
Answer == [id : Nat, request : Request, kind : {"done", "error"}]

TypeOK ==
    /\ Bank!TypeOK
    /\ conn \in [Conn -> {"new", "up", "orphan", "closed", "reset", "ended"}]
    /\ \A c \in Conn : sent[c] \in 0 .. MaxRequest[c]
    /\ inbox \in [Conn -> Seq(Message)]
    /\ job \in [Conn -> {NoJob} \cup Job]
    /\ \A c \in Conn : job[c] # NoJob => job[c].i <= Length(job[c].request)
    /\ answers \in [Conn -> Seq(Answer)]
    /\ Len(log) = issued
    /\ \A n \in 1 .. Len(log) :
          log[n].value \in IF log[n].order = "single" THEN Short ELSE Word
    /\ \A v \in shown : v.command <= issued /\ v.word \in Word
    /\ killed \in BOOLEAN

(* UnpackModbus, PackModbus and PackErrorMessage each send where they      *)
(* find the end of a request.  Between them a client gets no more than one *)
(* answer to a request, and the answers in the order of its requests: what *)
(* Check lets pass, the loops of orders 1-4, 15 and 16 find in the bank.   *)
OneAnswer ==
    \A c \in Conn : \A i, j \in 1 .. Len(answers[c]) :
        i < j => answers[c][i].id < answers[c][j].id

(* The normal answer to orders 5, 6, 15 and 16 means that every register   *)
(* of the request was commanded, with its own word where the request has   *)
(* one; the error answer that none was, so that the operator may repeat    *)
(* the request.                                                            *)
Commanded(c, a, k) ==
    \E n \in 1 .. Len(log) :
        /\ log[n].conn = c /\ log[n].id = a.id
        /\ log[n].addr = a.request.start + k - 1
        /\ k <= Len(a.request.words) => log[n].word = a.request.words[k]

AnswerIsTrue ==
    \A c \in Conn : \A i \in 1 .. Len(answers[c]) :
        LET a == answers[c][i]
        IN a.request.order \in Writes =>
              IF a.kind = "done"
              THEN \A k \in 1 .. Length(a.request) : Commanded(c, a, k)
              ELSE \A n \in 1 .. Len(log) : ~(log[n].conn = c /\ log[n].id = a.id)

(* A request with fewer words than it announces fails the check of its     *)
(* length and is not carried out (ModbusTcpServer.h:102).  Not true of     *)
(* this code.                                                              *)
DoneHasWords ==
    \A c \in Conn : \A i \in 1 .. Len(answers[c]) :
        answers[c][i].kind = "done" => ~Missing(answers[c][i].request)

(* What is no Modbus request, or of an order that the server does not      *)
(* know, gets no answer at all (ModbusTcpServer.h:101 and 103).  Not true  *)
(* of this code.                                                           *)
SilentOnUnknown ==
    \A c \in Conn : \A i \in 1 .. Len(answers[c]) :
        answers[c][i].request.order # "unknown"

(* Orders 3 and 4 show a waiting command as the operator gave it, negative *)
(* ones too: after order 6 in a register of either type, after order 16 in *)
(* one of integers.  (A negative word of order 16 is stored without its    *)
(* sign, and as a float it is outside short.)                              *)
ReadsBack ==
    \A v \in shown :
        /\ v.order = "registers"
        /\ v.command # Bank!Measured
        /\ v.type = "INT" \/ log[v.command].order = "single"
        => v.word = log[v.command].word

(* A client that waits for its answer before it sends again gets one to    *)
(* every request of an order that the server knows, also when it names     *)
(* registers out of bounds, unless it closes the connection first, its     *)
(* service thread was never created, or a signal ends the process: Run is  *)
(* back at Recv only after it has answered.                                *)
Due(c) == job[c] # NoJob \/ (inbox[c] # <<>> /\ Head(inbox[c]).request.order # "unknown")

EveryAnswer ==
    \A c \in Conn \ Pipelined :
        conn[c] = "up" /\ Due(c) ~> Answered(c) \/ conn[c] # "up" \/ killed
===============================================================================
