--------------------------- MODULE ModbusServerProofs ---------------------------
(***************************************************************************)
(* Proofs about the Modbus TCP server, for every number of connections and *)
(* requests, every size of the bank and every choice of which clients      *)
(* pipeline.  The argument for OneAnswer: the requests of a connection are *)
(* answered, worked on and waiting in the order of their numbers, and the  *)
(* loop over several registers never meets one that the bank lacks, so     *)
(* that its error answer is never followed by the normal one.  For         *)
(* AnswerIsTrue the log of commands comes in: what it holds of a request   *)
(* grows with the number of registers done and belongs to no other.  For   *)
(* TypeOK and ReadsBack the bank comes in too: a thread that stores is at  *)
(* a register that the bank and the request have, and a value in a cell is *)
(* the number of a command of the log.                                     *)
(***************************************************************************)
EXTENDS ModbusServer, TLAPS, SequenceTheorems

(* The requests that wait in q are newer than n, none is newer than the    *)
(* last one sent, and they wait in their order.                            *)
Queue(q, last, n) ==
    /\ \A k \in 1 .. Len(q) : n < q[k].id /\ q[k].id <= last
    /\ \A k, l \in 1 .. Len(q) : k < l => q[k].id < q[l].id

Waits(c, n) == Queue(inbox[c], sent[c], n)

(* Every answer is to a request before number n.                           *)
AnsweredBefore(c, n) == \A k \in 1 .. Len(answers[c]) : answers[c][k].id < n

TypeInv ==
    /\ sent \in [Conn -> Nat]
    /\ inbox \in [Conn -> Seq(Message)]
    /\ job \in [Conn -> {NoJob} \cup Job]
    /\ answers \in [Conn -> Seq(Answer)]

(* A connection whose thread works and one whose thread may receive.       *)
Busy(c) ==
    job[c] # NoJob =>
        /\ Check(job[c].request)
        /\ job[c].words \in Decoded(job[c].request)
        /\ job[c].id <= sent[c]
        /\ AnsweredBefore(c, job[c].id)
        /\ Waits(c, job[c].id)

Free(c) ==
    /\ AnsweredBefore(c, sent[c] + 1)
    /\ Waits(c, 0)
    /\ \A k \in 1 .. Len(inbox[c]) : AnsweredBefore(c, inbox[c][k].id)

InOrder(c) ==
    \A i, j \in 1 .. Len(answers[c]) : i < j => answers[c][i].id < answers[c][j].id

IInv == TypeInv /\ \A c \in Conn : Busy(c) /\ Free(c) /\ InOrder(c)

-----------------------------------------------------------------------------
(* What Check lets pass for order 1 to 4, 15 and 16, the bank has: all     *)
(* registers of the request, whatever their number.  It rests on RegEnd    *)
(* being no more than the length of the bank.                              *)
THEOREM CheckedIsInBank ==
  ASSUME NEW r \in Request, Check(r), r.order # "single", NEW i \in Nat, i < r.length
  PROVE  r.start + i \in Addr
BY ModbusServerAssumption DEF Check, Addr, Request

(* What the server decodes are words: as many as the registers of a write, *)
(* those that its client gave first.                                       *)
LEMMA DecodedWords ==
  ASSUME NEW r \in Request, NEW w \in Decoded(r)
  PROVE  /\ w \in Seq(Word)
         /\ r.order \in Writes => \A k \in 1 .. Length(r) :
               w[k] \in Word /\ (k <= Len(r.words) => w[k] = r.words[k])
<1>1. CASE r.order \in Writes
  <2>1. Length(r) \in Nat /\ w \in [1 .. Length(r) -> Word]
    BY <1>1 DEF Decoded, Length, Request
  <2>2. \A k \in 1 .. Length(r) : k <= Len(r.words) => w[k] = r.words[k]
    BY <1>1 DEF Decoded
  <2> QED  BY <2>1, <2>2, SeqDef
<1>2. CASE r.order \notin Writes
  BY <1>2, EmptySeq DEF Decoded
<1> QED  BY <1>1, <1>2

(* A connection of which a step changes nothing keeps its invariant.       *)
LEMMA Frame ==
  ASSUME NEW d, Busy(d), Free(d), InOrder(d), sent'[d] = sent[d],
         inbox'[d] = inbox[d], job'[d] = job[d], answers'[d] = answers[d]
  PROVE  Busy(d)' /\ Free(d)' /\ InOrder(d)'
BY DEF Busy, Free, InOrder, AnsweredBefore, Waits, Queue

(* The numbers of requests and answers are natural numbers.                *)
LEMMA Typed ==
  ASSUME TypeInv, NEW c \in Conn
  PROVE  /\ sent[c] \in Nat
         /\ inbox[c] \in Seq(Message) /\ Len(inbox[c]) \in Nat
         /\ \A k \in 1 .. Len(inbox[c]) : inbox[c][k] \in Message /\ inbox[c][k].id \in Nat
         /\ answers[c] \in Seq(Answer) /\ Len(answers[c]) \in Nat
         /\ \A k \in 1 .. Len(answers[c]) : answers[c][k].id \in Nat
         /\ job[c] # NoJob => job[c] \in Job /\ job[c].id \in Nat /\ job[c].request \in Request
<1>1. sent[c] \in Nat /\ inbox[c] \in Seq(Message) /\ answers[c] \in Seq(Answer)
  BY DEF TypeInv
<1>2. \A k \in 1 .. Len(inbox[c]) : inbox[c][k] \in Message
  BY <1>1, ElementOfSeq
<1>3. \A k \in 1 .. Len(answers[c]) : answers[c][k] \in Answer
  BY <1>1, ElementOfSeq
<1>4. \A m \in Message : m.id \in Nat
  BY DEF Message
<1>5. \A a \in Answer : a.id \in Nat
  BY DEF Answer
<1>6. job[c] # NoJob => job[c] \in Job
  BY DEF TypeInv
<1>7. \A j \in Job : j.id \in Nat /\ j.request \in Request
  BY DEF Job
<1> QED  BY <1>1, <1>2, <1>3, <1>4, <1>5, <1>6, <1>7, LenProperties

(* Append, element by element.                                             *)
LEMMA Appended ==
  ASSUME NEW S, NEW s \in Seq(S), NEW e \in S
  PROVE  /\ Append(s, e) \in Seq(S) /\ Len(Append(s, e)) = Len(s) + 1 /\ Len(s) \in Nat
         /\ \A k \in 1 .. Len(s) : Append(s, e)[k] = s[k]
         /\ Append(s, e)[Len(s) + 1] = e
BY AppendProperties

(* Send adds the answer to its client's, if it comes through.              *)
LEMMA SendEffect ==
  ASSUME TypeInv, NEW c \in Conn, NEW a \in Answer, Send(c, a)
  PROVE  /\ answers' \in [Conn -> Seq(Answer)]
         /\ \A d \in Conn : d # c => answers'[d] = answers[d]
         /\ answers'[c] \in {answers[c], Append(answers[c], a)}
<1>1. Append(answers[c], a) \in Seq(Answer)
  BY Appended DEF TypeInv
<1> QED
  BY <1>1 DEF Send, TypeInv

(* An answer to a request that is newer than those answered keeps the      *)
(* answers in order, and before every number that is after the request's.  *)
LEMMA SendInOrder ==
  ASSUME TypeInv, NEW c \in Conn, NEW a \in Answer, Send(c, a),
         AnsweredBefore(c, a.id), InOrder(c)
  PROVE  /\ InOrder(c)'
         /\ \A n \in Nat : a.id < n =>
               \A k \in 1 .. Len(answers'[c]) : answers'[c][k].id < n
<1> DEFINE s == answers[c]
<1>1. s \in Seq(Answer) /\ Len(s) \in Nat /\ \A k \in 1 .. Len(s) : s[k].id \in Nat /\ s[k].id < a.id
  BY Typed DEF AnsweredBefore
<1>2. a.id \in Nat
  BY DEF Answer
<1>3. CASE answers'[c] = s
  BY <1>1, <1>2, <1>3 DEF InOrder
<1>4. CASE answers'[c] = Append(s, a)
  <2>1. /\ Len(answers'[c]) = Len(s) + 1
        /\ \A k \in 1 .. Len(s) : answers'[c][k] = s[k]
        /\ answers'[c][Len(s) + 1] = a
    BY <1>1, <1>4, Appended
  <2>2. \A k \in 1 .. Len(answers'[c]) : k \in 1 .. Len(s) \/ k = Len(s) + 1
    BY <1>1, <2>1
  <2>3. InOrder(c)'
    <3>1. ASSUME NEW i \in 1 .. Len(answers'[c]), NEW j \in 1 .. Len(answers'[c]), i < j
          PROVE  answers'[c][i].id < answers'[c][j].id
      <4>1. i \in 1 .. Len(s) /\ answers'[c][i] = s[i]
        BY <1>1, <2>1, <2>2, <3>1
      <4>2. CASE j \in 1 .. Len(s)
        BY <2>1, <3>1, <4>1, <4>2 DEF InOrder
      <4>3. CASE j = Len(s) + 1
        BY <1>1, <2>1, <4>1, <4>3
      <4> QED  BY <2>2, <4>2, <4>3
    <3> QED  BY <3>1 DEF InOrder
  <2>4. \A n \in Nat : a.id < n => \A k \in 1 .. Len(answers'[c]) : answers'[c][k].id < n
    BY <1>1, <1>2, <2>1, <2>2
  <2> QED  BY <2>3, <2>4
<1> QED  BY <1>3, <1>4, SendEffect

-----------------------------------------------------------------------------
LEMMA InitHolds == Init => IInv
<1> SUFFICES ASSUME Init PROVE IInv  OBVIOUS
<1>1. TypeInv
  BY DEF Init, TypeInv
<1>2. \A c \in Conn : Len(inbox[c]) = 0 /\ Len(answers[c]) = 0 /\ job[c] = NoJob
  BY DEF Init
<1> QED
  BY <1>1, <1>2 DEF IInv, Busy, Free, InOrder, AnsweredBefore, Waits, Queue

(* The client sends: its request is the newest of all.                     *)
LEMMA ClientSendStep ==
  ASSUME IInv, NEW c \in Conn, NEW r \in Sends[c], ClientSend(c, r)
  PROVE  IInv'
<1> DEFINE m == [id |-> sent[c] + 1, request |-> r]
           s == inbox[c]
<1>1. m \in Message /\ s \in Seq(Message) /\ sent[c] \in Nat /\ sent'[c] = sent[c] + 1
  <2>1. r \in Request
    BY ModbusServerAssumption
  <2>2. sent[c] \in Nat /\ s \in Seq(Message)
    BY Typed DEF IInv
  <2>3. sent'[c] = sent[c] + 1
    BY DEF ClientSend, IInv, TypeInv
  <2> QED  BY <2>1, <2>2, <2>3 DEF Message
<1>2. /\ inbox'[c] = Append(s, m) /\ Len(inbox'[c]) = Len(s) + 1 /\ Len(s) \in Nat
      /\ \A k \in 1 .. Len(s) : inbox'[c][k] = s[k]
      /\ inbox'[c][Len(s) + 1] = m
  BY <1>1, Appended DEF ClientSend, IInv, TypeInv
<1>3. TypeInv'
  BY <1>1, Appended DEF ClientSend, IInv, TypeInv
<1>4. \A k \in 1 .. Len(inbox'[c]) : k \in 1 .. Len(s) \/ k = Len(s) + 1
  BY <1>2
<1>5. \A k \in 1 .. Len(s) : s[k].id \in Nat /\ s[k].id <= sent[c]
  BY Typed DEF IInv, Free, Waits, Queue
<1>6. ASSUME NEW n \in Nat, n <= sent[c], Waits(c, n)
      PROVE  /\ \A k \in 1 .. Len(inbox'[c]) : n < inbox'[c][k].id /\ inbox'[c][k].id <= sent'[c]
             /\ \A k, l \in 1 .. Len(inbox'[c]) : k < l => inbox'[c][k].id < inbox'[c][l].id
  <2>1. \A k \in 1 .. Len(inbox'[c]) : n < inbox'[c][k].id /\ inbox'[c][k].id <= sent'[c]
    BY <1>1, <1>2, <1>4, <1>5, <1>6 DEF Waits, Queue
  <2>2. ASSUME NEW k \in 1 .. Len(inbox'[c]), NEW l \in 1 .. Len(inbox'[c]), k < l
        PROVE  inbox'[c][k].id < inbox'[c][l].id
    <3>1. k \in 1 .. Len(s) /\ inbox'[c][k] = s[k]
      BY <1>2, <1>4, <2>2
    <3>2. CASE l \in 1 .. Len(s)
      BY <1>2, <1>6, <2>2, <3>1, <3>2 DEF Waits, Queue
    <3>3. CASE l = Len(s) + 1
      BY <1>1, <1>2, <1>5, <3>1, <3>3
    <3> QED  BY <1>4, <3>2, <3>3
  <2> QED  BY <2>1, <2>2
<1>7. answers' = answers /\ job' = job
  BY DEF ClientSend
<1>8. Busy(c)' /\ Free(c)' /\ InOrder(c)'
  <2>1. \A k \in 1 .. Len(answers[c]) : answers[c][k].id \in Nat /\ answers[c][k].id <= sent[c]
    BY Typed DEF IInv, Free, AnsweredBefore
  <2>2. Waits(c, 0)'
    <3>1. 0 \in Nat /\ 0 <= sent[c] /\ Waits(c, 0)
      BY <1>1 DEF IInv, Free
    <3> QED  BY <1>6, <3>1 DEF Waits, Queue
  <2>3. Free(c)'
    <3>1. \A k \in 1 .. Len(answers'[c]) : answers'[c][k].id < sent'[c] + 1
      BY <1>1, <1>7, <2>1
    <3>2. ASSUME NEW k \in 1 .. Len(inbox'[c]), NEW l \in 1 .. Len(answers'[c])
          PROVE  answers'[c][l].id < inbox'[c][k].id
      <4>1. CASE k \in 1 .. Len(s)
        BY <1>2, <1>7, <4>1 DEF IInv, Free, AnsweredBefore
      <4>2. CASE k = Len(s) + 1
        BY <1>1, <1>2, <1>7, <2>1, <4>2
      <4> QED  BY <1>4, <4>1, <4>2
    <3> QED  BY <2>2, <3>1, <3>2 DEF Free, AnsweredBefore
  <2>4. Busy(c)'
    <3>1. CASE job[c] # NoJob
      <4>1. job[c].id \in Nat /\ job[c].id <= sent[c] /\ Waits(c, job[c].id)
        BY <3>1 DEF IInv, TypeInv, Busy, Job
      <4>2. Waits(c, job[c].id)'
        BY <1>6, <1>7, <4>1 DEF Waits, Queue
      <4> QED  BY <1>1, <1>7, <3>1, <4>1, <4>2 DEF IInv, Busy, AnsweredBefore
    <3> QED  BY <1>7, <3>1 DEF Busy
  <2> QED  BY <1>7, <2>3, <2>4 DEF IInv, InOrder
<1>9. \A d \in Conn : d # c => Busy(d)' /\ Free(d)' /\ InOrder(d)'
  BY Frame DEF ClientSend, IInv, TypeInv
<1> QED  BY <1>3, <1>8, <1>9 DEF IInv

(* What is left of the inbox after a Recv comes after what was taken.      *)
LEMMA Received ==
  ASSUME IInv, NEW c \in Conn, NEW n \in 1 .. Len(inbox[c]),
         inbox'[c] = SubSeq(inbox[c], n + 1, Len(inbox[c])), sent'[c] = sent[c]
  PROVE  /\ inbox'[c] \in Seq(Message)
         /\ Head(inbox[c]) = inbox[c][1] /\ 1 \in 1 .. Len(inbox[c])
         /\ Queue(inbox'[c], sent'[c], inbox[c][1].id) /\ Queue(inbox'[c], sent'[c], 0)
         /\ \A k \in 1 .. Len(inbox'[c]) : \E l \in 1 .. Len(inbox[c]) : inbox'[c][k] = inbox[c][l]
<1> DEFINE s == inbox[c]  t == inbox'[c]
<1>1. s \in Seq(Message) /\ Len(s) \in Nat /\ sent[c] \in Nat
      /\ \A k \in 1 .. Len(s) : s[k] \in Message /\ s[k].id \in Nat
  BY Typed DEF IInv
<1>2. 1 \in 1 .. Len(s) /\ Head(s) = s[1] /\ n \in Nat
  BY <1>1
<1>3. t \in Seq(Message) /\ Len(t) = Len(s) - n /\ \A k \in 1 .. Len(t) : t[k] = s[n + k]
  <2>1. \A k \in n + 1 .. Len(s) : s[k] \in Message
    BY <1>1
  <2>2. /\ t \in Seq(Message)
        /\ Len(t) = IF n + 1 <= Len(s) THEN Len(s) - (n + 1) + 1 ELSE 0
        /\ \A k \in 1 .. Len(s) - (n + 1) + 1 : t[k] = s[n + 1 + k - 1]
    BY <1>1, <1>2, <2>1, SubSeqProperties
  <2>3. Len(t) = Len(s) - n
    BY <1>1, <2>2
  <2>4. ASSUME NEW k \in 1 .. Len(t) PROVE t[k] = s[n + k]
    <3>1. k \in 1 .. Len(s) - (n + 1) + 1 /\ n + 1 + k - 1 = n + k
      BY <1>1, <2>3
    <3> QED  BY <2>2, <3>1
  <2> QED  BY <2>2, <2>3, <2>4
<1>4. \A k \in 1 .. Len(t) : n + k \in 1 .. Len(s) /\ 1 < n + k
  BY <1>1, <1>3
<1>5. \A k \in 1 .. Len(s) : 0 < s[k].id /\ s[k].id <= sent[c]
  BY DEF IInv, Free, Waits, Queue
<1>6. \A k, l \in 1 .. Len(s) : k < l => s[k].id < s[l].id
  BY DEF IInv, Free, Waits, Queue
<1>7. \A k \in 1 .. Len(t) : s[1].id < t[k].id /\ t[k].id <= sent'[c] /\ 0 < t[k].id
  BY <1>2, <1>3, <1>4, <1>5, <1>6
<1>8. ASSUME NEW k \in 1 .. Len(t), NEW l \in 1 .. Len(t), k < l
      PROVE  t[k].id < t[l].id
  <2>1. n + k \in 1 .. Len(s) /\ n + l \in 1 .. Len(s) /\ n + k < n + l
    BY <1>4, <1>8
  <2> QED  BY <1>3, <1>6, <2>1
<1>9. Queue(t, sent'[c], s[1].id) /\ Queue(t, sent'[c], 0)
  BY <1>7, <1>8 DEF Queue
<1> QED  BY <1>2, <1>3, <1>4, <1>9

(* A request refused by Check is answered at once, and any other becomes   *)
(* what the thread works on.                                               *)
LEMMA RecvStep ==
  ASSUME IInv, NEW c \in Conn, Recv(c)
  PROVE  IInv'
<1> DEFINE s == inbox[c]
           first == Head(s)
           j(w) == [id |-> first.id, request |-> first.request, i |-> 0, words |-> w]
           a == [id |-> first.id, request |-> first.request, kind |-> "error"]
<1>1. PICK n \in 1 .. Len(s) : inbox' = [inbox EXCEPT ![c] = SubSeq(s, n + 1, Len(s))]
  BY DEF Recv
<1>2. inbox'[c] = SubSeq(s, n + 1, Len(s)) /\ sent' = sent /\ job[c] = NoJob
  BY <1>1 DEF Recv, IInv, TypeInv
<1>3. /\ inbox'[c] \in Seq(Message)
      /\ first = s[1] /\ 1 \in 1 .. Len(s)
      /\ Queue(inbox'[c], sent'[c], first.id) /\ Queue(inbox'[c], sent'[c], 0)
      /\ \A k \in 1 .. Len(inbox'[c]) : \E l \in 1 .. Len(s) : inbox'[c][k] = s[l]
  BY <1>2, Received
<1>4. first \in Message /\ first.id \in Nat /\ first.id <= sent[c] /\ sent[c] \in Nat
      /\ AnsweredBefore(c, first.id)
  BY <1>3, Typed DEF IInv, Free, Waits, Queue
<1>5. a \in Answer /\ first.request \in Request
  BY <1>4 DEF Answer, Message
<1>6. inbox' \in [Conn -> Seq(Message)] /\ \A d \in Conn : d # c => inbox'[d] = inbox[d]
  BY <1>1, <1>2, <1>3 DEF IInv, TypeInv
<1>7. CASE Check(first.request)
  <2>0. PICK w \in Decoded(first.request) :
           answers' = answers /\ job' = [job EXCEPT ![c] = j(w)]
    BY <1>7 DEF Recv
  <2>1. answers' = answers /\ job' = [job EXCEPT ![c] = j(w)] /\ j(w) \in Job
    BY <1>4, <1>5, <2>0, DecodedWords DEF Job
  <2>2. TypeInv'
    BY <1>2, <1>6, <2>1 DEF IInv, TypeInv
  <2>3. job'[c] = j(w) /\ \A d \in Conn : d # c => job'[d] = job[d]
    BY <2>1 DEF IInv, TypeInv
  <2>4. Busy(c)'
    BY <1>2, <1>3, <1>4, <1>7, <2>0, <2>1, <2>3 DEF Busy, AnsweredBefore, Waits
  <2>5. Free(c)'
    BY <1>2, <1>3, <2>1 DEF IInv, Free, AnsweredBefore, Waits
  <2>6. \A d \in Conn : d # c => Busy(d)' /\ Free(d)' /\ InOrder(d)'
    BY <1>2, <1>6, <2>1, <2>3, Frame DEF IInv
  <2> QED  BY <2>1, <2>2, <2>4, <2>5, <2>6 DEF IInv, InOrder
<1>8. CASE ~Check(first.request)
  <2>1. Send(c, a) /\ job' = job
    BY <1>8 DEF Recv, PackErrorMessage
  <2>2. TypeInv'
    BY <1>2, <1>5, <1>6, <2>1, SendEffect DEF IInv, TypeInv
  <2>3. /\ InOrder(c)'
        /\ \A m \in Nat : first.id < m =>
              \A k \in 1 .. Len(answers'[c]) : answers'[c][k].id < m
    BY <1>4, <1>5, <2>1, SendInOrder DEF IInv
  <2>4. \A k \in 1 .. Len(inbox'[c]) : inbox'[c][k].id \in Nat /\ first.id < inbox'[c][k].id
    <3>1. \A k \in 1 .. Len(s) : s[k].id \in Nat
      BY Typed DEF IInv
    <3> QED  BY <1>3, <3>1 DEF Queue
  <2>5. Free(c)'
    <3>1. first.id < sent'[c] + 1 /\ sent'[c] + 1 \in Nat
      BY <1>2, <1>4
    <3> QED  BY <1>3, <2>3, <2>4, <3>1 DEF Free, AnsweredBefore, Waits
  <2>6. \A d \in Conn : d # c => Busy(d)' /\ Free(d)' /\ InOrder(d)'
    BY <1>2, <1>5, <1>6, <2>1, SendEffect, Frame DEF IInv
  <2> QED  BY <1>2, <2>1, <2>2, <2>3, <2>5, <2>6 DEF IInv, Busy
<1> QED  BY <1>7, <1>8

(* A request that is done is answered, and its thread receives again.      *)
LEMMA FinishStep ==
  ASSUME IInv, NEW c \in Conn, job[c] # NoJob, NEW k \in {"done", "error"},
         Send(c, [id |-> job[c].id, request |-> job[c].request, kind |-> k]),
         job' = [job EXCEPT ![c] = NoJob], sent' = sent, inbox' = inbox
  PROVE  IInv'
<1> DEFINE a == [id |-> job[c].id, request |-> job[c].request, kind |-> k]
<1>1. job[c].id \in Nat /\ sent[c] \in Nat /\ a \in Answer
  BY Typed DEF IInv, Answer
<1>2. /\ job[c].id <= sent[c] /\ AnsweredBefore(c, a.id) /\ Waits(c, job[c].id)
      /\ Waits(c, 0) /\ InOrder(c)
  BY DEF IInv, Busy, Free
<1>3. /\ InOrder(c)'
      /\ \A m \in Nat : job[c].id < m =>
            \A l \in 1 .. Len(answers'[c]) : answers'[c][l].id < m
  BY <1>1, <1>2, SendInOrder DEF IInv
<1>4. TypeInv'
  BY <1>1, SendEffect DEF IInv, TypeInv
<1>5. job'[c] = NoJob /\ \A d \in Conn : d # c => job'[d] = job[d]
  BY DEF IInv, TypeInv
<1>6. Free(c)'
  <2>1. \A l \in 1 .. Len(inbox[c]) : inbox[c][l].id \in Nat /\ job[c].id < inbox[c][l].id
    BY <1>2, Typed DEF IInv, Waits, Queue
  <2>2. job[c].id < sent[c] + 1 /\ sent[c] + 1 \in Nat
    BY <1>1, <1>2
  <2> QED  BY <1>2, <1>3, <2>1, <2>2 DEF Free, AnsweredBefore, Waits
<1>7. \A d \in Conn : d # c => Busy(d)' /\ Free(d)' /\ InOrder(d)'
  BY <1>1, <1>5, SendEffect, Frame DEF IInv
<1> QED  BY <1>3, <1>4, <1>5, <1>6, <1>7 DEF IInv, Busy

(* A register that the bank does not have is met by order 5 or 6 only, and *)
(* the error answer ends the request.                                      *)
LEMMA FailStep ==
  ASSUME IInv, NEW c \in Conn, Fail(c)
  PROVE  IInv'
<1> DEFINE j == job[c]
<1>1. j # NoJob /\ j \in Job /\ Check(j.request) /\ Refused(j) /\ More(j)
  BY Typed DEF IInv, Busy, Fail, Working
<1>2. j.request \in Request /\ j.i \in Nat
  BY <1>1 DEF Job
<1>3. j.request.order = "single"
  BY <1>1, <1>2, CheckedIsInBank DEF More, Refused, Length, Register
<1>4. job' = [job EXCEPT ![c] = NoJob]
  BY <1>3 DEF Fail, AfterFail
<1> QED  BY <1>1, <1>4, FinishStep DEF Fail, PackErrorMessage

LEMMA PackModbusStep ==
  ASSUME IInv, NEW c \in Conn, PackModbus(c)
  PROVE  IInv'
BY FinishStep DEF PackModbus, Working

(* Reading or writing a register leaves the request as it is.              *)
LEMMA AdvanceStep ==
  ASSUME IInv, NEW c \in Conn, job[c] # NoJob, job' = [job EXCEPT ![c] = Advance(@)],
         sent' = sent, inbox' = inbox, answers' = answers
  PROVE  IInv'
<1>1. job[c] \in Job
  BY Typed DEF IInv
<1>2. /\ job'[c] \in Job /\ job'[c].id = job[c].id
      /\ job'[c].request = job[c].request /\ job'[c].words = job[c].words
  <2>1. job'[c] = Advance(job[c])
    BY DEF IInv, TypeInv
  <2>2. \A j \in Job : /\ Advance(j) \in Job /\ Advance(j).id = j.id
                       /\ Advance(j).request = j.request /\ Advance(j).words = j.words
    BY DEF Advance, Job
  <2> QED  BY <1>1, <2>1, <2>2
<1>3. TypeInv'
  BY <1>1, <1>2 DEF IInv, TypeInv
<1>4. Busy(c)' /\ Free(c)' /\ InOrder(c)'
  BY <1>2 DEF IInv, Busy, Free, InOrder, AnsweredBefore, Waits
<1>5. \A d \in Conn : d # c => Busy(d)' /\ Free(d)' /\ InOrder(d)'
  BY Frame DEF IInv, TypeInv
<1> QED  BY <1>3, <1>4, <1>5 DEF IInv

(* All other steps leave the requests and the answers alone.               *)
LEMMA StutterStep ==
  ASSUME IInv, sent' = sent, inbox' = inbox, job' = job, answers' = answers
  PROVE  IInv'
BY Frame DEF IInv, TypeInv

LEMMA NextKeeps == IInv /\ [Next]_vars => IInv'
<1> SUFFICES ASSUME IInv, [Next]_vars PROVE IInv'  OBVIOUS
<1>1. CASE UNCHANGED vars
  BY <1>1, StutterStep DEF vars
<1>2. CASE \E c \in Conn : Accept(c) \/ Overrun(c) \/ End(c) \/ ClientClose(c) \/ ReadType(c)
  BY <1>2, StutterStep DEF Accept, Overrun, End, ClientClose, ReadType
<1>3. CASE Device
  BY <1>3, StutterStep DEF Device
<1>4. CASE \E c \in Conn : Read(c) \/ Write(c)
  BY <1>4, AdvanceStep DEF Read, Write, Working
<1>5. CASE \E c \in Conn : \E r \in Sends[c] : ClientSend(c, r)
  BY <1>5, ClientSendStep
<1>6. CASE \E c \in Conn : Recv(c) \/ Fail(c) \/ PackModbus(c)
  BY <1>6, RecvStep, FailStep, PackModbusStep
<1> QED  BY <1>1, <1>2, <1>3, <1>4, <1>5, <1>6 DEF Next, Service

(* A client gets no more than one answer to a request, and the answers in  *)
(* the order of its requests, whatever the requests, however many of them  *)
(* arrive together and whatever the other connections and devices do.      *)
THEOREM AnsweredOnce == Spec => []OneAnswer
<1>1. IInv => OneAnswer
  BY DEF IInv, InOrder, OneAnswer
<1> QED  BY InitHolds, NextKeeps, <1>1, PTL DEF Spec

-----------------------------------------------------------------------------
(* What the log of commands has to do with requests and answers: a command *)
(* belongs to a request that is answered or worked on; of the request that *)
(* is worked on, the registers before the current one were commanded.      *)
Begun(l, c, id) == \E n \in 1 .. Len(l) : l[n].conn = c /\ l[n].id = id

Own(r, k) == k \in 1 .. Length(r) /\ k <= Len(r.words)

Has(l, c, a, k) ==
    \E n \in 1 .. Len(l) : /\ l[n].conn = c /\ l[n].id = a.id
                           /\ l[n].addr = a.request.start + k - 1
                           /\ Own(a.request, k) => l[n].word = a.request.words[k]

TrueAnswer(l, c, a) ==
    a.request.order \in Writes =>
        IF a.kind = "done"
        THEN \A k \in 1 .. Length(a.request) : Has(l, c, a, k)
        ELSE ~Begun(l, c, a.id)

AllTrue(l, c, s) == \A i \in 1 .. Len(s) : TrueAnswer(l, c, s[i])

(* No command of c belongs to a request that was not sent or still waits.  *)
NoneAhead(l, c, q, last) ==
    \A n \in 1 .. Len(l) : l[n].conn = c =>
        /\ l[n].id \in Nat /\ l[n].id <= last
        /\ \A k \in 1 .. Len(q) : l[n].id < q[k].id

Progress(l, c, j) ==
    j # NoJob =>
        /\ j.i = 0 => ~Begun(l, c, j.id)
        /\ j.request.order \in Writes => \A k \in 1 .. j.i : Has(l, c, j, k)

Logged(c) ==
    /\ NoneAhead(log, c, inbox[c], sent[c])
    /\ Progress(log, c, job[c])
    /\ AllTrue(log, c, answers[c])

LogInv == (\E S : log \in Seq(S)) /\ \A c \in Conn : Logged(c)

-----------------------------------------------------------------------------
(* A command more keeps what the others stand for: it takes nothing away,  *)
(* and only its own connection and request have begun by it.               *)
LEMMA LogGrows ==
  ASSUME NEW S, NEW l \in Seq(S), NEW e
  PROVE  /\ \E T : Append(l, e) \in Seq(T)
         /\ Len(l) \in Nat /\ Len(Append(l, e)) = Len(l) + 1
         /\ \A k \in 1 .. Len(l) : Append(l, e)[k] = l[k]
         /\ Append(l, e)[Len(l) + 1] = e
         /\ \A c, a, k : Has(l, c, a, k) => Has(Append(l, e), c, a, k)
         /\ \A c, id : Begun(Append(l, e), c, id) =>
               Begun(l, c, id) \/ (e.conn = c /\ e.id = id)
<1> DEFINE T == S \cup {e}
           m == Append(l, e)
<1>1. l \in Seq(T) /\ e \in T
  <2>1. Len(l) \in Nat /\ l = [k \in 1 .. Len(l) |-> l[k]] /\ \A k \in 1 .. Len(l) : l[k] \in T
    BY ElementOfSeq, LenProperties
  <2> QED  BY <2>1, IsASeq
<1>2. /\ m \in Seq(T) /\ Len(l) \in Nat /\ Len(m) = Len(l) + 1
      /\ \A k \in 1 .. Len(l) : m[k] = l[k]
      /\ m[Len(l) + 1] = e
  BY <1>1, Appended
<1>3. \A n \in 1 .. Len(l) : n \in 1 .. Len(m)
  BY <1>2
<1>4. \A n \in 1 .. Len(m) : n \in 1 .. Len(l) \/ n = Len(l) + 1
  BY <1>2
<1>5. \A c, a, k : Has(l, c, a, k) => Has(m, c, a, k)
  BY <1>2, <1>3 DEF Has
<1>6. \A c, id : Begun(m, c, id) => Begun(l, c, id) \/ (e.conn = c /\ e.id = id)
  BY <1>2, <1>4 DEF Begun
<1> QED  BY <1>2, <1>5, <1>6

(* A connection of which a step changes nothing, and no command either.    *)
LEMMA LogFrame ==
  ASSUME NEW d, Logged(d), sent'[d] = sent[d], inbox'[d] = inbox[d],
         job'[d] = job[d], answers'[d] = answers[d], log' = log
  PROVE  Logged(d)'
BY DEF Logged

(* Send keeps the answers true if the one it may add is.                   *)
LEMMA SendTrue ==
  ASSUME TypeInv, NEW c \in Conn, NEW a \in Answer, Send(c, a), NEW l,
         AllTrue(l, c, answers[c]), TrueAnswer(l, c, a)
  PROVE  AllTrue(l, c, answers'[c])
<1> DEFINE s == answers[c]
<1>1. s \in Seq(Answer) /\ Len(s) \in Nat
  BY Typed
<1>2. CASE answers'[c] = s
  BY <1>2
<1>3. CASE answers'[c] = Append(s, a)
  <2> DEFINE t == Append(s, a)
  <2>1. /\ Len(t) = Len(s) + 1
        /\ \A k \in 1 .. Len(s) : t[k] = s[k]
        /\ t[Len(s) + 1] = a
    BY <1>1, Appended
  <2>2. \A k \in 1 .. Len(t) : k \in 1 .. Len(s) \/ k = Len(s) + 1
    BY <1>1, <2>1
  <2>3. AllTrue(l, c, t)
    BY <2>1, <2>2 DEF AllTrue
  <2> QED  BY <1>3, <2>3
<1> QED  BY <1>2, <1>3, SendEffect

-----------------------------------------------------------------------------
LEMMA LogInit == Init => LogInv
<1> SUFFICES ASSUME Init PROVE LogInv  OBVIOUS
<1>1. log \in Seq({})
  BY EmptySeq DEF Init
<1>2. Len(log) = 0 /\ \A c \in Conn : Len(answers[c]) = 0 /\ job[c] = NoJob
  BY DEF Init
<1> QED
  BY <1>1, <1>2 DEF LogInv, Logged, NoneAhead, Progress, AllTrue

LEMMA LogClientSend ==
  ASSUME IInv, LogInv, NEW c \in Conn, NEW r \in Sends[c], ClientSend(c, r)
  PROVE  LogInv'
<1> DEFINE m == [id |-> sent[c] + 1, request |-> r]
           s == inbox[c]
<1>1. m \in Message /\ s \in Seq(Message) /\ sent[c] \in Nat
  <2>1. r \in Request
    BY ModbusServerAssumption
  <2>2. sent[c] \in Nat /\ s \in Seq(Message)
    BY Typed DEF IInv
  <2> QED  BY <2>1, <2>2 DEF Message
<1>2. /\ sent'[c] = sent[c] + 1 /\ inbox'[c] = Append(s, m)
      /\ \A d \in Conn : d # c => sent'[d] = sent[d] /\ inbox'[d] = inbox[d]
      /\ job' = job /\ answers' = answers /\ log' = log
  BY DEF ClientSend, IInv, TypeInv
<1>3. /\ Len(Append(s, m)) = Len(s) + 1 /\ Len(s) \in Nat
      /\ \A k \in 1 .. Len(s) : Append(s, m)[k] = s[k]
      /\ Append(s, m)[Len(s) + 1] = m
  BY <1>1, Appended
<1>4. \A k \in 1 .. Len(Append(s, m)) : k \in 1 .. Len(s) \/ k = Len(s) + 1
  BY <1>3
<1>5. NoneAhead(log, c, s, sent[c])
  BY DEF LogInv, Logged
<1>6. NoneAhead(log, c, Append(s, m), sent[c] + 1)
  <2>1. ASSUME NEW n \in 1 .. Len(log), log[n].conn = c
        PROVE  /\ log[n].id \in Nat /\ log[n].id <= sent[c] + 1
               /\ \A k \in 1 .. Len(Append(s, m)) : log[n].id < Append(s, m)[k].id
    <3>1. log[n].id \in Nat /\ log[n].id <= sent[c] /\ log[n].id < sent[c] + 1
      BY <1>1, <1>5, <2>1 DEF NoneAhead
    <3>2. \A k \in 1 .. Len(s) : log[n].id < s[k].id
      BY <1>5, <2>1 DEF NoneAhead
    <3> QED  BY <1>1, <1>3, <1>4, <3>1, <3>2
  <2> QED  BY <2>1 DEF NoneAhead
<1>7. Logged(c)'
  BY <1>2, <1>6 DEF LogInv, Logged
<1>8. \A d \in Conn : d # c => Logged(d)'
  BY <1>2, LogFrame DEF LogInv
<1> QED  BY <1>2, <1>7, <1>8 DEF LogInv

LEMMA LogRecv ==
  ASSUME IInv, LogInv, NEW c \in Conn, Recv(c)
  PROVE  LogInv'
<1> DEFINE s == inbox[c]
           first == Head(s)
           j(w) == [id |-> first.id, request |-> first.request, i |-> 0, words |-> w]
           a == [id |-> first.id, request |-> first.request, kind |-> "error"]
<1>1. PICK n \in 1 .. Len(s) : inbox' = [inbox EXCEPT ![c] = SubSeq(s, n + 1, Len(s))]
  BY DEF Recv
<1>2. inbox'[c] = SubSeq(s, n + 1, Len(s)) /\ sent' = sent /\ log' = log
      /\ \A d \in Conn : d # c => inbox'[d] = inbox[d]
  BY <1>1 DEF Recv, IInv, TypeInv
<1>3. /\ first = s[1] /\ 1 \in 1 .. Len(s)
      /\ \A k \in 1 .. Len(inbox'[c]) : \E l \in 1 .. Len(s) : inbox'[c][k] = s[l]
  BY <1>2, Received
<1>4. first \in Message /\ a \in Answer
  <2>1. first \in Message
    BY <1>3, Typed DEF IInv
  <2> QED  BY <2>1 DEF Answer, Message
<1>5. NoneAhead(log, c, s, sent[c]) /\ Progress(log, c, job[c]) /\ AllTrue(log, c, answers[c])
  BY DEF LogInv, Logged
<1>6. NoneAhead(log, c, inbox'[c], sent[c])
  BY <1>3, <1>5 DEF NoneAhead
<1>7. ~Begun(log, c, first.id)
  <2>1. \A n1 \in 1 .. Len(log) : log[n1].conn = c => log[n1].id \in Nat /\ log[n1].id < first.id
    BY <1>3, <1>5 DEF NoneAhead
  <2> QED  BY <1>4, <2>1 DEF Begun, Message
<1>8. CASE Check(first.request)
  <2>1. PICK w \in Decoded(first.request) :
           answers' = answers /\ job' = [job EXCEPT ![c] = j(w)]
    BY <1>8 DEF Recv
  <2>2. job'[c] = j(w) /\ \A d \in Conn : d # c => job'[d] = job[d]
    BY <2>1 DEF IInv, TypeInv
  <2>3. Progress(log, c, j(w))
    BY <1>7 DEF Progress
  <2>4. Logged(c)'
    BY <1>2, <1>5, <1>6, <2>1, <2>2, <2>3 DEF Logged
  <2>5. \A d \in Conn : d # c => Logged(d)'
    BY <1>2, <2>1, <2>2, LogFrame DEF LogInv
  <2> QED  BY <1>2, <2>4, <2>5 DEF LogInv
<1>9. CASE ~Check(first.request)
  <2>1. Send(c, a) /\ job' = job
    BY <1>9 DEF Recv, PackErrorMessage
  <2>2. TrueAnswer(log, c, a)
    BY <1>7 DEF TrueAnswer
  <2>3. AllTrue(log, c, answers'[c])
    BY <1>4, <1>5, <2>1, <2>2, SendTrue DEF IInv
  <2>4. Logged(c)'
    BY <1>2, <1>5, <1>6, <2>1, <2>3 DEF Logged
  <2>5. \A d \in Conn : d # c => Logged(d)'
    BY <1>2, <1>4, <2>1, SendEffect, LogFrame DEF LogInv, IInv
  <2> QED  BY <1>2, <2>4, <2>5 DEF LogInv
<1> QED  BY <1>8, <1>9

(* A request ends with an answer that is true of it.                       *)
LEMMA LogFinish ==
  ASSUME IInv, LogInv, NEW c \in Conn, job[c] # NoJob, NEW k \in {"done", "error"},
         TrueAnswer(log, c, [id |-> job[c].id, request |-> job[c].request, kind |-> k]),
         Send(c, [id |-> job[c].id, request |-> job[c].request, kind |-> k]),
         job' = [job EXCEPT ![c] = NoJob], sent' = sent, inbox' = inbox, log' = log
  PROVE  LogInv'
<1> DEFINE a == [id |-> job[c].id, request |-> job[c].request, kind |-> k]
<1>1. a \in Answer
  BY Typed DEF IInv, Answer
<1>2. AllTrue(log, c, answers'[c])
  BY <1>1, SendTrue DEF LogInv, Logged, IInv
<1>3. job'[c] = NoJob /\ \A d \in Conn : d # c => job'[d] = job[d]
  BY DEF IInv, TypeInv
<1>4. Logged(c)'
  BY <1>2, <1>3 DEF LogInv, Logged, Progress
<1>5. \A d \in Conn : d # c => Logged(d)'
  BY <1>1, <1>3, SendEffect, LogFrame DEF LogInv, IInv
<1> QED  BY <1>4, <1>5 DEF LogInv

(* The error answer of order 5 or 6: nothing was stored.                   *)
LEMMA LogFail ==
  ASSUME IInv, LogInv, NEW c \in Conn, Fail(c)
  PROVE  LogInv'
<1> DEFINE j == job[c]
           a == [id |-> j.id, request |-> j.request, kind |-> "error"]
<1>1. j # NoJob /\ j \in Job /\ Check(j.request) /\ Refused(j) /\ More(j)
  BY Typed DEF IInv, Busy, Fail, Working
<1>2. j.request \in Request /\ j.i \in Nat
  BY <1>1 DEF Job
<1>3. j.request.order = "single"
  BY <1>1, <1>2, CheckedIsInBank DEF More, Refused, Length, Register
<1>4. job' = [job EXCEPT ![c] = NoJob]
  BY <1>3 DEF Fail, AfterFail
<1>5. j.i = 0
  BY <1>1, <1>2, <1>3 DEF More, Length
<1>6. ~Begun(log, c, j.id)
  BY <1>1, <1>5 DEF LogInv, Logged, Progress
<1>7. TrueAnswer(log, c, a)
  BY <1>6 DEF TrueAnswer
<1> QED  BY <1>1, <1>4, <1>7, LogFinish DEF Fail, PackErrorMessage

(* The normal answer: the loop has stored every register.                  *)
LEMMA LogPackModbus ==
  ASSUME IInv, LogInv, NEW c \in Conn, PackModbus(c)
  PROVE  LogInv'
<1> DEFINE j == job[c]
           a == [id |-> j.id, request |-> j.request, kind |-> "done"]
<1>1. j # NoJob /\ j \in Job /\ ~More(j)
  BY Typed DEF IInv, PackModbus, Working
<1>2. j.i \in Nat /\ j.request \in Request
  BY <1>1 DEF Job
<1>3. \A k \in 1 .. Length(j.request) : k \in 1 .. j.i
  BY <1>1, <1>2 DEF More, Length, Request
<1>4. j.request.order \in Writes => \A k \in 1 .. Length(j.request) : Has(log, c, j, k)
  BY <1>1, <1>3 DEF LogInv, Logged, Progress
<1>5. \A k : Has(log, c, j, k) => Has(log, c, a, k)
  BY DEF Has
<1>6. TrueAnswer(log, c, a)
  BY <1>4, <1>5 DEF TrueAnswer
<1> QED  BY <1>1, <1>6, LogFinish DEF PackModbus

LEMMA LogRead ==
  ASSUME IInv, LogInv, NEW c \in Conn, Read(c)
  PROVE  LogInv'
<1>1. job[c] # NoJob /\ job[c] \in Job /\ job[c].request.order \notin Writes
  BY Typed DEF Read, Working, Writes, IInv
<1>2. job'[c] = Advance(job[c]) /\ \A d \in Conn : d # c => job'[d] = job[d]
  BY DEF Read, IInv, TypeInv
<1>3. sent' = sent /\ inbox' = inbox /\ answers' = answers /\ log' = log
  BY DEF Read
<1>4. \A j \in Job : /\ Advance(j).request = j.request /\ Advance(j).id = j.id
                     /\ Advance(j).i = j.i + 1 /\ j.i \in Nat
  BY DEF Advance, Job
<1>5. Progress(log, c, Advance(job[c]))
  BY <1>1, <1>4 DEF Progress
<1>6. Logged(c)'
  BY <1>2, <1>3, <1>5 DEF LogInv, Logged
<1>7. \A d \in Conn : d # c => Logged(d)'
  BY <1>2, <1>3, LogFrame DEF LogInv
<1> QED  BY <1>3, <1>6, <1>7 DEF LogInv

(* One register more is commanded: none of the requests already answered   *)
(* and none of those that wait is the one it belongs to.                   *)
LEMMA LogWrite ==
  ASSUME IInv, LogInv, NEW c \in Conn, Write(c)
  PROVE  LogInv'
<1> DEFINE j == job[c]
           w == j.words[j.i + 1]
           e == [conn |-> c, id |-> j.id, addr |-> Register(j), order |-> j.request.order,
                 word |-> w, value |-> ValueOf(j.request.order, w)]
           m == Append(log, e)
<1>1. j # NoJob /\ j \in Job
  BY Typed DEF Write, Working, IInv
<1>2. j.id \in Nat /\ j.i \in Nat /\ j.request \in Request /\ j.request.start \in Nat
  BY <1>1 DEF Job, Request
<1>3. log' = m /\ sent' = sent /\ inbox' = inbox /\ answers' = answers
  BY DEF Write
<1>4. job'[c] = Advance(j) /\ \A d \in Conn : d # c => job'[d] = job[d]
  BY DEF Write, IInv, TypeInv
<1>5. PICK S : log \in Seq(S)
  BY DEF LogInv
<1>6. /\ \E T : m \in Seq(T)
      /\ Len(log) \in Nat /\ Len(m) = Len(log) + 1
      /\ \A k \in 1 .. Len(log) : m[k] = log[k]
      /\ m[Len(log) + 1] = e
      /\ \A d, a, k : Has(log, d, a, k) => Has(m, d, a, k)
      /\ \A d, id : Begun(m, d, id) => Begun(log, d, id) \/ (e.conn = d /\ e.id = id)
  BY <1>5, LogGrows
<1>7. \A n \in 1 .. Len(m) : n \in 1 .. Len(log) \/ n = Len(log) + 1
  BY <1>6
<1>8. \A d \in Conn : NoneAhead(m, d, inbox[d], sent[d])
  <2>1. \A k \in 1 .. Len(inbox[c]) : j.id < inbox[c][k].id
    BY <1>1 DEF IInv, Busy, Waits, Queue
  <2>2. j.id <= sent[c]
    BY <1>1 DEF IInv, Busy
  <2>3. e.conn = c /\ e.id = j.id
    OBVIOUS
  <2>4. \A d \in Conn : NoneAhead(log, d, inbox[d], sent[d])
    BY DEF LogInv, Logged
  <2> HIDE DEF m, e
  <2> QED  BY <1>2, <1>6, <1>7, <2>1, <2>2, <2>3, <2>4 DEF NoneAhead
<1>9. \A d \in Conn : AllTrue(m, d, answers[d])
  <2>1. ASSUME NEW d \in Conn, NEW n \in 1 .. Len(answers[d])
        PROVE  TrueAnswer(m, d, answers[d][n])
    <3> DEFINE b == answers[d][n]
    <3>1. TrueAnswer(log, d, b)
      BY DEF LogInv, Logged, AllTrue
    <3>2. e.conn = d => b.id < e.id /\ b.id \in Nat /\ e.id \in Nat
      BY <1>1, <1>2, Typed DEF IInv, Busy, AnsweredBefore
    <3>3. ~(e.conn = d /\ e.id = b.id)
      BY <3>2
    <3>4. Begun(m, d, b.id) => Begun(log, d, b.id)
      BY <1>6, <3>3
    <3>5. \A k : Has(log, d, b, k) => Has(m, d, b, k)
      BY <1>6
    <3>6. TrueAnswer(m, d, b)
      <4> HIDE DEF m, e, b
      <4> QED  BY <3>1, <3>4, <3>5 DEF TrueAnswer
    <3> QED  BY <3>6
  <2> QED  BY <2>1 DEF AllTrue
<1>10. Progress(m, c, Advance(j))
  <2>1. /\ Advance(j).request = j.request /\ Advance(j).id = j.id /\ Advance(j).i = j.i + 1
    BY <1>1 DEF Advance, Job
  <2>2. j.request.order \in Writes
    BY DEF Write, Working
  <2>3. \A k \in 1 .. j.i : Has(m, c, j, k)
    BY <1>1, <1>6, <2>2 DEF LogInv, Logged, Progress
  <2>4. Has(m, c, j, j.i + 1)
    <3>1. e.conn = c /\ e.id = j.id /\ e.addr = j.request.start + (j.i + 1) - 1
          /\ e.word = w
      BY <1>2 DEF Register
    <3>3. Own(j.request, j.i + 1) => w = j.request.words[j.i + 1]
      <4>1. j.words \in Decoded(j.request)
        BY <1>1 DEF IInv, Busy
      <4> QED  BY <1>2, <2>2, <4>1, DecodedWords DEF Own
    <3>2. Len(log) + 1 \in 1 .. Len(m)
      BY <1>6
    <3> HIDE DEF m, e
    <3> QED  BY <1>6, <3>1, <3>2, <3>3 DEF Has
  <2>5. \A k \in 1 .. j.i + 1 : k \in 1 .. j.i \/ k = j.i + 1
    BY <1>2
  <2>6. \A k : Has(m, c, j, k) => Has(m, c, Advance(j), k)
    BY <2>1 DEF Has
  <2>7. \A k \in 1 .. Advance(j).i : Has(m, c, Advance(j), k)
    BY <2>1, <2>3, <2>4, <2>5, <2>6
  <2>8. Advance(j).i # 0
    BY <1>2, <2>1
  <2> QED  BY <2>7, <2>8 DEF Progress
<1>11. \A d \in Conn : d # c => Progress(m, d, job[d])
  <2>1. ASSUME NEW d \in Conn, d # c PROVE Progress(m, d, job[d])
    <3>1. Progress(log, d, job[d])
      BY DEF LogInv, Logged
    <3>2. e.conn # d
      BY <2>1
    <3> HIDE DEF m, e
    <3> QED  BY <1>6, <3>1, <3>2 DEF Progress
  <2> QED  BY <2>1
<1>12. \A d \in Conn : Logged(d)'
  <2> HIDE DEF m, j
  <2> QED  BY <1>3, <1>4, <1>8, <1>9, <1>10, <1>11 DEF Logged
<1> QED  BY <1>3, <1>6, <1>12 DEF LogInv

(* All other steps leave requests, answers and commands alone.             *)
LEMMA LogStutter ==
  ASSUME LogInv, sent' = sent, inbox' = inbox, job' = job, answers' = answers, log' = log
  PROVE  LogInv'
BY LogFrame DEF LogInv

LEMMA NextKeepsLog == IInv /\ LogInv /\ [Next]_vars => LogInv'
<1> SUFFICES ASSUME IInv, LogInv, [Next]_vars PROVE LogInv'  OBVIOUS
<1>1. CASE UNCHANGED vars
  BY <1>1, LogStutter DEF vars
<1>2. CASE \E c \in Conn : Accept(c) \/ Overrun(c) \/ End(c) \/ ClientClose(c) \/ ReadType(c)
  BY <1>2, LogStutter DEF Accept, Overrun, End, ClientClose, ReadType
<1>3. CASE Device
  BY <1>3, LogStutter DEF Device
<1>4. CASE \E c \in Conn : Read(c) \/ Write(c)
  BY <1>4, LogRead, LogWrite
<1>5. CASE \E c \in Conn : \E r \in Sends[c] : ClientSend(c, r)
  BY <1>5, LogClientSend
<1>6. CASE \E c \in Conn : Recv(c) \/ Fail(c) \/ PackModbus(c)
  BY <1>6, LogRecv, LogFail, LogPackModbus
<1> QED  BY <1>1, <1>2, <1>3, <1>4, <1>5, <1>6 DEF Next, Service

(* The normal answer to a write means that every register of the request   *)
(* was commanded, with its own word if the request has one for it, the     *)
(* error answer that none was: for any number of connections that write at *)
(* the same time, of requests and of registers in a request.               *)
THEOREM AnswersAreTrue == Spec => []AnswerIsTrue
<1>1. LogInv => AnswerIsTrue
  <2> SUFFICES ASSUME LogInv, NEW c \in Conn, NEW i \in 1 .. Len(answers[c])
               PROVE  LET a == answers[c][i]
                      IN a.request.order \in Writes =>
                            IF a.kind = "done"
                            THEN \A k \in 1 .. Length(a.request) : Commanded(c, a, k)
                            ELSE \A n \in 1 .. Len(log) : ~(log[n].conn = c /\ log[n].id = a.id)
    BY DEF AnswerIsTrue
  <2> DEFINE a == answers[c][i]
  <2>1. TrueAnswer(log, c, a)
    BY DEF LogInv, Logged, AllTrue
  <2>2. ASSUME NEW k \in 1 .. Length(a.request), Has(log, c, a, k) PROVE Commanded(c, a, k)
    BY <2>2 DEF Has, Own, Commanded
  <2> QED  BY <2>1, <2>2 DEF TrueAnswer, Begun
<1> QED  BY InitHolds, NextKeeps, LogInit, NextKeepsLog, <1>1, PTL DEF Spec

-----------------------------------------------------------------------------
(* What the bank holds: every command that is in a register or was shown   *)
(* is one of the log, and the log keeps the word it was given as.          *)
Command == [conn : Conn, id : Nat, addr : Int, order : Writes, word : Word, value : Int]

CommandsKnown ==
    /\ log \in Seq(Command) /\ Len(log) = issued
    /\ \A n \in 1 .. Len(log) : log[n].value = ValueOf(log[n].order, log[n].word)

CellsKnown == \A a \in Addr : cell[a].value <= issued

(* One entry of shown, read back: the command is shown as it was given.    *)
Faithful(v, l) ==
    (v.order = "registers" /\ v.command # Bank!Measured
        /\ (v.type = "INT" \/ l[v.command].order = "single"))
    => v.word = l[v.command].word

ShownKnown ==
    \A v \in shown : v.command \in 0 .. issued /\ v.word \in Word /\ Faithful(v, log)

(* A thread between the two critical sections of a store is at a register  *)
(* of a write, one that the bank has.                                      *)
Storing(c) ==
    request[c] # Bank!Idle =>
        /\ job[c] # NoJob /\ More(job[c]) /\ ~Refused(job[c])
        /\ job[c].request.order \in Writes

Progressing(c) ==
    /\ sent[c] <= MaxRequest[c]
    /\ job[c] # NoJob => job[c].i <= Length(job[c].request)

StateTyped ==
    /\ conn \in [Conn -> {"new", "up", "orphan", "closed", "reset", "ended"}]
    /\ killed \in BOOLEAN

(* Requests are those that the clients may send.                           *)
RequestsOK ==
    /\ \A c \in Conn : \A k \in 1 .. Len(inbox[c]) : inbox[c][k].request \in Sends[c]
    /\ \A c \in Conn : job[c] # NoJob => job[c].request \in Sends[c]

BankInv ==
    /\ Bank!TypeOK /\ CellsKnown /\ CommandsKnown /\ ShownKnown
    /\ StateTyped /\ RequestsOK
    /\ \A c \in Conn : Storing(c) /\ Progressing(c)

-----------------------------------------------------------------------------
(* A word is what is left of it, taken as a short or not, modulo 2^16.     *)
LEMMA WordOfValue ==
  ASSUME NEW w \in Word, NEW order \in Writes
  PROVE  /\ ValueOf(order, w) \in Int /\ ValueOf(order, w) % WordSize = w
         /\ ValueOf(order, w) \in IF order = "single" THEN Short ELSE Word
<1>1. w % WordSize = w /\ (w - WordSize) % WordSize = w
  BY ModbusServerAssumption DEF Word
<1>2. Signed(w) \in Short /\ Signed(w) \in Int /\ Signed(w) % WordSize = w
  BY <1>1, ModbusServerAssumption DEF Word, Short, Signed
<1>3. CASE order = "single"
  BY <1>2, <1>3 DEF ValueOf
<1>4. CASE order # "single"
  BY <1>1, <1>4, ModbusServerAssumption DEF ValueOf, Word
<1> QED  BY <1>3, <1>4

LEMMA RemainderIsWord ==
  ASSUME NEW x \in Int
  PROVE  x % WordSize \in Word
BY ModbusServerAssumption DEF Word

LEMMA BitsAreWords == {0, 1} \subseteq Word
BY ModbusServerAssumption DEF Word

(* SetRealData turns a cell into a cell that holds what it held before or  *)
(* what is stored.                                                         *)
LEMMA CellStored ==
  ASSUME NEW x \in Bank!Cell,
         NEW data \in [value : Nat, type : Bank!DataType, writed : BOOLEAN]
  PROVE  Bank!Stored(x, data) \in Bank!Cell /\ Bank!Stored(x, data).value \in {x.value, data.value}
BY ModbusServerAssumption DEF Bank!Stored, Bank!Withholds, Bank!Cell, Bank!DataType

LEMMA BankInit == Init => BankInv
<1> SUFFICES ASSUME Init PROVE BankInv  OBVIOUS
<1>1. PICK type \in [Addr -> Bank!DataType] :
         cell = [a \in Addr |-> [value |-> 0, type |-> type[a], writed |-> FALSE,
                                 writed_num |-> 0]]
  BY DEF Init, Bank!Init, Bank!Measured
<1>2. cell \in [Addr -> Bank!Cell] /\ CellsKnown
  BY <1>1, ModbusServerAssumption DEF Bank!Cell, CellsKnown, Init, Bank!Init
<1>3. /\ request = [c \in Conn |-> Bank!Idle] /\ issued = 0
      /\ taken = [a \in Addr |-> <<>>] /\ log = <<>> /\ shown = {}
  BY DEF Init, Bank!Init
<1>4. Bank!TypeOK
  BY <1>2, <1>3, ModbusServerAssumption DEF Bank!TypeOK
<1>5. CommandsKnown /\ ShownKnown
  BY <1>3, EmptySeq DEF CommandsKnown, ShownKnown
<1>6. \A c \in Conn : sent[c] = 0 /\ Len(inbox[c]) = 0 /\ job[c] = NoJob
  BY DEF Init
<1>7. StateTyped /\ RequestsOK
  <2>1. StateTyped
    BY DEF Init, StateTyped
  <2>2. RequestsOK
    BY <1>6 DEF RequestsOK
  <2> QED  BY <2>1, <2>2
<1>8. \A c \in Conn : Storing(c) /\ Progressing(c)
  <2> TAKE c \in Conn
  <2>1. MaxRequest[c] \in Nat
    BY ModbusServerAssumption
  <2>2. Progressing(c)
    BY <1>6, <2>1 DEF Progressing
  <2>3. Storing(c)
    BY <1>3 DEF Storing
  <2> QED  BY <2>2, <2>3
<1> QED  BY <1>2, <1>4, <1>5, <1>7, <1>8 DEF BankInv

(* Neither bank nor log nor the threads' work change.                      *)
LEMMA BankFrame ==
  ASSUME BankInv, bank' = bank, log' = log, shown' = shown
  PROVE  Bank!TypeOK' /\ CellsKnown' /\ CommandsKnown' /\ ShownKnown'
BY DEF BankInv, bank, Bank!TypeOK, CellsKnown, CommandsKnown, ShownKnown

LEMMA SendTyped ==
  ASSUME StateTyped, NEW c \in Conn, NEW a, Send(c, a)
  PROVE  StateTyped'
BY DEF StateTyped, Send

LEMMA BankConnection ==
  ASSUME IInv, BankInv, NEW c \in Conn,
         Accept(c) \/ Overrun(c) \/ End(c) \/ ClientClose(c)
  PROVE  BankInv'
<1>1. /\ bank' = bank /\ log' = log /\ shown' = shown /\ job' = job /\ sent' = sent
      /\ inbox' = inbox
  BY DEF Accept, Overrun, End, ClientClose
<1>2. StateTyped'
  BY DEF BankInv, StateTyped, Accept, Overrun, End, ClientClose
<1>3. RequestsOK' /\ \A d \in Conn : Storing(d)' /\ Progressing(d)'
  BY <1>1 DEF BankInv, RequestsOK, Storing, Progressing, bank
<1> QED  BY <1>1, <1>2, <1>3, BankFrame DEF BankInv

LEMMA BankClientSend ==
  ASSUME IInv, BankInv, NEW c \in Conn, NEW r \in Sends[c], ClientSend(c, r)
  PROVE  BankInv'
<1> DEFINE m == [id |-> sent[c] + 1, request |-> r]
           s == inbox[c]
<1>1. /\ bank' = bank /\ log' = log /\ shown' = shown /\ job' = job /\ conn' = conn
      /\ killed' = killed /\ sent[c] < MaxRequest[c]
      /\ sent'[c] = sent[c] + 1 /\ inbox'[c] = Append(s, m)
      /\ \A d \in Conn : d # c => sent'[d] = sent[d] /\ inbox'[d] = inbox[d]
  BY DEF ClientSend, IInv, TypeInv
<1>2. m \in Message /\ s \in Seq(Message) /\ sent[c] \in Nat /\ MaxRequest[c] \in Nat
  <2>1. r \in Request
    BY ModbusServerAssumption
  <2>2. sent[c] \in Nat /\ s \in Seq(Message)
    BY Typed DEF IInv
  <2> QED  BY <2>1, <2>2, ModbusServerAssumption DEF Message
<1>3. \A k \in 1 .. Len(inbox'[c]) : inbox'[c][k].request \in Sends[c]
  <2>1. /\ Len(Append(s, m)) = Len(s) + 1 /\ Len(s) \in Nat
        /\ \A k \in 1 .. Len(s) : Append(s, m)[k] = s[k]
        /\ Append(s, m)[Len(s) + 1] = m
    BY <1>2, Appended
  <2>2. \A k \in 1 .. Len(Append(s, m)) : k \in 1 .. Len(s) \/ k = Len(s) + 1
    BY <2>1
  <2> QED  BY <1>1, <2>1, <2>2 DEF BankInv, RequestsOK
<1>4. RequestsOK'
  <2>1. \A d \in Conn : \A k \in 1 .. Len(inbox'[d]) : inbox'[d][k].request \in Sends[d]
    BY <1>1, <1>3 DEF BankInv, RequestsOK
  <2> QED  BY <1>1, <2>1 DEF BankInv, RequestsOK
<1>5. \A d \in Conn : Storing(d)' /\ Progressing(d)'
  <2>1. sent'[c] <= MaxRequest[c]
    BY <1>1, <1>2
  <2> QED  BY <1>1, <2>1 DEF BankInv, Storing, Progressing, bank
<1> QED  BY <1>1, <1>4, <1>5, BankFrame DEF BankInv, StateTyped

(* A request that Check lets pass begins with its first register.          *)
LEMMA BankRecv ==
  ASSUME IInv, BankInv, NEW c \in Conn, Recv(c)
  PROVE  BankInv'
<1> DEFINE s == inbox[c]
           first == Head(s)
           j(w) == [id |-> first.id, request |-> first.request, i |-> 0, words |-> w]
<1>1. PICK n \in 1 .. Len(s) : inbox' = [inbox EXCEPT ![c] = SubSeq(s, n + 1, Len(s))]
  BY DEF Recv
<1>2. /\ inbox'[c] = SubSeq(s, n + 1, Len(s)) /\ sent' = sent /\ job[c] = NoJob
      /\ bank' = bank /\ log' = log /\ shown' = shown
      /\ \A d \in Conn : d # c => inbox'[d] = inbox[d]
  BY <1>1 DEF Recv, IInv, TypeInv
<1>3. /\ first = s[1] /\ 1 \in 1 .. Len(s)
      /\ \A k \in 1 .. Len(inbox'[c]) : \E l \in 1 .. Len(s) : inbox'[c][k] = s[l]
  BY <1>2, Received
<1>4. first.request \in Sends[c] /\ first.request \in Request
  BY <1>3, ModbusServerAssumption DEF BankInv, RequestsOK
<1>5. \A d \in Conn : \A k \in 1 .. Len(inbox'[d]) : inbox'[d][k].request \in Sends[d]
  <2>1. \A k \in 1 .. Len(inbox'[c]) : inbox'[c][k].request \in Sends[c]
    BY <1>3 DEF BankInv, RequestsOK
  <2> QED  BY <1>2, <2>1 DEF BankInv, RequestsOK
<1>6. request[c] = Bank!Idle
  BY <1>2 DEF BankInv, Storing
<1>7. CASE Check(first.request)
  <2>1. PICK w \in Decoded(first.request) :
           conn' = conn /\ killed' = killed /\ job' = [job EXCEPT ![c] = j(w)]
    BY <1>7 DEF Recv
  <2>2. job'[c] = j(w) /\ \A d \in Conn : d # c => job'[d] = job[d]
    BY <2>1 DEF IInv, TypeInv
  <2>3. RequestsOK'
    <3>1. \A d \in Conn : job'[d] # NoJob => job'[d].request \in Sends[d]
      BY <1>4, <2>2 DEF BankInv, RequestsOK
    <3> QED  BY <1>5, <3>1 DEF RequestsOK
  <2>4. 0 <= Length(first.request)
    BY <1>4 DEF Length, Request
  <2>5. \A d \in Conn : Storing(d)' /\ Progressing(d)'
    <3>1. Storing(c)' /\ Progressing(c)'
      BY <1>2, <1>6, <2>2, <2>4 DEF BankInv, Storing, Progressing, bank
    <3>2. \A d \in Conn : d # c => Storing(d)' /\ Progressing(d)'
      BY <1>2, <2>2 DEF BankInv, Storing, Progressing, bank
    <3> QED  BY <3>1, <3>2
  <2> QED  BY <1>2, <2>1, <2>3, <2>5, BankFrame DEF BankInv, StateTyped
<1>8. CASE ~Check(first.request)
  <2>1. StateTyped' /\ job' = job
    BY <1>8, SendTyped DEF Recv, PackErrorMessage, BankInv
  <2>2. RequestsOK'
    BY <1>5, <2>1 DEF BankInv, RequestsOK
  <2>3. \A d \in Conn : Storing(d)' /\ Progressing(d)'
    BY <1>2, <2>1 DEF BankInv, Storing, Progressing, bank
  <2> QED  BY <1>2, <2>1, <2>2, <2>3, BankFrame DEF BankInv
<1> QED  BY <1>7, <1>8

(* The bank, the log and what was shown do not change, and the thread of c *)
(* is done with its request or past its last register.                     *)
LEMMA BankEnd ==
  ASSUME IInv, BankInv, NEW c \in Conn, StateTyped', bank' = bank, log' = log, shown' = shown,
         sent' = sent, inbox' = inbox, request[c] = Bank!Idle,
         NEW j, job' = [job EXCEPT ![c] = j],
         j # NoJob => j.request \in Sends[c] /\ j.i <= Length(j.request)
  PROVE  BankInv'
<1>1. job'[c] = j /\ \A d \in Conn : d # c => job'[d] = job[d]
  BY DEF IInv, TypeInv
<1>2. RequestsOK'
  BY <1>1 DEF BankInv, RequestsOK
<1>3. Storing(c)' /\ Progressing(c)'
  BY <1>1 DEF BankInv, Storing, Progressing, bank
<1>4. \A d \in Conn : d # c => Storing(d)' /\ Progressing(d)'
  BY <1>1 DEF BankInv, Storing, Progressing, bank
<1> QED  BY <1>2, <1>3, <1>4, BankFrame DEF BankInv

(* A register that the bank does not have was not going to be stored.      *)
LEMMA BankFail ==
  ASSUME IInv, BankInv, NEW c \in Conn, Fail(c)
  PROVE  BankInv'
<1>1. /\ job[c] # NoJob /\ job[c] \in Job /\ Refused(job[c])
      /\ job' = [job EXCEPT ![c] = AfterFail(job[c])]
  BY Typed DEF IInv, Fail, Working
<1>2. request[c] = Bank!Idle
  BY <1>1 DEF BankInv, Storing
<1>3. StateTyped'
  BY SendTyped DEF Fail, PackErrorMessage, BankInv
<1>4. AfterFail(job[c]) # NoJob =>
         /\ AfterFail(job[c]).request \in Sends[c]
         /\ AfterFail(job[c]).i <= Length(AfterFail(job[c]).request)
  <2>1. job[c].request \in Sends[c] /\ job[c].request \in Request
    BY <1>1, ModbusServerAssumption DEF BankInv, RequestsOK
  <2>2. Length(job[c].request) \in Nat
    BY <2>1 DEF Length, Request
  <2> QED  BY <1>1, <2>1, <2>2 DEF AfterFail, Job
<1> QED  BY <1>1, <1>2, <1>3, <1>4, BankEnd DEF Fail

LEMMA BankPackModbus ==
  ASSUME IInv, BankInv, NEW c \in Conn, PackModbus(c)
  PROVE  BankInv'
<1>1. ~More(job[c]) /\ job' = [job EXCEPT ![c] = NoJob]
  BY DEF PackModbus
<1>2. request[c] = Bank!Idle
  BY <1>1 DEF BankInv, Storing
<1>3. StateTyped'
  BY SendTyped DEF PackModbus, BankInv
<1> QED  BY <1>1, <1>2, <1>3, BankEnd DEF PackModbus

(* The register after this one, of a request that has one left.            *)
LEMMA Advanced ==
  ASSUME IInv, BankInv, NEW c \in Conn, job[c] # NoJob, More(job[c])
  PROVE  /\ job[c] \in Job /\ job[c].i \in Nat /\ job[c].request \in Request
         /\ Advance(job[c]).request = job[c].request
         /\ Advance(job[c]).i <= Length(Advance(job[c]).request)
<1>1. job[c] \in Job /\ job[c].request \in Request /\ job[c].i \in Nat
  BY Typed DEF IInv, Job
<1>2. Advance(job[c]).request = job[c].request /\ Advance(job[c]).i = job[c].i + 1
  BY <1>1 DEF Advance, Job
<1>3. Length(job[c].request) \in Nat
  BY <1>1 DEF Length, Request
<1> QED  BY <1>1, <1>2, <1>3 DEF More

(* What orders 3 and 4 show of a register is a word, and the word of the   *)
(* command if a short can hold it.                                         *)
LEMMA BankRead ==
  ASSUME IInv, BankInv, NEW c \in Conn, Read(c)
  PROVE  BankInv'
<1> DEFINE j == job[c]
           a == Register(j)
           x == cell[a].value
           V(w) == [order |-> j.request.order, command |-> x, type |-> cell[a].type, word |-> w]
<1>1. /\ j # NoJob /\ More(j) /\ a \in Addr /\ j.request.order \in {"coils", "registers"}
      /\ bank' = bank /\ log' = log /\ sent' = sent /\ inbox' = inbox
      /\ job' = [job EXCEPT ![c] = Advance(j)]
  BY DEF Read, Working, Refused
<1>2. PICK w \in Shown(j.request.order, a) : shown' = shown \cup {V(w)}
  BY DEF Read
<1>3. x \in 0 .. issued /\ issued \in Nat /\ cell[a] \in Bank!Cell
  BY <1>1, ModbusServerAssumption DEF BankInv, Bank!TypeOK, CellsKnown, Bank!Cell
<1>4. x # 0 => /\ log[x] \in Command /\ Contents(a) = log[x].value
               /\ log[x].value = ValueOf(log[x].order, log[x].word)
  <2>1. ASSUME x # 0 PROVE x \in 1 .. Len(log)
    BY <1>3, <2>1 DEF BankInv, CommandsKnown
  <2> QED
    BY <2>1, ElementOfSeq DEF BankInv, CommandsKnown, Contents, Bank!Measured
<1>5. x # 0 => /\ Contents(a) \in Int /\ Contents(a) % WordSize = log[x].word
               /\ log[x].order = "single" => Contents(a) \in Short
  BY <1>4, WordOfValue DEF Command
<1>6. Contents(a) \in Int
  BY <1>5 DEF Contents, Bank!Measured
<1>7. w \in Word
  BY <1>1, <1>2, <1>6, RemainderIsWord, BitsAreWords DEF Shown
<1>8. Faithful(V(w), log)
  <2>1. SUFFICES ASSUME j.request.order = "registers", x # 0,
                        cell[a].type = "INT" \/ log[x].order = "single"
                 PROVE  w = log[x].word
    BY DEF Faithful, Bank!Measured
  <2>2. cell[a].type = "INT" \/ Contents(a) \in Short
    BY <1>5, <2>1
  <2>3. Shown("registers", a) = {Contents(a) % WordSize}
    BY <2>2 DEF Shown
  <2> QED  BY <1>2, <1>5, <2>1, <2>3
<1>9. ShownKnown'
  <2>1. V(w).command \in 0 .. issued /\ V(w).word \in Word
    BY <1>3, <1>7
  <2>2. issued' = issued
    BY <1>1 DEF bank
  <2> HIDE DEF V
  <2> QED  BY <1>1, <1>2, <1>8, <2>1, <2>2 DEF BankInv, ShownKnown
<1>10. Bank!TypeOK' /\ CellsKnown' /\ CommandsKnown'
  BY <1>1 DEF BankInv, bank, Bank!TypeOK, CellsKnown, CommandsKnown
<1>11. StateTyped'
  BY DEF Read, BankInv, StateTyped
<1>12. job'[c] = Advance(j) /\ \A d \in Conn : d # c => job'[d] = job[d]
  BY <1>1 DEF IInv, TypeInv
<1>13. Advance(j).request = j.request /\ Advance(j).i <= Length(Advance(j).request)
  BY <1>1, Advanced
<1>14. request[c] = Bank!Idle
  BY <1>1 DEF BankInv, Storing, Writes
<1>15. RequestsOK'
  BY <1>1, <1>12, <1>13 DEF BankInv, RequestsOK
<1>16. \A d \in Conn : Storing(d)' /\ Progressing(d)'
  BY <1>1, <1>12, <1>13, <1>14 DEF BankInv, Storing, Progressing, bank
<1> QED  BY <1>9, <1>10, <1>11, <1>15, <1>16 DEF BankInv

LEMMA BankReadType ==
  ASSUME IInv, BankInv, NEW c \in Conn, ReadType(c)
  PROVE  BankInv'
<1> DEFINE a == Register(job[c])
<1>1. /\ job[c] # NoJob /\ More(job[c]) /\ ~Refused(job[c]) /\ a \in Addr
      /\ job[c].request.order \in Writes
      /\ request' = [request EXCEPT ![c] = [addr |-> a, type |-> cell[a].type]]
      /\ cell' = cell /\ issued' = issued /\ taken' = taken /\ log' = log /\ shown' = shown
      /\ sent' = sent /\ inbox' = inbox /\ job' = job /\ conn' = conn /\ killed' = killed
  BY DEF ReadType, Working, Refused, Bank!ReadType
<1>2. cell[a].type \in Bank!DataType
  BY <1>1 DEF BankInv, Bank!TypeOK, Bank!Cell
<1>3. Bank!TypeOK'
  BY <1>1, <1>2 DEF BankInv, Bank!TypeOK
<1>4. CellsKnown' /\ CommandsKnown' /\ ShownKnown' /\ StateTyped' /\ RequestsOK'
  BY <1>1 DEF BankInv, CellsKnown, CommandsKnown, ShownKnown, StateTyped, RequestsOK
<1>5. \A d \in Conn : d # c => request'[d] = request[d]
  BY <1>1 DEF BankInv, Bank!TypeOK
<1>6. \A d \in Conn : Storing(d)' /\ Progressing(d)'
  BY <1>1, <1>5 DEF BankInv, Storing, Progressing
<1> QED  BY <1>3, <1>4, <1>6 DEF BankInv

(* A store that changes the value of one cell to an issued number or keeps *)
(* it.                                                                     *)
LEMMA CellsAfter ==
  ASSUME BankInv, NEW a \in Addr,
         NEW data \in [value : Nat, type : Bank!DataType, writed : BOOLEAN],
         Bank!SetRealData(a, data), issued' \in Nat, issued <= issued', data.value <= issued'
  PROVE  cell' \in [Addr -> Bank!Cell] /\ CellsKnown'
<1>1. /\ cell \in [Addr -> Bank!Cell] /\ issued \in Nat
      /\ \A b \in Addr : cell[b].value \in Nat /\ cell[b].value <= issued
  BY ModbusServerAssumption DEF BankInv, Bank!TypeOK, CellsKnown, Bank!Cell
<1>2. cell' = [cell EXCEPT ![a] = Bank!Stored(cell[a], data)]
  BY DEF Bank!SetRealData
<1>3. /\ Bank!Stored(cell[a], data) \in Bank!Cell
      /\ Bank!Stored(cell[a], data).value \in {cell[a].value, data.value}
  BY <1>1, CellStored
<1>4. cell' \in [Addr -> Bank!Cell]
  BY <1>1, <1>2, <1>3
<1>5. cell'[a].value <= issued'
  BY <1>1, <1>2, <1>3
<1>6. \A b \in Addr : b # a => cell'[b] = cell[b]
  BY <1>1, <1>2
<1> QED
  BY <1>1, <1>4, <1>5, <1>6 DEF CellsKnown

LEMMA BankDevice ==
  ASSUME IInv, BankInv, Device
  PROVE  BankInv'
<1> DEFINE data(a) == [value |-> 0, type |-> SensorType[a], writed |-> FALSE]
<1>1. PICK a \in Addr : Bank!Measure(a)
  BY DEF Device
<1>2. data(a) \in [value : Nat, type : Bank!DataType, writed : BOOLEAN]
  BY ModbusServerAssumption DEF Bank!DataType
<1>3. /\ Bank!SetRealData(a, data(a)) /\ issued' = issued /\ request' = request
      /\ taken' = taken
  BY <1>1 DEF Bank!Measure, Bank!Measured
<1>4. issued \in Nat /\ data(a).value <= issued
  BY ModbusServerAssumption DEF BankInv, Bank!TypeOK
<1>5. cell' \in [Addr -> Bank!Cell] /\ CellsKnown'
  <2> HIDE DEF data
  <2> QED  BY <1>2, <1>3, <1>4, CellsAfter
<1>6. Bank!TypeOK'
  BY <1>3, <1>5 DEF BankInv, Bank!TypeOK
<1>7. CommandsKnown' /\ ShownKnown' /\ StateTyped' /\ RequestsOK'
  BY <1>3 DEF Device, BankInv, CommandsKnown, ShownKnown, StateTyped, RequestsOK
<1>8. \A d \in Conn : Storing(d)' /\ Progressing(d)'
  BY <1>3 DEF Device, BankInv, Storing, Progressing
<1> QED  BY <1>5, <1>6, <1>7, <1>8 DEF BankInv

(* A command more: it is in the log as it was given, and no other moves.   *)
LEMMA BankWrite ==
  ASSUME IInv, BankInv, NEW c \in Conn, Write(c)
  PROVE  BankInv'
<1> DEFINE j == job[c]
           o == j.request.order
           w == j.words[j.i + 1]
           e == [conn |-> c, id |-> j.id, addr |-> Register(j), order |-> o,
                 word |-> w, value |-> ValueOf(o, w)]
           a == request[c].addr
           data == [value |-> issued + 1, type |-> request[c].type, writed |-> TRUE]
<1>1. /\ j # NoJob /\ o \in Writes /\ request[c] # Bank!Idle
      /\ log' = Append(log, e) /\ job' = [job EXCEPT ![c] = Advance(j)]
      /\ issued < MaxCommand /\ issued' = issued + 1 /\ Bank!SetRealData(a, data)
      /\ request' = [request EXCEPT ![c] = Bank!Idle] /\ taken' = taken
      /\ sent' = sent /\ inbox' = inbox /\ shown' = shown /\ conn' = conn /\ killed' = killed
  BY DEF Write, Working, Bank!SetRealDataUnknown, Bank!StoreCommand
<1>2. More(j) /\ ~Refused(j)
  BY <1>1 DEF BankInv, Storing
<1>3. /\ j \in Job /\ j.i \in Nat /\ j.request \in Request
      /\ Advance(j).request = j.request /\ Advance(j).i <= Length(Advance(j).request)
  BY <1>1, <1>2, Advanced
<1>4. w \in Word
  <2>1. j.words \in Decoded(j.request)
    BY <1>1 DEF IInv, Busy
  <2>2. j.i + 1 \in 1 .. Length(j.request)
    BY <1>2, <1>3 DEF More, Length, Request
  <2> QED  BY <1>1, <1>3, <2>1, <2>2, DecodedWords
<1>5. e \in Command /\ e.value = ValueOf(e.order, e.word)
  <2>1. ValueOf(o, w) \in Int
    BY <1>1, <1>4, WordOfValue
  <2>2. Register(j) \in Int
    BY <1>2 DEF Refused, Addr
  <2>3. j.id \in Nat
    BY <1>3 DEF Job
  <2> QED  BY <1>1, <1>4, <2>1, <2>2, <2>3 DEF Command
<1>6. issued \in Nat /\ issued + 1 \in 0 .. MaxCommand /\ a \in Addr /\ request[c].type \in Bank!DataType
  BY <1>1, ModbusServerAssumption DEF BankInv, Bank!TypeOK
<1>7. cell' \in [Addr -> Bank!Cell] /\ CellsKnown'
  <2>1. data \in [value : Nat, type : Bank!DataType, writed : BOOLEAN]
    BY <1>6
  <2>2. issued' \in Nat /\ issued <= issued' /\ data.value <= issued'
    BY <1>1, <1>6
  <2> HIDE DEF data, a
  <2> QED  BY <1>1, <1>6, <2>1, <2>2, CellsAfter
<1>8. Bank!TypeOK'
  BY <1>1, <1>6, <1>7 DEF BankInv, Bank!TypeOK
<1>9. /\ log' \in Seq(Command) /\ Len(log') = Len(log) + 1 /\ Len(log) = issued
      /\ \A k \in 1 .. Len(log) : log'[k] = log[k]
      /\ log'[Len(log) + 1] = e
  <2> HIDE DEF e
  <2> QED  BY <1>1, <1>5, Appended DEF BankInv, CommandsKnown
<1>10. CommandsKnown'
  <2>1. \A k \in 1 .. Len(log') : k \in 1 .. Len(log) \/ k = Len(log) + 1
    BY <1>6, <1>9
  <2>2. \A k \in 1 .. Len(log') : log'[k].value = ValueOf(log'[k].order, log'[k].word)
    <3> HIDE DEF e
    <3> QED  BY <1>5, <1>9, <2>1 DEF BankInv, CommandsKnown
  <2> QED  BY <1>1, <1>6, <1>9, <2>2 DEF CommandsKnown
<1>11. ShownKnown'
  <2>1. ASSUME NEW v \in shown
        PROVE  v.command \in 0 .. issued' /\ v.word \in Word /\ Faithful(v, log')
    <3>1. v.command \in 0 .. issued /\ v.word \in Word /\ Faithful(v, log)
      BY DEF BankInv, ShownKnown
    <3>2. v.command # 0 => log'[v.command] = log[v.command]
      BY <1>6, <1>9, <3>1
    <3>3. Faithful(v, log')
      BY <3>1, <3>2 DEF Faithful, Bank!Measured
    <3>4. v.command \in 0 .. issued'
      BY <1>1, <1>6, <3>1
    <3> QED  BY <3>1, <3>3, <3>4
  <2> QED  BY <1>1, <2>1 DEF ShownKnown
<1>12. job'[c] = Advance(j) /\ \A d \in Conn : d # c => job'[d] = job[d]
  BY <1>1 DEF IInv, TypeInv
<1>13. request'[c] = Bank!Idle /\ \A d \in Conn : d # c => request'[d] = request[d]
  BY <1>1 DEF BankInv, Bank!TypeOK
<1>14. RequestsOK'
  BY <1>1, <1>3, <1>12 DEF BankInv, RequestsOK
<1>15. \A d \in Conn : Storing(d)' /\ Progressing(d)'
  BY <1>1, <1>3, <1>12, <1>13 DEF BankInv, Storing, Progressing
<1> QED  BY <1>1, <1>7, <1>8, <1>10, <1>11, <1>14, <1>15 DEF BankInv, StateTyped

LEMMA NextKeepsBank == IInv /\ BankInv /\ [Next]_vars => BankInv'
<1> SUFFICES ASSUME IInv, BankInv, [Next]_vars PROVE BankInv'  OBVIOUS
<1>1. CASE UNCHANGED vars
  <2>1. /\ bank' = bank /\ log' = log /\ shown' = shown /\ sent' = sent /\ inbox' = inbox
        /\ job' = job /\ conn' = conn /\ killed' = killed
    BY <1>1 DEF vars, bank
  <2> QED
    BY <2>1, BankFrame DEF BankInv, StateTyped, RequestsOK, Storing, Progressing, bank
<1>2. CASE \E c \in Conn : Accept(c) \/ Overrun(c) \/ End(c) \/ ClientClose(c)
  BY <1>2, BankConnection
<1>3. CASE \E c \in Conn : Recv(c) \/ Fail(c) \/ PackModbus(c)
  BY <1>3, BankRecv, BankFail, BankPackModbus
<1>4. CASE \E c \in Conn : Read(c) \/ ReadType(c) \/ Write(c)
  BY <1>4, BankRead, BankReadType, BankWrite
<1>5. CASE \E c \in Conn : \E r \in Sends[c] : ClientSend(c, r)
  BY <1>5, BankClientSend
<1>6. CASE Device
  BY <1>6, BankDevice
<1> QED  BY <1>1, <1>2, <1>3, <1>4, <1>5, <1>6 DEF Next, Service

LEMMA BankHolds == Spec => [](IInv /\ BankInv)
BY InitHolds, BankInit, NextKeeps, NextKeepsBank, PTL DEF Spec

(* The server's state is typed, with the bank it shares, for any number of *)
(* connections, any requests, those that give fewer words than they        *)
(* announce included, and any even number of words: no store is begun for  *)
(* a register that the bank does not have, and no thread goes past the     *)
(* last register of its request.                                           *)
THEOREM ServerTypeCorrect == Spec => []TypeOK
<1>1. IInv /\ BankInv => TypeOK
  <2> SUFFICES ASSUME IInv, BankInv PROVE TypeOK  OBVIOUS
  <2>1. Bank!TypeOK /\ Len(log) = issued /\ log \in Seq(Command)
    BY DEF BankInv, CommandsKnown
  <2>2. \A c \in Conn : sent[c] \in 0 .. MaxRequest[c]
    <3> TAKE c \in Conn
    <3>1. sent[c] \in Nat /\ MaxRequest[c] \in Nat
      BY ModbusServerAssumption DEF IInv, TypeInv
    <3>2. sent[c] <= MaxRequest[c]
      BY DEF BankInv, Progressing
    <3> QED  BY <3>1, <3>2
  <2>3. \A n \in 1 .. Len(log) : log[n].value \in IF log[n].order = "single" THEN Short ELSE Word
    <3>1. \A n \in 1 .. Len(log) : log[n] \in Command
      BY <2>1, ElementOfSeq
    <3>2. \A n \in 1 .. Len(log) : /\ log[n].word \in Word /\ log[n].order \in Writes
                                   /\ log[n].value = ValueOf(log[n].order, log[n].word)
      BY <3>1 DEF Command, BankInv, CommandsKnown
    <3> QED  BY <3>2, WordOfValue
  <2>4. \A v \in shown : v.command <= issued /\ v.word \in Word
    BY DEF BankInv, ShownKnown
  <2>5. \A c \in Conn : job[c] # NoJob => job[c].i <= Length(job[c].request)
    BY DEF BankInv, Progressing
  <2> QED
    BY <2>1, <2>2, <2>3, <2>4, <2>5 DEF TypeOK, IInv, TypeInv, BankInv, StateTyped
<1> QED  BY BankHolds, <1>1, PTL

(* Orders 3 and 4 show a waiting command as the operator gave it, negative *)
(* words too: those of order 6 in a register of either type, those of      *)
(* order 16 in a register of integers, whatever the other connections and  *)
(* the devices store between them and however wide a word is.              *)
THEOREM CommandsReadBack == Spec => []ReadsBack
<1>1. BankInv => ReadsBack
  BY DEF BankInv, ShownKnown, Faithful, ReadsBack
<1> QED  BY BankHolds, <1>1, PTL
================================================================================
