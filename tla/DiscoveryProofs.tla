--------------------------- MODULE DiscoveryProofs ---------------------------
(***************************************************************************)
(* Theorems of Discovery, for any number of slave stations and of clients  *)
(* of a station that are ending at the same time.  The argument: flag      *)
(* stands for one client, the one between its creation and its last step   *)
(* but one, or for a client that could not be created.                     *)
(***************************************************************************)
EXTENDS Discovery, FiniteSetTheorems, TLAPS

(* A client thread that flag stands for: its connections are not closed,   *)
(* or flag is not cleared yet.                                             *)
Lives(c) == client[c] \in {"opening", "open", "closed"}

(* OneConnection is not inductive: it does not count the client whose      *)
(* connections are closed and which clears flag next.                      *)
OneLives == \A c, d \in Client : c[1] = d[1] /\ Lives(c) /\ Lives(d) => c = d
FlagLives == \A s \in Slave : flag[s] <=> (\E c \in Client : c[1] = s /\ Lives(c)) \/ s \in missing
MissingHasNone == \A c \in Client : Lives(c) => c[1] \notin missing

IInv == TypeOK /\ OneLives /\ FlagLives /\ MissingHasNone

LEMMA ClientType == ASSUME NEW c \in Client PROVE c[1] \in Slave
  BY DEF Client

-----------------------------------------------------------------------------
LEMMA InitInv == Init => IInv
  <1>1. ASSUME Init PROVE TypeOK
    BY <1>1 DEF Init, TypeOK
  <1>2. ASSUME Init PROVE OneLives /\ FlagLives /\ MissingHasNone
    BY <1>2 DEF Init, OneLives, FlagLives, MissingHasNone, Lives
  <1>3. QED
    BY <1>1, <1>2 DEF IInv

(* UdpManangerClient::RecvInfo starts a client only where there is none.   *)
LEMMA StartStep ==
    ASSUME IInv, NEW s \in Slave, ~flag[s], StartClient(s),
           ask' = ask, known' = known, reply' \in {reply, reply \ {s}}
    PROVE  IInv'
  <1>1. \A c \in Client : c[1] = s => ~Lives(c)
    BY DEF IInv, FlagLives
  <1>2. s \notin missing
    BY DEF IInv, TypeOK
  <1>3. ASSUME NEW c \in Of(s), client[c] = "none",
               client' = [client EXCEPT ![c] = "opening"], missing' = missing
        PROVE  IInv'
    <2>1. c \in Client /\ c[1] = s
      BY <1>3 DEF Of
    <2>2. \A d \in Client : Lives(d)' <=> Lives(d) \/ d = c
      BY <1>3, <2>1 DEF Lives, IInv, TypeOK
    <2>3. TypeOK'
      BY <1>3, <2>1 DEF IInv, TypeOK, StartClient
    <2>4. OneLives'
      BY <1>1, <2>1, <2>2 DEF IInv, OneLives
    <2>5. FlagLives'
      <3>1. flag' = [flag EXCEPT ![s] = TRUE]
        BY DEF StartClient
      <3>2. QED
        BY <1>3, <2>1, <2>2, <3>1 DEF IInv, TypeOK, FlagLives
    <2>6. MissingHasNone'
      BY <1>2, <1>3, <2>1, <2>2 DEF IInv, MissingHasNone
    <2>7. QED
      BY <2>3, <2>4, <2>5, <2>6 DEF IInv
  <1>4. ASSUME missing' = missing \cup {s}, UNCHANGED client
        PROVE  IInv'
    <2>1. \A d \in Client : Lives(d)' <=> Lives(d)
      BY <1>4 DEF Lives
    <2>2. flag' = [flag EXCEPT ![s] = TRUE]
      BY DEF StartClient
    <2>3. TypeOK'
      BY <1>4 DEF IInv, TypeOK, StartClient
    <2>4. OneLives'
      BY <2>1 DEF IInv, OneLives
    <2>5. FlagLives'
      BY <1>4, <2>1, <2>2 DEF IInv, TypeOK, FlagLives
    <2>6. MissingHasNone'
      BY <1>1, <1>4, <2>1 DEF IInv, MissingHasNone
    <2>7. QED
      BY <2>3, <2>4, <2>5, <2>6 DEF IInv
  <1>5. QED
    BY <1>3, <1>4 DEF StartClient

(* A step of a client that lives and goes on living, or does neither.      *)
LEMMA MovesOn ==
    ASSUME IInv, TypeOK', flag' = flag, missing' = missing,
           \A c \in Client : Lives(c)' <=> Lives(c)
    PROVE  IInv'
  BY DEF IInv, OneLives, FlagLives, MissingHasNone

(* ControlClient::Run, flag = false: the client that does it is the one    *)
(* that flag stands for, so no other client of the slave is left without.  *)
LEMMA ClearStep ==
    ASSUME IInv, NEW c \in Client, ClearFlag(c)
    PROVE  IInv'
  <1>1. c[1] \in Slave /\ Lives(c) /\ c[1] \notin missing
    BY ClientType DEF ClearFlag, Lives, IInv, MissingHasNone
  <1>2. \A d \in Client : Lives(d)' <=> Lives(d) /\ d # c
    BY DEF ClearFlag, Goto, Lives, IInv, TypeOK
  <1>3. flag' = [flag EXCEPT ![c[1]] = FALSE] /\ missing' = missing
    BY DEF ClearFlag
  <1>4. TypeOK'
    BY <1>1, <1>3 DEF IInv, TypeOK, ClearFlag, Goto
  <1>5. OneLives' /\ MissingHasNone'
    BY <1>2, <1>3 DEF IInv, OneLives, MissingHasNone
  <1>6. FlagLives'
    <2>1. \A d \in Client : d[1] = c[1] => ~Lives(d)'
      BY <1>1, <1>2 DEF IInv, OneLives
    <2>2. QED
      BY <1>1, <1>2, <1>3, <2>1 DEF IInv, TypeOK, FlagLives
  <1>7. QED
    BY <1>4, <1>5, <1>6 DEF IInv

LEMMA InvStep == IInv /\ [Next]_vars => IInv'
  <1> SUFFICES ASSUME IInv, [Next]_vars PROVE IInv'
    OBVIOUS
  <1>1. CASE UNCHANGED vars
    BY <1>1 DEF IInv, TypeOK, OneLives, FlagLives, MissingHasNone, Lives, vars
  <1>2. ASSUME NEW reached \in SUBSET Slave, SendInfo(reached) PROVE IInv'
    <2>1. TypeOK'
      BY <1>2 DEF IInv, TypeOK, SendInfo
    <2>2. QED
      BY <1>2, <2>1, MovesOn DEF SendInfo, Lives
  <1>3. ASSUME NEW s \in Slave, SlaveRecvInfo(s) PROVE IInv'
    <2>1. TypeOK'
      BY <1>3 DEF IInv, TypeOK, SlaveRecvInfo
    <2>2. QED
      BY <1>3, <2>1, MovesOn DEF SlaveRecvInfo, Lives
  <1>4. ASSUME NEW s \in Slave, RecvInfo(s) PROVE IInv'
    <2>1. CASE ~flag[s]
      BY <1>4, <2>1, StartStep DEF RecvInfo
    <2>2. CASE flag[s]
      <3>1. TypeOK'
        BY <1>4, <2>2 DEF IInv, TypeOK, RecvInfo
      <3>2. QED
        BY <1>4, <2>2, <3>1, MovesOn DEF RecvInfo, Lives
    <2>3. QED
      BY <2>1, <2>2
  <1>5. ASSUME NEW s \in Slave, Lose(s) PROVE IInv'
    <2>1. TypeOK'
      BY <1>5 DEF IInv, TypeOK, Lose
    <2>2. QED
      BY <1>5, <2>1, MovesOn DEF Lose, Lives
  <1>6. ASSUME NEW s \in Slave, RecvUpload(s) PROVE IInv'
    <2>1. \A i \in Slave : (i <= s \/ isRun[i]) \in BOOLEAN
      BY DEF IInv, TypeOK
    <2>2. TypeOK'
      BY <1>6, <2>1 DEF IInv, TypeOK, RecvUpload
    <2>3. QED
      BY <1>6, <2>2, MovesOn DEF RecvUpload, Lives
  <1>7. ASSUME NEW c \in Client, OpenedTcp(c) \/ CloseTcp(c) PROVE IInv'
    <2>1. TypeOK'
      BY <1>7 DEF IInv, TypeOK, OpenedTcp, CloseTcp, Goto
    <2>2. \A d \in Client : Lives(d)' <=> Lives(d)
      BY <1>7 DEF Lives, IInv, TypeOK, OpenedTcp, CloseTcp, Goto
    <2>3. QED
      BY <1>7, <2>1, <2>2, MovesOn DEF OpenedTcp, CloseTcp
  <1>8. ASSUME NEW c \in Client, ClearFlag(c) PROVE IInv'
    BY <1>8, ClearStep
  <1>9. ASSUME NEW c \in Client, ClearIsRun(c) PROVE IInv'
    <2>1. TypeOK'
      BY <1>9, ClientType DEF IInv, TypeOK, ClearIsRun, Goto
    <2>2. \A d \in Client : Lives(d)' <=> Lives(d)
      BY <1>9 DEF Lives, IInv, TypeOK, ClearIsRun, Goto
    <2>3. QED
      BY <1>9, <2>1, <2>2, MovesOn DEF ClearIsRun
  <1>10. QED
    BY <1>1, <1>2, <1>3, <1>4, <1>5, <1>6, <1>7, <1>8, <1>9 DEF Next, Run

LEMMA InvHolds == Spec => []IInv
  BY InitInv, InvStep, PTL DEF Spec

-----------------------------------------------------------------------------
(* A slave station never has two clients with connections, for any number  *)
(* of stations, lost and repeated answers, and clients that are ending.    *)
THEOREM NeverTwoConnections == Spec => []OneConnection
  <1>1. IInv => OneConnection
    <2> SUFFICES ASSUME IInv, NEW s \in Slave
                 PROVE  Cardinality({c \in Of(s) : IsConnected(c)}) <= 1
      BY DEF OneConnection
    <2> DEFINE connected == {c \in Of(s) : IsConnected(c)}
    <2>1. \A c, d \in connected : c = d
      BY DEF Of, IsConnected, IInv, OneLives, Lives
    <2>2. CASE connected = {}
      BY <2>2, FS_EmptySet
    <2>3. ASSUME NEW c \in connected PROVE Cardinality(connected) <= 1
      <3>1. connected = {c}
        BY <2>1, <2>3
      <3>2. Cardinality({c}) = 1
        BY FS_Singleton
      <3>3. QED
        BY <3>1, <3>2
    <2>4. QED
      BY <2>2, <2>3
  <1>2. QED
    BY <1>1, InvHolds, PTL

(* flag means that the slave station has a client, or that its thread      *)
(* could not be created.                                                   *)
THEOREM FlagIsTrue == Spec => []FlagHasClient
  <1>1. IInv => FlagHasClient
    BY DEF IInv, FlagLives, FlagHasClient, HasClient, Of, Lives
  <1>2. QED
    BY <1>1, InvHolds, PTL
==============================================================================
