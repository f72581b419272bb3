---------------------- MODULE TelegramConnectionsProofs ---------------------
(***************************************************************************)
(* Theorems about TelegramConnections for every value of its constants.     *)
(***************************************************************************)
EXTENDS TelegramConnections, TLAPS, FiniteSetTheorems

-----------------------------------------------------------------------------
(* Type correctness *)

LEMMA NoRowTypes ==
    /\ \A t \in Nat : NoInvitation \in InvitationRows(t)
    /\ \A t \in Nat : NoConnection \in ConnectionRows(t)
    /\ \A t \in Nat : Idle \in SessionStates(t)
<1>1. \A t \in Nat : NoInvitation \in InvitationRows(t)
  BY DEF NoInvitation, InvitationRows
<1>2. \A t \in Nat : NoConnection \in ConnectionRows(t)
  BY DEF NoConnection, ConnectionRows
<1>3. \A t \in Nat : Idle \in SessionStates(t)
  BY DEF Idle, Begun, SessionStates, Phases
<1>4. QED
  BY <1>1, <1>2, <1>3

(* Ending a session or moving it to its next phase keeps its type. *)
LEMMA SessionType ==
    ASSUME TypeOK, NEW s \in Sessions
    PROVE  /\ End(s) => session' \in [Sessions -> SessionStates(clock)]
           /\ \A phase \in Phases :
                 Go(s, phase) => session' \in [Sessions -> SessionStates(clock)]
<1>1. session \in [Sessions -> SessionStates(clock)] /\ clock \in Nat
  BY LimitAssumption DEF TypeOK
<1>2. End(s) => session' \in [Sessions -> SessionStates(clock)]
  BY <1>1, NoRowTypes DEF End
<1>3. ASSUME NEW phase \in Phases, Go(s, phase)
      PROVE  session' \in [Sessions -> SessionStates(clock)]
  <2>1. [session[s] EXCEPT !.phase = phase] \in SessionStates(clock)
    BY <1>1 DEF SessionStates
  <2>2. session' = [session EXCEPT ![s] = [session[s] EXCEPT !.phase = phase]]
    BY <1>3 DEF Go
  <2>3. QED
    BY <1>1, <2>1, <2>2
<1>4. QED
  BY <1>2, <1>3

LEMMA BeginType ==
    ASSUME TypeOK, NEW s \in Sessions, NEW op \in {"invite", "request", "approve"},
           NEW o \in Owners \cup {NoOne}, NEW u \in Users \cup {NoOne},
           NEW i \in Invitations \cup {0}, NEW c \in Connections \cup {0},
           op = "request" => i \in Invitations, op = "approve" => c \in Connections,
           Begin(s, op, o, u, i, c)
    PROVE  TypeOK'
<1> DEFINE new == Begun(op, "begun", clock, o, u, i, c, {})
<1>1. new \in SessionStates(clock)
  BY LimitAssumption DEF TypeOK, Begun, SessionStates, Phases
<1>2. session' \in [Sessions -> SessionStates(clock)]
  <2>1. session' = [session EXCEPT ![s] = new]
    BY DEF Begin
  <2>2. QED
    BY <1>1, <2>1 DEF TypeOK
<1>3. QED
  BY <1>2 DEF Begin, TypeOK

(* Steps of a session that write no row. *)
LEMMA ReadType ==
    ASSUME TypeOK, NEW s \in Sessions,
           UNCHANGED <<clock, invitation, connection, source, late>>,
           session' \in [Sessions -> SessionStates(clock)]
    PROVE  TypeOK'
  BY DEF TypeOK

LEMMA StartType ==
    ASSUME TypeOK, NEW s \in Sessions, Start(s)
    PROVE  TypeOK'
<1>1. CASE \E o \in Owners : BeginInvite(s, o)
  BY <1>1, BeginType DEF BeginInvite
<1>2. CASE \E u \in Users, i \in Invitations : BeginRequest(s, u, i)
  BY <1>2, BeginType DEF BeginRequest
<1>3. ASSUME NEW c \in Connections, BeginApprove(s, c)
      PROVE  TypeOK'
  <2>1. connection[c] \in ConnectionRows(clock)
    BY DEF TypeOK
  <2>2. connection[c].owner \in Owners \cup {NoOne} /\ connection[c].user \in Users \cup {NoOne}
    BY <2>1 DEF ConnectionRows
  <2>3. QED
    BY <1>3, <2>2, BeginType DEF BeginApprove
<1>4. ASSUME NEW c \in Connections, LockRevoked(s, c)
      PROVE  TypeOK'
  <2> DEFINE new == Begun("block", "revoked", 0, connection[c].owner, connection[c].user,
                          0, c, {c})
  <2>1. connection[c] \in ConnectionRows(clock) /\ clock \in Nat
    BY LimitAssumption DEF TypeOK
  <2>2. new \in SessionStates(clock)
    BY <2>1 DEF ConnectionRows, Begun, SessionStates, Phases
  <2>3. session' \in [Sessions -> SessionStates(clock)]
    <3>1. session' = [session EXCEPT ![s] = new]
      BY <1>4 DEF LockRevoked
    <3>2. QED
      BY <2>2, <3>1 DEF TypeOK
  <2>4. QED
    BY <1>4, <2>3, ReadType DEF LockRevoked
<1>5. QED
  BY <1>1, <1>2, <1>3, <1>4 DEF Start

LEMMA ReplaceType ==
    ASSUME TypeOK, NEW s \in Sessions, NEW i \in Invitations, Replace(s, i)
    PROVE  TypeOK'
<1> DEFINE o == session[s].owner
           new == [NoInvitation EXCEPT !.owner = o, !.createdAt = session[s].now]
           old(j) == [invitation[j] EXCEPT !.cancelled = @ \/ j \in Replaced(o)]
<1>1. session[s] \in SessionStates(clock) /\ clock \in Nat
  BY LimitAssumption DEF TypeOK
<1>2. new \in InvitationRows(clock)
  BY <1>1 DEF SessionStates, InvitationRows, NoInvitation
<1>3. ASSUME NEW j \in Invitations
      PROVE  old(j) \in InvitationRows(clock)
  <2>1. invitation[j] \in InvitationRows(clock)
    BY DEF TypeOK
  <2>2. (invitation[j].cancelled \/ j \in Replaced(o)) \in BOOLEAN
    OBVIOUS
  <2>3. QED
    BY <2>1, <2>2 DEF InvitationRows
<1>4. invitation' = [j \in Invitations |-> IF j = i THEN new ELSE old(j)]
  BY DEF Replace
<1>5. invitation' \in [Invitations -> InvitationRows(clock)]
  BY <1>2, <1>3, <1>4
<1>6. QED
  BY <1>5, SessionType DEF Replace, TypeOK

LEMMA InsertType ==
    ASSUME TypeOK, NEW s \in Sessions, NEW c \in Connections, InsertPending(s, c)
    PROVE  TypeOK'
<1> DEFINE table == [d \in Connections |->
                       IF d = c THEN PendingRow(s)
                       ELSE IF d \in session[s].locks THEN [connection[d] EXCEPT !.state = "revoked"]
                       ELSE connection[d]]
<1>1. session[s] \in SessionStates(clock) /\ clock \in Nat
  BY LimitAssumption DEF TypeOK
<1>2. PendingRow(s) \in ConnectionRows(clock)
  BY <1>1 DEF SessionStates, ConnectionRows, PendingRow, States
<1>3. \A d \in Connections : [connection[d] EXCEPT !.state = "revoked"] \in ConnectionRows(clock)
  BY DEF TypeOK, ConnectionRows, States
<1>4. table \in [Connections -> ConnectionRows(clock)]
  BY <1>2, <1>3 DEF TypeOK
<1>5. connection' \in [Connections -> ConnectionRows(clock)]
  BY <1>4 DEF InsertPending, TypeOK
<1>6. \A i \in Invitations : Consumed(i) \in [Invitations -> InvitationRows(clock)]
  <2>1. \A i \in Invitations : [invitation[i] EXCEPT !.used = TRUE] \in InvitationRows(clock)
    BY DEF TypeOK, InvitationRows
  <2>2. QED
    BY <2>1 DEF Consumed, TypeOK
<1>7. /\ invitation' \in [Invitations -> InvitationRows(clock)]
      /\ source' \in [Connections -> Invitations \cup {0}]
  <2>1. session[s].invitation \in Invitations
    BY <1>1 DEF InsertPending, SessionStates
  <2>2. QED
    BY <1>6, <2>1 DEF InsertPending, TypeOK
<1>8. QED
  BY <1>5, <1>7, SessionType DEF InsertPending, TypeOK

LEMMA SetStateType ==
    ASSUME TypeOK, NEW s \in Sessions, NEW c, NEW state \in States, SetState(s, c, state)
    PROVE  /\ connection' \in [Connections -> ConnectionRows(clock)]
           /\ session' \in [Sessions -> SessionStates(clock)]
<1>1. \A d \in Connections : [connection[d] EXCEPT !.state = state] \in ConnectionRows(clock)
  BY DEF TypeOK, ConnectionRows
<1>2. connection' \in [Connections -> ConnectionRows(clock)]
  BY <1>1 DEF SetState, TypeOK
<1>3. QED
  BY <1>2, SessionType DEF SetState

LEMMA StatementType ==
    ASSUME TypeOK, NEW s \in Sessions, Statement(s)
    PROVE  TypeOK'
<1>0. session[s] \in SessionStates(clock) /\ session \in [Sessions -> SessionStates(clock)]
  BY DEF TypeOK
<1>1. CASE CountRecent(s)
  BY <1>1, SessionType, ReadType DEF CountRecent, Phases
<1>2. CASE \E i \in Invitations : Replace(s, i)
  BY <1>2, ReplaceType
<1>3. CASE LockInvitation(s)
  BY <1>3, SessionType, ReadType DEF LockInvitation, Phases
<1>4. CASE FindLive(s)
  <2>1. LiveRows(session[s].owner, session[s].user) \in SUBSET Connections
    BY DEF LiveRows, Of
  <2>2. [session[s] EXCEPT !.phase = "found",
            !.found = LiveRows(session[s].owner, session[s].user)] \in SessionStates(clock)
    BY ZenonT(60), <1>0, <2>1 DEF SessionStates, Phases
  <2>3. session' \in [Sessions -> SessionStates(clock)]
    BY <1>0, <1>4, <2>2 DEF FindLive
  <2>4. QED
    BY <1>4, <2>3, ReadType DEF FindLive
<1>5. CASE LockExisting(s)
  <2>1. Existing(s) \in SUBSET Connections
    BY DEF Existing, LiveRows, Of
  <2>2. [session[s] EXCEPT !.phase = "checked", !.found = {}, !.locks = Existing(s)] \in SessionStates(clock)
    BY ZenonT(60), <1>0, <2>1 DEF SessionStates, Phases
  <2>3. session' \in [Sessions -> SessionStates(clock)]
    BY <1>0, <1>5, <2>2, SessionType DEF LockExisting
  <2>4. QED
    BY <1>5, <2>3, ReadType DEF LockExisting
<1>6. CASE CountLive(s)
  BY <1>6, SessionType, ReadType DEF CountLive, Phases
<1>7. CASE \E c \in Connections : InsertPending(s, c)
  BY <1>7, InsertType
<1>8. CASE LockPending(s)
  <2>1. CASE End(s)
    BY <1>8, <2>1, SessionType, ReadType DEF LockPending
  <2>2. CASE ~End(s)
    <3>1. session[s].connection \in Connections
      BY <1>0, <1>8 DEF LockPending, SessionStates
    <3>2. [session[s] EXCEPT !.phase = "locked", !.locks = Locked(session[s].connection)] \in SessionStates(clock)
      BY ZenonT(60), <1>0, <3>1 DEF SessionStates, Phases, Locked
    <3>3. session' \in [Sessions -> SessionStates(clock)]
      BY <1>0, <1>8, <2>2, <3>2 DEF LockPending
    <3>4. QED
      BY <1>8, <3>3, ReadType DEF LockPending
  <2>3. QED
    BY <2>1, <2>2
<1>9. CASE CheckActive(s)
  BY <1>9, SessionType, ReadType DEF CheckActive, Phases
<1>10. CASE Approve(s)
  <2>1. SetState(s, session[s].connection, "active")
    BY <1>10 DEF Approve
  <2>2. connection' \in [Connections -> ConnectionRows(clock)] /\ session' \in [Sessions -> SessionStates(clock)]
    BY <2>1, SetStateType DEF States
  <2>3. late' \in SUBSET Connections
    BY <1>0, <1>10 DEF Approve, SessionStates, TypeOK
  <2>4. QED
    BY <2>2, <2>3, <2>1 DEF SetState, TypeOK
<1>11. CASE LookForLive(s)
  <2>1. [session[s] EXCEPT !.phase = "checked", !.found = {}] \in SessionStates(clock)
    BY ZenonT(60), <1>0 DEF SessionStates, Phases
  <2>2. session' \in [Sessions -> SessionStates(clock)]
    BY <1>0, <1>11, <2>1, SessionType DEF LookForLive
  <2>3. QED
    BY <1>11, <2>2, ReadType DEF LookForLive
<1>12. CASE Block(s)
  <2>1. connection' \in [Connections -> ConnectionRows(clock)] /\ session' \in [Sessions -> SessionStates(clock)]
    BY <1>12, SetStateType DEF Block, States
  <2>2. QED
    BY <1>12, <2>1 DEF Block, SetState, TypeOK
<1>13. QED
  BY <1>1, <1>2, <1>3, <1>4, <1>5, <1>6, <1>7, <1>8, <1>9, <1>10, <1>11, <1>12 DEF Statement

(* The three endpoints that close a connection without another row. *)
LEMMA EndpointsClose ==
    ASSUME NEW c \in Connections,
           RevokeConnection(c) \/ BlockConnection(c) \/ UnblockConnection(c)
    PROVE  \E state \in States : CloseConnection(c, state)
  BY DEF RevokeConnection, BlockConnection, UnblockConnection, States

(* Closing or cancelling a row, one session's abort, and time. *)
LEMMA OtherType ==
    ASSUME TypeOK,
           \/ \E s \in Sessions : Abort(s)
           \/ \E i \in Invitations : CancelInvitation(i)
           \/ \E c \in Connections :
                 RevokeConnection(c) \/ BlockConnection(c) \/ UnblockConnection(c)
           \/ Tick
    PROVE  TypeOK'
<1>1. CASE \E s \in Sessions : Abort(s)
  BY <1>1, SessionType, ReadType DEF Abort
<1>2. ASSUME NEW i \in Invitations, CancelInvitation(i)
      PROVE  TypeOK'
  <2>1. [invitation[i] EXCEPT !.cancelled = TRUE] \in InvitationRows(clock)
    BY DEF TypeOK, InvitationRows
  <2>2. QED
    BY <1>2, <2>1 DEF CancelInvitation, TypeOK
<1>3. ASSUME NEW c \in Connections, NEW state \in States, CloseConnection(c, state)
      PROVE  TypeOK'
  <2>1. [connection[c] EXCEPT !.state = state] \in ConnectionRows(clock)
    BY DEF TypeOK, ConnectionRows
  <2>2. QED
    BY <1>3, <2>1 DEF CloseConnection, TypeOK
<1>4. CASE Tick
  <2>1. clock \in Nat /\ clock' = clock + 1 /\ clock' \in 0..MaxTime /\ 0..clock \subseteq 0..clock'
    BY <1>4, LimitAssumption DEF TypeOK, Tick
  <2>2. /\ InvitationRows(clock) \subseteq InvitationRows(clock')
        /\ ConnectionRows(clock) \subseteq ConnectionRows(clock')
        /\ SessionStates(clock) \subseteq SessionStates(clock')
    BY <2>1 DEF InvitationRows, ConnectionRows, SessionStates
  <2>3. QED
    BY <1>4, <2>1, <2>2 DEF Tick, TypeOK
<1>5. QED
  BY <1>1, <1>2, <1>3, <1>4, EndpointsClose

LEMMA TypeStep == TypeOK /\ [Next]_vars => TypeOK'
<1> SUFFICES ASSUME TypeOK, [Next]_vars
             PROVE  TypeOK'
  OBVIOUS
<1>1. CASE Next
  BY <1>1, StartType, StatementType, OtherType DEF Next
<1>2. CASE UNCHANGED vars
  BY <1>2 DEF vars, TypeOK
<1>3. QED
  BY <1>1, <1>2

LEMMA TypeInit == Init => TypeOK
<1> SUFFICES ASSUME Init
             PROVE  TypeOK
  OBVIOUS
<1>1. clock = 0 /\ clock \in 0..MaxTime
  BY LimitAssumption DEF Init
<1>2. QED
  BY <1>1, NoRowTypes DEF Init, TypeOK

(* Every variable keeps its type, and no row or request of the bot's          *)
(* connections is ever dated in the future.                                   *)
THEOREM TypeCorrect == Spec => []TypeOK
  BY TypeInit, TypeStep, PTL DEF Spec

-----------------------------------------------------------------------------
(* One active connection per user: only Approve makes a connection active,    *)
(* and the unique index lets it only if no other one of the user is.          *)

(* No connection becomes active or changes its user while it is. *)
NoNewActive ==
    \A c \in Connections : connection'[c].state = "active" =>
        connection[c].state = "active" /\ connection'[c].user = connection[c].user

LEMMA InsertActivatesNone ==
    ASSUME TypeOK, NEW s \in Sessions, NEW c \in Connections, InsertPending(s, c)
    PROVE  NoNewActive
<1> SUFFICES ASSUME NEW d \in Connections, connection'[d].state = "active"
             PROVE  connection[d].state = "active" /\ connection'[d].user = connection[d].user
  BY DEF NoNewActive
<1>1. CASE UNCHANGED connection
  BY <1>1
<1>2. CASE ~UNCHANGED connection
  <2>1. connection'[d] = IF d = c THEN PendingRow(s)
                         ELSE IF d \in session[s].locks
                              THEN [connection[d] EXCEPT !.state = "revoked"]
                              ELSE connection[d]
    BY <1>2 DEF InsertPending
  <2>2. connection[d] \in ConnectionRows(clock)
    BY DEF TypeOK
  <2>3. d # c
    BY <2>1 DEF PendingRow
  <2>4. d \notin session[s].locks
    BY <2>1, <2>2, <2>3 DEF ConnectionRows
  <2>5. QED
    BY <2>1, <2>3, <2>4
<1>3. QED
  BY <1>1, <1>2

(* A change of state other than to active. *)
LEMMA ClosingActivatesNone ==
    ASSUME TypeOK, NEW c, NEW state, state # "active",
           connection' = [connection EXCEPT ![c].state = state]
    PROVE  NoNewActive
<1> SUFFICES ASSUME NEW d \in Connections, connection'[d].state = "active"
             PROVE  connection[d].state = "active" /\ connection'[d].user = connection[d].user
  BY DEF NoNewActive
<1>1. connection[d] \in ConnectionRows(clock) /\ connection \in [Connections -> ConnectionRows(clock)]
  BY DEF TypeOK
<1>2. d # c
  BY <1>1 DEF ConnectionRows
<1>3. QED
  BY <1>1, <1>2

LEMMA ApproveKeepsOne ==
    ASSUME TypeOK, OneActivePerUser, NEW s \in Sessions, Approve(s)
    PROVE  OneActivePerUser'
<1> DEFINE c == session[s].connection
<1>1. SetState(s, c, "active")
  BY DEF Approve
<1>2. connection \in [Connections -> ConnectionRows(clock)]
  BY DEF TypeOK
<1>3. CASE UNCHANGED connection
  BY <1>3 DEF OneActivePerUser
<1>4. CASE ~Conflicts(connection, c, "active") /\ connection' = [connection EXCEPT ![c].state = "active"]
  <2>1. \A d \in Connections \ {c} :
          connection'[d] = connection[d] /\ ~(connection[d].user = connection[c].user
                                              /\ connection[d].state = "active")
    BY <1>2, <1>4 DEF Conflicts
  <2>2. \A d \in Connections : connection'[d].user = connection[d].user
    BY <1>2, <1>4 DEF ConnectionRows
  <2>3. QED
    BY <2>1, <2>2 DEF OneActivePerUser
<1>5. QED
  BY <1>1, <1>3, <1>4 DEF SetState

LEMMA OneActiveStep == TypeOK /\ OneActivePerUser /\ [Next]_vars => OneActivePerUser'
<1> SUFFICES ASSUME TypeOK, OneActivePerUser, [Next]_vars
             PROVE  OneActivePerUser'
  OBVIOUS
<1>1. ASSUME NoNewActive
      PROVE  OneActivePerUser'
  BY <1>1 DEF NoNewActive, OneActivePerUser
<1>2. CASE UNCHANGED connection
  BY <1>2 DEF OneActivePerUser
<1>3. CASE \E s \in Sessions : Start(s) \/ Abort(s)
  BY <1>2, <1>3 DEF Start, BeginInvite, BeginRequest, BeginApprove, LockRevoked, Begin, Abort
<1>4. ASSUME NEW s \in Sessions, Statement(s)
      PROVE  OneActivePerUser'
  <2>1. CASE Approve(s)
    BY <2>1, ApproveKeepsOne
  <2>2. CASE \E c \in Connections : InsertPending(s, c)
    BY <1>1, <2>2, InsertActivatesNone
  <2>3. CASE Block(s)
    BY <1>1, <1>2, <2>3, ClosingActivatesNone DEF Block, SetState
  <2>4. CASE \/ CountRecent(s) \/ \E i \in Invitations : Replace(s, i)
             \/ LockInvitation(s) \/ FindLive(s) \/ LockExisting(s) \/ CountLive(s)
             \/ LockPending(s) \/ CheckActive(s) \/ LookForLive(s)
    BY <1>2, <2>4 DEF CountRecent, Replace, LockInvitation, FindLive, LockExisting,
                      CountLive, LockPending, CheckActive, LookForLive
  <2>5. QED
    BY <1>4, <2>1, <2>2, <2>3, <2>4 DEF Statement
<1>5. CASE \E c \in Connections :
             RevokeConnection(c) \/ BlockConnection(c) \/ UnblockConnection(c)
  <2>1. PICK c \in Connections, state \in States : CloseConnection(c, state)
    BY <1>5, EndpointsClose
  <2>2. state # "active"
    BY <2>1 DEF CloseConnection, Closes
  <2>3. QED
    BY <1>1, <2>1, <2>2, ClosingActivatesNone DEF CloseConnection
<1>6. CASE (\E i \in Invitations : CancelInvitation(i)) \/ Tick \/ UNCHANGED vars
  BY <1>2, <1>6 DEF CancelInvitation, Tick, vars
<1>7. QED
  BY <1>3, <1>4, <1>5, <1>6 DEF Next

LEMMA OneActiveInit == Init => OneActivePerUser
  BY DEF Init, OneActivePerUser, NoConnection

(* A Telegram user is an active participant of one Workspace at most, for any *)
(* number of owners, users and concurrent requests: the unique index settles  *)
(* what the read of has_active_connection cannot.                             *)
THEOREM OneActiveCorrect == Spec => []OneActivePerUser
<1>1. TypeOK /\ OneActivePerUser /\ TypeOK' /\ [Next]_vars => OneActivePerUser'
  BY OneActiveStep
<1>2. QED
  BY <1>1, OneActiveInit, TypeCorrect, PTL DEF Spec

-----------------------------------------------------------------------------
(* Closed stays closed.  The strengthening: row locks exclude each other, and *)
(* from LockPending on an approval holds the lock of a row that is pending.   *)

Approving(r) == r.op = "approve" /\ r.phase \in {"locked", "checked"}

(* What an approval knows of its row once it has locked it. *)
ApprovalHolds(r, table) ==
    Approving(r) => r.connection \in r.locks /\ table[r.connection].state = "pending"

LockInv ==
    /\ \A s, q \in Sessions : s # q => session[s].locks \cap session[q].locks = {}
    /\ \A s \in Sessions : ApprovalHolds(session[s], connection)

(* One session moves on; rows that others lock stay as they are. *)
LEMMA LockStep ==
    ASSUME TypeOK, LockInv, NEW q \in Sessions, NEW r, session' = [session EXCEPT ![q] = r],
           RowsFree(q, r.locks), ApprovalHolds(r, connection'),
           \A s \in Sessions \ {q} : \A d \in session[s].locks : connection'[d] = connection[d]
    PROVE  LockInv'
<1>1. session \in [Sessions -> SessionStates(clock)]
  BY DEF TypeOK
<1>2. session'[q] = r /\ \A s \in Sessions \ {q} : session'[s] = session[s]
  BY <1>1
<1>3. ASSUME NEW s \in Sessions, NEW t \in Sessions, s # t
      PROVE  session'[s].locks \cap session'[t].locks = {}
  BY <1>2, <1>3 DEF LockInv, RowsFree
<1>4. ASSUME NEW s \in Sessions
      PROVE  ApprovalHolds(session'[s], connection')
  <2>1. CASE s = q
    BY <1>2, <2>1
  <2>2. CASE s # q
    <3>1. session'[s] = session[s] /\ ApprovalHolds(session[s], connection)
      BY <1>2, <2>2 DEF LockInv
    <3>2. \A d \in session[s].locks : connection'[d] = connection[d]
      BY <2>2
    <3>3. QED
      BY <3>1, <3>2 DEF ApprovalHolds
  <2>3. QED
    BY <2>1, <2>2
<1>5. QED
  BY <1>3, <1>4 DEF LockInv

LEMMA EndLocks ==
    ASSUME TypeOK, LockInv, NEW q \in Sessions, End(q),
           \A s \in Sessions \ {q} : \A d \in session[s].locks : connection'[d] = connection[d]
    PROVE  LockInv'
<1>1. RowsFree(q, Idle.locks) /\ ApprovalHolds(Idle, connection')
  BY DEF RowsFree, ApprovalHolds, Approving, Idle, Begun
<1>2. session' = [session EXCEPT ![q] = Idle]
  BY DEF End
<1>3. QED
  BY <1>1, <1>2, LockStep

(* A statement that only reads keeps the locks of its session. *)
LEMMA KeepLocks ==
    ASSUME TypeOK, LockInv, NEW q \in Sessions, NEW r, session' = [session EXCEPT ![q] = r],
           UNCHANGED connection, r.locks = session[q].locks, ApprovalHolds(r, connection)
    PROVE  LockInv'
<1>1. RowsFree(q, r.locks)
  BY DEF LockInv, RowsFree
<1>2. QED
  BY <1>1, LockStep

LEMMA GoLocks ==
    ASSUME TypeOK, LockInv, NEW q \in Sessions, NEW phase, Go(q, phase), UNCHANGED connection,
           ~Approving([session[q] EXCEPT !.phase = phase]) \/ Approving(session[q])
    PROVE  LockInv'
<1> DEFINE r == [session[q] EXCEPT !.phase = phase]
<1>1. session[q] \in SessionStates(clock)
  BY DEF TypeOK
<1>2. r.locks = session[q].locks /\ r.connection = session[q].connection
  BY <1>1 DEF SessionStates
<1>3. ApprovalHolds(session[q], connection)
  BY DEF LockInv
<1>4. ApprovalHolds(r, connection)
  BY <1>2, <1>3 DEF ApprovalHolds
<1>5. session' = [session EXCEPT ![q] = r]
  BY DEF Go
<1>6. QED
  BY <1>2, <1>4, <1>5, KeepLocks

LEMMA BeginLocks ==
    ASSUME TypeOK, LockInv, NEW q \in Sessions, NEW op, NEW o, NEW u, NEW i, NEW c,
           Begin(q, op, o, u, i, c)
    PROVE  LockInv'
<1> DEFINE r == Begun(op, "begun", clock, o, u, i, c, {})
<1>1. session' = [session EXCEPT ![q] = r] /\ UNCHANGED connection
  BY DEF Begin
<1>2. RowsFree(q, r.locks) /\ ApprovalHolds(r, connection')
  BY DEF RowsFree, ApprovalHolds, Approving, Begun
<1>3. QED
  BY <1>1, <1>2, LockStep

LEMMA StartLocks ==
    ASSUME TypeOK, LockInv, NEW q \in Sessions, Start(q)
    PROVE  LockInv'
<1>1. CASE \E o \in Owners : BeginInvite(q, o)
  BY <1>1, BeginLocks DEF BeginInvite
<1>2. CASE \E u \in Users, i \in Invitations : BeginRequest(q, u, i)
  BY <1>2, BeginLocks DEF BeginRequest
<1>3. CASE \E c \in Connections : BeginApprove(q, c)
  BY <1>3, BeginLocks DEF BeginApprove
<1>4. ASSUME NEW c \in Connections, LockRevoked(q, c)
      PROVE  LockInv'
  <2> DEFINE r == Begun("block", "revoked", 0, connection[c].owner, connection[c].user,
                        0, c, {c})
  <2>1. session' = [session EXCEPT ![q] = r] /\ UNCHANGED connection
    BY <1>4 DEF LockRevoked
  <2>2. RowsFree(q, r.locks) /\ ApprovalHolds(r, connection')
    BY <1>4 DEF LockRevoked, RowsFree, ApprovalHolds, Approving, Begun
  <2>3. QED
    BY <2>1, <2>2, LockStep
<1>5. QED
  BY <1>1, <1>2, <1>3, <1>4 DEF Start

(* A write to c, whose lock is free, ends the session. *)
LEMMA SetStateLocks ==
    ASSUME TypeOK, LockInv, NEW q \in Sessions, NEW c, NEW state, SetState(q, c, state)
    PROVE  LockInv'
<1>1. \A s \in Sessions \ {q} : c \notin session[s].locks
  BY DEF SetState, RowsFree
<1>2. \A d \in Connections : d # c => connection'[d] = connection[d]
  BY DEF SetState, TypeOK
<1>3. \A s \in Sessions : session[s].locks \subseteq Connections
  BY DEF TypeOK, SessionStates
<1>4. QED
  BY <1>1, <1>2, <1>3, EndLocks DEF SetState

LEMMA InsertLocks ==
    ASSUME TypeOK, LockInv, NEW q \in Sessions, NEW c \in Connections, InsertPending(q, c)
    PROVE  LockInv'
<1>1. CASE UNCHANGED connection
  BY <1>1, EndLocks DEF InsertPending
<1>2. CASE ~UNCHANGED connection
  <2>1. connection' = [d \in Connections |->
                         IF d = c THEN PendingRow(q)
                         ELSE IF d \in session[q].locks
                              THEN [connection[d] EXCEPT !.state = "revoked"]
                              ELSE connection[d]]
    BY <1>2 DEF InsertPending
  <2>2. connection[c].state = "none"
    BY DEF InsertPending, IsNext, Fresh, NoConnection
  <2> DEFINE r == Idle
  <2>3. session' = [session EXCEPT ![q] = r] /\ session \in [Sessions -> SessionStates(clock)]
    BY DEF InsertPending, End, TypeOK
  <2>4. ASSUME NEW s \in Sessions, NEW t \in Sessions, s # t
        PROVE  session'[s].locks \cap session'[t].locks = {}
    BY <2>3, <2>4 DEF LockInv, Idle, Begun
  <2>5. ASSUME NEW s \in Sessions
        PROVE  ApprovalHolds(session'[s], connection')
    <3>1. CASE s = q
      BY <2>3, <3>1 DEF ApprovalHolds, Approving, Idle, Begun
    <3>2. CASE s # q
      <4> DEFINE d == session[s].connection
      <4>1. session'[s] = session[s]
        BY <2>3, <3>2
      <4>2. SUFFICES ASSUME Approving(session[s])
                     PROVE  connection'[d].state = "pending" /\ d \in session[s].locks
        BY <4>1 DEF ApprovalHolds
      <4>3. d \in session[s].locks /\ connection[d].state = "pending"
        BY <4>2 DEF LockInv, ApprovalHolds
      <4>4. d \in Connections /\ d # c /\ d \notin session[q].locks
        BY <2>2, <2>3, <3>2, <4>3 DEF LockInv, SessionStates
      <4>5. QED
        BY <2>1, <4>3, <4>4
    <3>3. QED
      BY <3>1, <3>2
  <2>6. QED
    BY <2>4, <2>5 DEF LockInv
<1>3. QED
  BY <1>1, <1>2

LEMMA StatementLocks ==
    ASSUME TypeOK, LockInv, NEW q \in Sessions, Statement(q)
    PROVE  LockInv'
<1>0. session[q] \in SessionStates(clock)
  BY DEF TypeOK
<1>1. CASE CountRecent(q) \/ LockInvitation(q) \/ CountLive(q) \/ CheckActive(q)
  <2>1. /\ ~Approving([session[q] EXCEPT !.phase = "mayInvite"])
        /\ ~Approving([session[q] EXCEPT !.phase = "invited"])
        /\ ~Approving([session[q] EXCEPT !.phase = "counted"])
    BY <1>0 DEF Approving, SessionStates
  <2>2. CheckActive(q) => Approving(session[q])
    BY DEF CheckActive, Approving
  <2>3. QED
    BY <1>1, <2>1, <2>2, GoLocks, EndLocks DEF CountRecent, LockInvitation, CountLive, CheckActive
<1>2. CASE \E i \in Invitations : Replace(q, i)
  BY <1>2, EndLocks DEF Replace
<1>3. CASE FindLive(q)
  <2> DEFINE r == [session[q] EXCEPT !.phase = "found",
                                     !.found = LiveRows(session[q].owner, session[q].user)]
  <2>1. r.locks = session[q].locks /\ ~Approving(r)
    BY <1>0 DEF SessionStates, Approving
  <2>2. QED
    BY ZenonT(60), <1>3, <2>1, KeepLocks DEF FindLive, ApprovalHolds
<1>4. CASE LockExisting(q)
  <2>1. CASE End(q)
    BY <1>4, <2>1, EndLocks DEF LockExisting
  <2>2. CASE ~End(q)
    <3> DEFINE r == [session[q] EXCEPT !.phase = "checked", !.found = {}, !.locks = Existing(q)]
    <3>1. session' = [session EXCEPT ![q] = r] /\ UNCHANGED connection
      BY <1>4, <2>2 DEF LockExisting
    <3>2. r.locks = Existing(q) /\ ~Approving(r)
      BY <1>0, <1>4 DEF SessionStates, Approving, LockExisting
    <3>3. RowsFree(q, r.locks)
      BY <1>4, <3>2 DEF LockExisting, RowsFree, Existing
    <3>4. QED
      BY <3>1, <3>2, <3>3, LockStep DEF ApprovalHolds
  <2>3. QED
    BY <2>1, <2>2
<1>5. CASE \E c \in Connections : InsertPending(q, c)
  BY <1>5, InsertLocks
<1>6. CASE LockPending(q)
  <2>1. CASE End(q)
    BY <1>6, <2>1, EndLocks DEF LockPending
  <2>2. CASE ~End(q)
    <3> DEFINE c == session[q].connection
               r == [session[q] EXCEPT !.phase = "locked", !.locks = Locked(c)]
    <3>1. session' = [session EXCEPT ![q] = r] /\ UNCHANGED connection
      BY <1>6, <2>2 DEF LockPending
    <3>2. r.locks = {c} /\ r.connection = c /\ connection[c].state = "pending"
      BY <1>0, <1>6, <2>2 DEF SessionStates, LockPending, Locked
    <3>3. RowsFree(q, r.locks) /\ ApprovalHolds(r, connection')
      BY <1>6, <3>1, <3>2 DEF LockPending, ApprovalHolds
    <3>4. QED
      BY <3>1, <3>3, LockStep
  <2>3. QED
    BY <2>1, <2>2
<1>7. CASE Approve(q) \/ Block(q)
  BY <1>7, SetStateLocks DEF Approve, Block
<1>8. CASE LookForLive(q)
  <2>1. CASE End(q)
    BY <1>8, <2>1, EndLocks DEF LookForLive
  <2>2. CASE ~End(q)
    <3> DEFINE r == [session[q] EXCEPT !.phase = "checked", !.found = {}]
    <3>1. session' = [session EXCEPT ![q] = r] /\ UNCHANGED connection
      BY <1>8, <2>2 DEF LookForLive
    <3>2. r.locks = session[q].locks /\ ~Approving(r)
      BY <1>0, <1>8 DEF SessionStates, Approving, LookForLive
    <3>3. QED
      BY <3>1, <3>2, KeepLocks DEF ApprovalHolds
  <2>3. QED
    BY <2>1, <2>2
<1>9. QED
  BY <1>1, <1>2, <1>3, <1>4, <1>5, <1>6, <1>7, <1>8 DEF Statement

LEMMA LockInvStep == TypeOK /\ LockInv /\ [Next]_vars => LockInv'
<1> SUFFICES ASSUME TypeOK, LockInv, [Next]_vars
             PROVE  LockInv'
  OBVIOUS
<1>1. CASE UNCHANGED <<session, connection>>
  BY <1>1 DEF LockInv, ApprovalHolds, Approving
<1>2. CASE \E s \in Sessions : Start(s) \/ Statement(s)
  BY <1>2, StartLocks, StatementLocks
<1>3. CASE \E s \in Sessions : Abort(s)
  BY <1>3, EndLocks DEF Abort
<1>4. ASSUME NEW c \in Connections, NEW state \in States, CloseConnection(c, state)
      PROVE  LockInv'
  <2>1. UNCHANGED session /\ \A s \in Sessions : c \notin session[s].locks
    BY <1>4 DEF CloseConnection
  <2>2. \A d \in Connections : d # c => connection'[d] = connection[d]
    BY <1>4 DEF CloseConnection, TypeOK
  <2>3. \A s \in Sessions : session[s].locks \subseteq Connections
    BY DEF TypeOK, SessionStates
  <2>4. QED
    BY <2>1, <2>2, <2>3 DEF LockInv, ApprovalHolds
<1>5. CASE (\E i \in Invitations : CancelInvitation(i)) \/ Tick \/ UNCHANGED vars
  BY <1>1, <1>5 DEF CancelInvitation, Tick, vars
<1>6. QED
  BY <1>2, <1>3, <1>4, <1>5, EndpointsClose DEF Next

LEMMA LockInvInit == Init => LockInv
  BY DEF Init, LockInv, ApprovalHolds, Approving, Idle, Begun

(* The step of ClosedStaysClosed. *)
StillClosed ==
    \A c \in Connections :
        connection[c].state \in {"revoked", "blocked"} =>
            connection'[c].state \in {"revoked", "blocked"}

(* Writing state to c leaves the other rows. *)
LEMMA WriteClosed ==
    ASSUME TypeOK, NEW c, NEW state, connection' = [connection EXCEPT ![c].state = state],
           state \in {"revoked", "blocked"} \/ connection[c].state = "pending"
    PROVE  StillClosed
<1> SUFFICES ASSUME NEW d \in Connections, connection[d].state \in {"revoked", "blocked"}
             PROVE  connection'[d].state \in {"revoked", "blocked"}
  BY DEF StillClosed
<1>1. connection \in [Connections -> ConnectionRows(clock)]
  BY DEF TypeOK
<1>2. CASE d = c
  BY <1>1, <1>2 DEF ConnectionRows
<1>3. CASE d # c
  BY <1>1, <1>3
<1>4. QED
  BY <1>2, <1>3

LEMMA ClosedStep == TypeOK /\ LockInv /\ [Next]_vars => StillClosed
<1> SUFFICES ASSUME TypeOK, LockInv, [Next]_vars
             PROVE  StillClosed
  OBVIOUS
<1>1. CASE UNCHANGED connection
  BY <1>1 DEF StillClosed
<1>2. CASE \E s \in Sessions : Start(s) \/ Abort(s)
  BY <1>1, <1>2 DEF Start, BeginInvite, BeginRequest, BeginApprove, LockRevoked, Begin, Abort
<1>3. ASSUME NEW s \in Sessions, Statement(s)
      PROVE  StillClosed
  <2>1. CASE Approve(s)
    <3>1. connection[session[s].connection].state = "pending"
      BY <2>1 DEF Approve, LockInv, ApprovalHolds, Approving
    <3>2. QED
      BY <1>1, <2>1, <3>1, WriteClosed DEF Approve, SetState
  <2>2. ASSUME NEW c \in Connections, InsertPending(s, c)
        PROVE  StillClosed
    <3>1. CASE ~UNCHANGED connection
      <4>1. \A d \in Connections : d # c =>
              connection'[d] \in {connection[d], [connection[d] EXCEPT !.state = "revoked"]}
        BY <2>2, <3>1 DEF InsertPending
      <4>2. connection[c].state = "none"
        BY <2>2 DEF InsertPending, IsNext, Fresh, NoConnection
      <4>3. \A d \in Connections : [connection[d] EXCEPT !.state = "revoked"].state = "revoked"
        BY DEF TypeOK, ConnectionRows
      <4>4. QED
        BY <4>1, <4>2, <4>3 DEF StillClosed
    <3>2. QED
      BY <1>1, <3>1
  <2>3. CASE Block(s)
    BY <1>1, <2>3, WriteClosed DEF Block, SetState
  <2>4. CASE \/ CountRecent(s) \/ \E i \in Invitations : Replace(s, i)
             \/ LockInvitation(s) \/ FindLive(s) \/ LockExisting(s) \/ CountLive(s)
             \/ LockPending(s) \/ CheckActive(s) \/ LookForLive(s)
    BY <1>1, <2>4 DEF CountRecent, Replace, LockInvitation, FindLive, LockExisting,
                      CountLive, LockPending, CheckActive, LookForLive
  <2>5. QED
    BY <1>3, <2>1, <2>2, <2>3, <2>4 DEF Statement
<1>4. CASE \E c \in Connections :
             RevokeConnection(c) \/ BlockConnection(c) \/ UnblockConnection(c)
  <2>1. PICK c \in Connections, state \in States : CloseConnection(c, state)
    BY <1>4, EndpointsClose
  <2>2. state \in {"revoked", "blocked"}
    BY <2>1 DEF CloseConnection, Closes
  <2>3. QED
    BY <2>1, <2>2, WriteClosed DEF CloseConnection
<1>5. CASE (\E i \in Invitations : CancelInvitation(i)) \/ Tick \/ UNCHANGED vars
  BY <1>1, <1>5 DEF CancelInvitation, Tick, vars
<1>6. QED
  BY <1>2, <1>3, <1>4, <1>5 DEF Next

(* A revoked or blocked connection is never revived, however approvals,       *)
(* requests and closings interleave: an approval keeps the lock of its        *)
(* pending row until it commits.                                              *)
THEOREM ClosedCorrect == Spec => ClosedStaysClosed
<1>1. TypeOK /\ LockInv /\ [Next]_vars => LockInv'
  BY LockInvStep
<1>2. TypeOK /\ LockInv /\ [Next]_vars => [StillClosed]_vars
  BY ClosedStep
<1>3. QED
  BY <1>1, <1>2, LockInvInit, TypeCorrect, PTL DEF Spec, ClosedStaysClosed, StillClosed

-----------------------------------------------------------------------------
(* Counting rows *)

(* Ids are an initial segment of the numbers.                               *)
LEMMA RowCount ==
    ASSUME NEW n \in Nat, NEW T \in SUBSET (1..n), NEW S \in SUBSET T
    PROVE  /\ IsFiniteSet(S) /\ IsFiniteSet(T)
           /\ Cardinality(S) \in Nat /\ Cardinality(T) \in Nat
           /\ Cardinality(S) <= Cardinality(T)
<1>1. IsFiniteSet(1..n)
  BY FS_Interval
<1>2. IsFiniteSet(T)
  BY <1>1, FS_Subset
<1>3. IsFiniteSet(S) /\ Cardinality(S) <= Cardinality(T)
  BY <1>2, FS_Subset
<1>4. QED
  BY <1>2, <1>3, FS_CardinalityType

(* One row more. *)
LEMMA RowAdded ==
    ASSUME NEW n \in Nat, NEW T \in SUBSET (1..n), NEW x \in 1..n, NEW S \in SUBSET (T \cup {x})
    PROVE  Cardinality(S) <= Cardinality(T) + 1
<1> DEFINE U == T \cup {x}
<1>1. U \in SUBSET (1..n) /\ S \in SUBSET U
  OBVIOUS
<1> HIDE DEF U
<1>2. Cardinality(S) \in Nat /\ Cardinality(U) \in Nat /\ Cardinality(S) <= Cardinality(U)
  BY <1>1, RowCount
<1>3. IsFiniteSet(T) /\ Cardinality(T) \in Nat
  BY RowCount
<1>4. Cardinality(U) <= Cardinality(T) + 1
  <2>1. CASE x \in T
    <3>1. U = T
      BY <2>1 DEF U
    <3> QED
      BY <1>3, <3>1
  <2>2. CASE x \notin T
    <3>1. Cardinality(T \cup {x}) = Cardinality(T) + 1
      BY <1>3, <2>2, FS_AddElement
    <3> QED
      BY <1>3, <3>1 DEF U
  <2> QED
    BY <2>1, <2>2
<1>5. QED
  BY <1>2, <1>3, <1>4

(* At most one row. *)
LEMMA OneRow ==
    ASSUME NEW n \in Nat, NEW S \in SUBSET (1..n), \A x, y \in S : x = y
    PROVE  Cardinality(S) \in Nat /\ Cardinality(S) <= 1
<1>1. Cardinality(S) \in Nat
  BY RowCount
<1>2. CASE S = {}
  BY <1>2, FS_EmptySet
<1>3. CASE S # {}
  <2>1. PICK x \in S : TRUE
    BY <1>3
  <2>2. S = {x}
    BY <2>1
  <2>3. Cardinality({x}) = 1
    BY FS_Singleton
  <2>4. QED
    BY <2>2, <2>3
<1>4. QED
  BY <1>1, <1>2, <1>3

-----------------------------------------------------------------------------
(* What a session does to itself *)

(* It goes on at phase, on behalf of whom it began. *)
Proceeds(s, phase) ==
    /\ session'[s].phase = phase
    /\ session'[s].op = session[s].op /\ session'[s].owner = session[s].owner
    /\ session'[s].now = session[s].now /\ session'[s].invitation = session[s].invitation

(* The other sessions stay where they are. *)
OthersWait(s) == \A q \in Sessions \ {s} : session'[q] = session[q]

(* What ending a session leaves of it. *)
LEMMA EndSession ==
    ASSUME TypeOK, NEW s \in Sessions, End(s)
    PROVE  OthersWait(s) /\ session'[s] = Idle
  BY DEF End, TypeOK, OthersWait

(* What moving it to its next phase leaves. *)
LEMMA GoSession ==
    ASSUME TypeOK, NEW s \in Sessions, NEW phase, Go(s, phase)
    PROVE  OthersWait(s) /\ Proceeds(s, phase)
<1>1. session \in [Sessions -> SessionStates(clock)] /\ session[s] \in SessionStates(clock)
  BY DEF TypeOK
<1> DEFINE r == [session[s] EXCEPT !.phase = phase]
<1>2. r.phase = phase /\ r.op = session[s].op /\ r.owner = session[s].owner
      /\ r.now = session[s].now /\ r.invitation = session[s].invitation
  BY <1>1 DEF SessionStates
<1>3. session' = [session EXCEPT ![s] = r]
  BY DEF Go
<1> HIDE DEF r
<1>4. QED
  BY <1>1, <1>2, <1>3 DEF OthersWait, Proceeds

(* The phases of a session, and the statements that end them.               *)
LEMMA StatementSession ==
    ASSUME TypeOK, NEW s \in Sessions, Statement(s)
    PROVE  /\ OthersWait(s)
           /\ \/ session'[s] = Idle
              \/ CountRecent(s) /\ Go(s, "mayInvite")
              \/ LockInvitation(s) /\ Go(s, "invited")
              \/ FindLive(s) /\ Proceeds(s, "found")
              \/ session[s].phase = "found" /\ Proceeds(s, "checked")
              \/ CountLive(s) /\ Go(s, "counted")
              \/ LockPending(s) /\ session[s].op = "approve" /\ Proceeds(s, "locked")
              \/ CheckActive(s) /\ session[s].op = "approve" /\ Go(s, "checked")
<1>0. session \in [Sessions -> SessionStates(clock)] /\ session[s] \in SessionStates(clock)
  BY DEF TypeOK
<1>1. CASE End(s)
  BY <1>1, EndSession
<1>2. CASE FindLive(s)
  <2> DEFINE r == [session[s] EXCEPT !.phase = "found",
                                     !.found = LiveRows(session[s].owner, session[s].user)]
  <2>1. r.phase = "found" /\ r.op = session[s].op /\ r.owner = session[s].owner
        /\ r.now = session[s].now /\ r.invitation = session[s].invitation
    BY <1>0 DEF SessionStates
  <2>2. session' = [session EXCEPT ![s] = r]
    BY <1>2 DEF FindLive
  <2> HIDE DEF r
  <2>3. QED
    BY <1>0, <1>2, <2>1, <2>2 DEF OthersWait, Proceeds
<1>3. CASE LockExisting(s) /\ ~End(s)
  <2> DEFINE r == [session[s] EXCEPT !.phase = "checked", !.found = {}, !.locks = Existing(s)]
  <2>1. r.phase = "checked" /\ r.op = session[s].op /\ r.owner = session[s].owner
        /\ r.now = session[s].now /\ r.invitation = session[s].invitation
    BY <1>0 DEF SessionStates
  <2>2. session' = [session EXCEPT ![s] = r] /\ session[s].phase = "found"
    BY <1>3 DEF LockExisting
  <2> HIDE DEF r
  <2>3. QED
    BY <1>0, <2>1, <2>2 DEF OthersWait, Proceeds
<1>4. CASE LookForLive(s) /\ ~End(s)
  <2> DEFINE r == [session[s] EXCEPT !.phase = "checked", !.found = {}]
  <2>1. r.phase = "checked" /\ r.op = session[s].op /\ r.owner = session[s].owner
        /\ r.now = session[s].now /\ r.invitation = session[s].invitation
    BY <1>0 DEF SessionStates
  <2>2. session' = [session EXCEPT ![s] = r] /\ session[s].phase = "found"
    BY <1>4 DEF LookForLive
  <2> HIDE DEF r
  <2>3. QED
    BY <1>0, <2>1, <2>2 DEF OthersWait, Proceeds
<1>5. CASE LockPending(s) /\ ~End(s)
  <2> DEFINE r == [session[s] EXCEPT !.phase = "locked", !.locks = Locked(session[s].connection)]
  <2>1. r.phase = "locked" /\ r.op = session[s].op /\ r.owner = session[s].owner
        /\ r.now = session[s].now /\ r.invitation = session[s].invitation
    BY <1>0 DEF SessionStates
  <2>2. session' = [session EXCEPT ![s] = r] /\ session[s].op = "approve"
    BY <1>5 DEF LockPending
  <2> HIDE DEF r
  <2>3. QED
    BY <1>0, <1>5, <2>1, <2>2 DEF OthersWait, Proceeds
<1>6. CASE CountRecent(s) \/ LockInvitation(s) \/ CountLive(s) \/ CheckActive(s)
  BY <1>1, <1>6, GoSession DEF CountRecent, LockInvitation, CountLive, CheckActive
<1>7. (\E i \in Invitations : Replace(s, i)) \/ (\E c \in Connections : InsertPending(s, c))
      \/ Approve(s) \/ Block(s) => End(s)
  BY DEF Replace, InsertPending, Approve, Block, SetState
<1>8. QED
  BY <1>1, <1>2, <1>3, <1>4, <1>5, <1>6, <1>7 DEF Statement

(* How a session begins. *)
LEMMA StartSession ==
    ASSUME TypeOK, NEW s \in Sessions, Start(s)
    PROVE  /\ OthersWait(s) /\ UNCHANGED <<clock, invitation, connection, source, late>>
           /\ session'[s].op = "request" =>
                /\ session'[s].phase = "begun" /\ session'[s].owner \in Owners
                /\ invitation[session'[s].invitation].owner = session'[s].owner
           /\ session'[s].phase \in {"begun", "revoked"}
<1>0. session \in [Sessions -> SessionStates(clock)]
  BY DEF TypeOK
<1>1. ASSUME NEW o \in Owners, BeginInvite(s, o)
      PROVE  session'[s].op = "invite" /\ session'[s].phase = "begun" /\ OthersWait(s)
  BY <1>0, <1>1 DEF BeginInvite, Begin, Begun, OthersWait
<1>2. ASSUME NEW u \in Users, NEW i \in Invitations, BeginRequest(s, u, i)
      PROVE  /\ session'[s].phase = "begun" /\ session'[s].owner \in Owners
             /\ invitation[session'[s].invitation].owner = session'[s].owner /\ OthersWait(s)
  BY <1>0, <1>2 DEF BeginRequest, Begin, Begun, OthersWait
<1>3. ASSUME NEW c \in Connections, BeginApprove(s, c)
      PROVE  session'[s].op = "approve" /\ session'[s].phase = "begun" /\ OthersWait(s)
  BY <1>0, <1>3 DEF BeginApprove, Begin, Begun, OthersWait
<1>4. ASSUME NEW c \in Connections, LockRevoked(s, c)
      PROVE  session'[s].op = "block" /\ session'[s].phase = "revoked" /\ OthersWait(s)
  BY <1>0, <1>4 DEF LockRevoked, Begun, OthersWait
<1>5. UNCHANGED <<clock, invitation, connection, source, late>>
  BY DEF Start, BeginInvite, BeginRequest, BeginApprove, LockRevoked, Begin
<1>6. QED
  BY <1>1, <1>2, <1>3, <1>4, <1>5 DEF Start

-----------------------------------------------------------------------------
(* The hourly limit of invitations *)

(* The invitations an owner has created since then, and up to t. *)
MadeSince(table, o, since) ==
    {i \in Invitations : table[i].owner = o /\ table[i].createdAt >= since}

(* Those of them created at t or earlier. *)
MadeIn(table, o, since, t) == {i \in MadeSince(table, o, since) : table[i].createdAt <= t}

(* pg_advisory_xact_lock admits one creation of an owner at a time. *)
OneInvites ==
    \A s, q \in Sessions :
        /\ session[s].phase = "mayInvite" /\ session[q].phase = "mayInvite"
        /\ session[s].owner = session[q].owner
        => s = q

(* What a session counted when it was let through still holds. *)
InvitesCounted ==
    \A s \in Sessions : session[s].phase = "mayInvite" =>
        Cardinality(MadeSince(invitation, session[s].owner, session[s].now - InvitationWindow))
            < InvitationLimit

(* The limit itself, for every hour. *)
RateKept ==
    \A o \in Owners, t \in 0..MaxTime :
        Cardinality(MadeIn(invitation, o, t - InvitationWindow, t)) <= InvitationLimit

(* What the hourly limit rests on. *)
InviteInv == OneInvites /\ InvitesCounted /\ RateKept

(* Neither new invitations nor sessions let through. *)
LEMMA InviteCalm ==
    ASSUME TypeOK, InviteInv,
           \A i \in Invitations : /\ invitation'[i].owner = invitation[i].owner
                                  /\ invitation'[i].createdAt = invitation[i].createdAt,
           \A s \in Sessions : session'[s] = session[s] \/ session'[s].phase # "mayInvite"
    PROVE  InviteInv'
<1>1. \A o, t : MadeSince(invitation', o, t) = MadeSince(invitation, o, t)
  BY DEF MadeSince
<1>2. \A o, t, u : MadeIn(invitation', o, t, u) = MadeIn(invitation, o, t, u)
  BY <1>1 DEF MadeIn, MadeSince
<1>3. OneInvites'
  BY DEF InviteInv, OneInvites
<1>4. InvitesCounted'
  <2> SUFFICES ASSUME NEW s \in Sessions, session'[s].phase = "mayInvite"
               PROVE  Cardinality(MadeSince(invitation', session'[s].owner,
                                            session'[s].now - InvitationWindow))
                          < InvitationLimit
    BY DEF InvitesCounted
  <2>1. session'[s] = session[s]
    OBVIOUS
  <2>2. QED
    BY <1>1, <2>1 DEF InviteInv, InvitesCounted
<1>5. RateKept'
  BY <1>2 DEF InviteInv, RateKept
<1>6. QED
  BY <1>3, <1>4, <1>5 DEF InviteInv

(* A session is let through when it has counted, alone. *)
LEMMA CountRecentInvite ==
    ASSUME TypeOK, InviteInv, NEW s \in Sessions, CountRecent(s), Go(s, "mayInvite")
    PROVE  InviteInv'
<1>1. OthersWait(s) /\ Proceeds(s, "mayInvite")
  BY GoSession
<1>2. UNCHANGED invitation /\ OwnerFree(s, session[s].owner) /\ session[s].phase = "begun"
  BY DEF CountRecent
<1>3. ~End(s)
  BY <1>1, EndSession DEF Proceeds, Idle, Begun
<1>4. Cardinality(MadeSince(invitation, session[s].owner, session[s].now - InvitationWindow))
          < InvitationLimit
  BY <1>3 DEF CountRecent, Recent, MadeSince
<1>5. OneInvites'
  <2> SUFFICES ASSUME NEW p \in Sessions, NEW q \in Sessions,
                      session'[p].phase = "mayInvite", session'[q].phase = "mayInvite",
                      session'[p].owner = session'[q].owner
               PROVE  p = q
    BY DEF OneInvites
  <2>1. \A r \in Sessions \ {s} :
          ~(session'[r].phase = "mayInvite" /\ session'[r].owner = session[s].owner)
    BY <1>1, <1>2 DEF OwnerFree, OthersWait
  <2>2. QED
    BY <1>1, <2>1 DEF InviteInv, OneInvites, OthersWait, Proceeds
<1>6. InvitesCounted'
  BY <1>1, <1>2, <1>4 DEF InviteInv, InvitesCounted, OthersWait, Proceeds
<1>7. RateKept'
  BY <1>2 DEF InviteInv, RateKept
<1>8. QED
  BY <1>5, <1>6, <1>7 DEF InviteInv

(* What replace_invitation leaves of the rows and of its session. *)
LEMMA ReplaceRows ==
    ASSUME TypeOK, NEW s \in Sessions, NEW i \in Invitations, Replace(s, i)
    PROVE  /\ invitation[i] = NoInvitation /\ session[s].phase = "mayInvite"
           /\ OthersWait(s) /\ session'[s] = Idle
           /\ invitation'[i].owner = session[s].owner /\ invitation'[i].createdAt = session[s].now
           /\ ~invitation'[i].used /\ ~invitation'[i].cancelled
           /\ \A j \in Invitations \ {i} :
                /\ invitation'[j].owner = invitation[j].owner
                /\ invitation'[j].createdAt = invitation[j].createdAt
                /\ invitation'[j].used = invitation[j].used
                /\ invitation'[j].cancelled = (invitation[j].cancelled \/ j \in Replaced(session[s].owner))
<1> DEFINE new == [NoInvitation EXCEPT !.owner = session[s].owner, !.createdAt = session[s].now]
           old(j) == [invitation[j] EXCEPT !.cancelled = @ \/ j \in Replaced(session[s].owner)]
<1>1. invitation' = [j \in Invitations |-> IF j = i THEN new ELSE old(j)]
  BY DEF Replace
<1>2. new.owner = session[s].owner /\ new.createdAt = session[s].now /\ ~new.used /\ ~new.cancelled
  BY DEF NoInvitation
<1>3. ASSUME NEW j \in Invitations
      PROVE  /\ old(j).owner = invitation[j].owner /\ old(j).createdAt = invitation[j].createdAt
             /\ old(j).used = invitation[j].used
             /\ old(j).cancelled = (invitation[j].cancelled \/ j \in Replaced(session[s].owner))
  BY DEF TypeOK, InvitationRows
<1> HIDE DEF new, old
<1>4. /\ invitation'[i] = new
      /\ \A j \in Invitations \ {i} : invitation'[j] = old(j)
  BY <1>1
<1>5. invitation[i] = NoInvitation /\ session[s].phase = "mayInvite" /\ OthersWait(s) /\ session'[s] = Idle
  BY EndSession DEF Replace, IsNext, Fresh
<1>6. QED
  BY <1>2, <1>3, <1>4, <1>5

(* The invitation created is one more than its session has counted, and     *)
(* every hour it falls into is over when that of the count begins, or later. *)
LEMMA ReplaceInvite ==
    ASSUME TypeOK, InviteInv, NEW s \in Sessions, NEW i \in Invitations, Replace(s, i)
    PROVE  InviteInv'
<1> DEFINE o == session[s].owner
           now == session[s].now
<1>1. /\ session[s].phase = "mayInvite" /\ OthersWait(s) /\ session'[s].phase = "idle"
      /\ invitation'[i].owner = o /\ invitation'[i].createdAt = now
      /\ \A j \in Invitations \ {i} : /\ invitation'[j].owner = invitation[j].owner
                                      /\ invitation'[j].createdAt = invitation[j].createdAt
  BY ReplaceRows DEF Idle, Begun
<1>2. /\ now \in Int /\ InvitationWindow \in Int /\ MaxTime \in Nat /\ MaxInvitations \in Nat
      /\ InvitationLimit \in Nat
      /\ \A j \in Invitations : invitation[j].createdAt \in Int
  BY LimitAssumption DEF TypeOK, SessionStates, InvitationRows
<1>3. \A x, t : MadeSince(invitation, x, t) \in SUBSET (1..MaxInvitations)
  BY DEF MadeSince, Invitations
<1>4. \A x, t, u : MadeIn(invitation, x, t, u) \in SUBSET (1..MaxInvitations)
  BY <1>3 DEF MadeIn
<1>5. OneInvites'
  BY <1>1 DEF InviteInv, OneInvites, OthersWait
<1>6. InvitesCounted'
  <2> SUFFICES ASSUME NEW q \in Sessions, session'[q].phase = "mayInvite"
               PROVE  Cardinality(MadeSince(invitation', session'[q].owner,
                                            session'[q].now - InvitationWindow))
                          < InvitationLimit
    BY DEF InvitesCounted
  <2>1. q # s /\ session'[q] = session[q] /\ session[q].owner # o
    BY <1>1 DEF OthersWait, InviteInv, OneInvites
  <2> DEFINE t == session[q].now - InvitationWindow
             S == MadeSince(invitation', session[q].owner, t)
             T == MadeSince(invitation, session[q].owner, t)
  <2>2. S \in SUBSET T
    BY <1>1, <2>1 DEF MadeSince
  <2>3. Cardinality(T) < InvitationLimit
    BY <2>1 DEF InviteInv, InvitesCounted
  <2>4. T \in SUBSET (1..MaxInvitations)
    BY <1>3
  <2> HIDE DEF S, T
  <2>5. Cardinality(S) \in Nat /\ Cardinality(T) \in Nat /\ Cardinality(S) <= Cardinality(T)
    BY <1>2, <2>2, <2>4, RowCount
  <2>6. Cardinality(S) < InvitationLimit
    BY <1>2, <2>3, <2>5
  <2>7. QED
    BY <2>1, <2>6 DEF S
<1>7. RateKept'
  <2> SUFFICES ASSUME NEW x \in Owners, NEW t \in 0..MaxTime
               PROVE  Cardinality(MadeIn(invitation', x, t - InvitationWindow, t)) <= InvitationLimit
    BY DEF RateKept
  <2> DEFINE since == t - InvitationWindow
             S == MadeIn(invitation', x, since, t)
             T == MadeIn(invitation, x, since, t)
  <2>1. T \in SUBSET (1..MaxInvitations) /\ Cardinality(T) <= InvitationLimit
    BY <1>4 DEF InviteInv, RateKept
  <2>2. S \in SUBSET (T \cup {i})
    BY <1>1 DEF MadeIn, MadeSince
  <2>3. CASE i \notin S
    <3>1. S \in SUBSET T
      BY <2>2, <2>3
    <3> HIDE DEF S, T
    <3>2. Cardinality(S) \in Nat /\ Cardinality(T) \in Nat /\ Cardinality(S) <= Cardinality(T)
      BY <1>2, <2>1, <3>1, RowCount
    <3>3. QED
      BY <1>2, <2>1, <3>2 DEF S
  <2>4. CASE i \in S
    <3>1. x = o /\ now <= t
      BY <1>1, <2>4 DEF MadeIn, MadeSince
    <3> DEFINE R == MadeSince(invitation, o, now - InvitationWindow)
    <3>2. T \in SUBSET R
      BY <1>2, <3>1 DEF MadeIn, MadeSince
    <3>3. Cardinality(R) < InvitationLimit /\ R \in SUBSET (1..MaxInvitations)
      BY <1>1, <1>3 DEF InviteInv, InvitesCounted
    <3>4. i \in 1..MaxInvitations
      BY DEF Invitations
    <3> HIDE DEF R, S, T
    <3>5. Cardinality(R) \in Nat /\ Cardinality(T) \in Nat /\ Cardinality(T) <= Cardinality(R)
      BY <1>2, <3>2, <3>3, RowCount
    <3>6. Cardinality(S) <= Cardinality(T) + 1
      BY <1>2, <2>1, <2>2, <3>4, RowAdded
    <3>7. S \in SUBSET (1..MaxInvitations)
      BY <2>1, <2>2, <3>4
    <3>8. Cardinality(S) \in Nat
      BY <1>2, <3>7, RowCount
    <3>9. Cardinality(S) <= InvitationLimit
      BY <1>2, <3>3, <3>5, <3>6, <3>8
    <3>10. QED
      BY <3>9 DEF S
  <2>5. QED
    BY <2>3, <2>4
<1>8. QED
  BY <1>5, <1>6, <1>7 DEF InviteInv

(* The other writes leave owner and time of every invitation.               *)
LEMMA OtherRows ==
    ASSUME TypeOK,
           \/ UNCHANGED invitation
           \/ \E i \in Invitations : CancelInvitation(i)
           \/ \E s \in Sessions, c \in Connections : InsertPending(s, c)
    PROVE  \A j \in Invitations : /\ invitation'[j].owner = invitation[j].owner
                                  /\ invitation'[j].createdAt = invitation[j].createdAt
<1>1. invitation \in [Invitations -> InvitationRows(clock)]
  BY DEF TypeOK
<1>2. ASSUME NEW i \in Invitations, CancelInvitation(i), NEW j \in Invitations
      PROVE  /\ invitation'[j].owner = invitation[j].owner
             /\ invitation'[j].createdAt = invitation[j].createdAt
  BY <1>1, <1>2 DEF CancelInvitation, InvitationRows
<1>3. ASSUME NEW s \in Sessions, NEW c \in Connections, InsertPending(s, c), NEW j \in Invitations
      PROVE  /\ invitation'[j].owner = invitation[j].owner
             /\ invitation'[j].createdAt = invitation[j].createdAt
  <2>1. invitation' = invitation \/ invitation' = Consumed(session[s].invitation)
    BY <1>3 DEF InsertPending
  <2>2. QED
    BY <1>1, <2>1 DEF Consumed, InvitationRows
<1>4. QED
  BY <1>2, <1>3

(* Every statement but the three that write them leaves the invitations.    *)
LEMMA InvitationWrites ==
    ASSUME NEW s \in Sessions, Statement(s)
    PROVE  \/ \E i \in Invitations : Replace(s, i)
           \/ \E c \in Connections : InsertPending(s, c)
           \/ UNCHANGED <<invitation, source>>
  BY DEF Statement, CountRecent, LockInvitation, FindLive, LockExisting, CountLive, LockPending,
     CheckActive, Approve, LookForLive, Block, SetState

(* Every step keeps the hourly limit. *)
LEMMA InviteStep == TypeOK /\ InviteInv /\ [Next]_vars => InviteInv'
<1> SUFFICES ASSUME TypeOK, InviteInv, [Next]_vars PROVE InviteInv'
  OBVIOUS
<1>1. ASSUME UNCHANGED session,
             UNCHANGED invitation \/ \E i \in Invitations : CancelInvitation(i)
      PROVE  InviteInv'
  BY <1>1, OtherRows, InviteCalm
<1>2. ASSUME NEW s \in Sessions, Start(s)
      PROVE  InviteInv'
  BY <1>2, StartSession, OtherRows, InviteCalm DEF OthersWait
<1>3. ASSUME NEW s \in Sessions, Abort(s)
      PROVE  InviteInv'
  BY <1>3, EndSession, OtherRows, InviteCalm DEF Abort, OthersWait, Idle, Begun
<1>4. ASSUME NEW s \in Sessions, Statement(s)
      PROVE  InviteInv'
  <2>1. CASE \E i \in Invitations : Replace(s, i)
    BY <2>1, ReplaceInvite
  <2>2. CASE CountRecent(s) /\ Go(s, "mayInvite")
    BY <2>2, CountRecentInvite
  <2>3. CASE ~(\E i \in Invitations : Replace(s, i)) /\ ~(CountRecent(s) /\ Go(s, "mayInvite"))
    <3>1. \A q \in Sessions : session'[q] = session[q] \/ session'[q].phase # "mayInvite"
      BY <1>4, <2>3, StatementSession, GoSession DEF OthersWait, Proceeds, Idle, Begun
    <3>2. QED
      BY <1>4, <2>3, <3>1, InvitationWrites, OtherRows, InviteCalm
  <2>4. QED
    BY <2>1, <2>2, <2>3
<1>5. ASSUME NEW c \in Connections,
             RevokeConnection(c) \/ BlockConnection(c) \/ UnblockConnection(c)
      PROVE  InviteInv'
  BY <1>1, <1>5, EndpointsClose DEF CloseConnection
<1>6. ASSUME NEW i \in Invitations, CancelInvitation(i)
      PROVE  InviteInv'
  BY <1>1, <1>6 DEF CancelInvitation
<1>7. CASE Tick \/ UNCHANGED vars
  BY <1>1, <1>7 DEF Tick, vars
<1>8. QED
  BY <1>2, <1>3, <1>4, <1>5, <1>6, <1>7 DEF Next

-----------------------------------------------------------------------------
(* One open invitation, and one request of each                             *)

(* An invitation that is neither used nor cancelled. *)
Open(table, i) == ~table[i].used /\ ~table[i].cancelled

(* A new invitation replaces the open ones of its owner. *)
OneOpen ==
    \A i, j \in Invitations :
        /\ invitation[i].owner = invitation[j].owner /\ invitation[i].owner \in Owners
        /\ Open(invitation, i) /\ Open(invitation, j)
        => i = j

(* A request consumes its invitation, and a consumed one is never cancelled. *)
SourceUsed ==
    \A c \in Connections : source[c] # 0 =>
        invitation[source[c]].used /\ ~invitation[source[c]].cancelled

(* No two requests have consumed the same one. *)
SourceOnce == \A c, d \in Connections : source[c] # 0 /\ source[c] = source[d] => c = d

(* What invitations and the requests made with them have in common. *)
RowsInv == OneOpen /\ SourceUsed /\ SourceOnce

(* A new invitation, and what it replaces. *)
LEMMA ReplaceOpen ==
    ASSUME TypeOK, RowsInv, NEW s \in Sessions, NEW i \in Invitations, Replace(s, i)
    PROVE  RowsInv'
<1> DEFINE o == session[s].owner
<1>1. /\ invitation[i] = NoInvitation /\ invitation'[i].owner = o
      /\ \A j \in Invitations \ {i} :
            /\ invitation'[j].owner = invitation[j].owner
            /\ invitation'[j].used = invitation[j].used
            /\ invitation'[j].cancelled = (invitation[j].cancelled \/ j \in Replaced(o))
  BY ReplaceRows
<1>2. UNCHANGED source
  BY DEF Replace
<1>3. \A j \in Invitations \ {i} : Open(invitation', j) =>
         Open(invitation, j) /\ invitation[j].owner # o
  BY <1>1 DEF Open, Replaced, Unused
<1>4. OneOpen'
  <2> SUFFICES ASSUME NEW j \in Invitations, NEW k \in Invitations,
                      invitation'[j].owner = invitation'[k].owner, invitation'[j].owner \in Owners,
                      Open(invitation', j), Open(invitation', k)
               PROVE  j = k
    BY DEF OneOpen
  <2>1. CASE j # i /\ k # i
    BY <1>1, <1>3, <2>1 DEF RowsInv, OneOpen
  <2>2. CASE j = i \/ k = i
    BY <1>1, <1>3, <2>2
  <2>3. QED
    BY <2>1, <2>2
<1>5. SourceUsed'
  <2> SUFFICES ASSUME NEW c \in Connections, source[c] # 0
               PROVE  invitation'[source[c]].used /\ ~invitation'[source[c]].cancelled
    BY <1>2 DEF SourceUsed
  <2>1. source[c] \in Invitations /\ invitation[source[c]].used /\ ~invitation[source[c]].cancelled
    BY DEF TypeOK, RowsInv, SourceUsed
  <2>2. source[c] # i
    BY <1>1, <2>1 DEF NoInvitation
  <2>3. source[c] \notin Replaced(o)
    BY <2>1 DEF Replaced, Unused
  <2>4. QED
    BY <1>1, <2>1, <2>2, <2>3
<1>6. SourceOnce'
  BY <1>2 DEF RowsInv, SourceOnce
<1>7. QED
  BY <1>4, <1>5, <1>6 DEF RowsInv

(* A cancellation. *)
LEMMA CancelOpen ==
    ASSUME TypeOK, RowsInv, NEW i \in Invitations, CancelInvitation(i)
    PROVE  RowsInv'
<1>1. /\ UNCHANGED source /\ Open(invitation, i)
      /\ invitation' = [invitation EXCEPT ![i].cancelled = TRUE]
  BY DEF CancelInvitation, Cancelable, Unused, Open
<1>2. invitation \in [Invitations -> InvitationRows(clock)]
  BY DEF TypeOK
<1>3. /\ \A j \in Invitations \ {i} : invitation'[j] = invitation[j]
      /\ invitation'[i].cancelled
  BY <1>1, <1>2 DEF InvitationRows
<1>4. OneOpen'
  BY <1>3 DEF RowsInv, OneOpen, Open
<1>5. \A c \in Connections : source[c] # 0 => source[c] \in Invitations \ {i}
  BY <1>1 DEF TypeOK, RowsInv, SourceUsed, Open
<1>6. SourceUsed'
  BY <1>1, <1>3, <1>5 DEF RowsInv, SourceUsed
<1>7. SourceOnce'
  BY <1>1 DEF RowsInv, SourceOnce
<1>8. QED
  BY <1>4, <1>6, <1>7 DEF RowsInv

(* A request that consumes its invitation. *)
LEMMA InsertOpen ==
    ASSUME TypeOK, RowsInv, NEW s \in Sessions, NEW c \in Connections, InsertPending(s, c)
    PROVE  RowsInv'
<1> DEFINE i == session[s].invitation
<1>1. CASE UNCHANGED <<invitation, source>>
  BY <1>1 DEF RowsInv, OneOpen, SourceUsed, SourceOnce, Open
<1>2. CASE /\ Usable(i, session[s].now) /\ invitation' = Consumed(i)
           /\ source' = [source EXCEPT ![c] = i]
  <2>1. i \in Invitations /\ Open(invitation, i) /\ i # 0
    BY <1>2, LimitAssumption DEF InsertPending, TypeOK, SessionStates, Usable, Unused, Open, Invitations
  <2>2. /\ invitation \in [Invitations -> InvitationRows(clock)]
        /\ source \in [Connections -> Invitations \cup {0}]
    BY DEF TypeOK
  <2>3. /\ \A j \in Invitations \ {i} : invitation'[j] = invitation[j]
        /\ invitation'[i].used /\ invitation'[i].cancelled = invitation[i].cancelled
    BY <1>2, <2>1, <2>2 DEF Consumed, InvitationRows
  <2>4. source'[c] = i /\ \A d \in Connections \ {c} : source'[d] = source[d]
    BY <1>2, <2>2
  <2>5. \A d \in Connections : source[d] # 0 => source[d] \in Invitations \ {i}
    BY <2>1, <2>2 DEF RowsInv, SourceUsed, Open
  <2>6. OneOpen'
    BY <2>3 DEF RowsInv, OneOpen, Open
  <2>7. SourceUsed'
    <3> SUFFICES ASSUME NEW d \in Connections, source'[d] # 0
                 PROVE  invitation'[source'[d]].used /\ ~invitation'[source'[d]].cancelled
      BY DEF SourceUsed
    <3>1. CASE d = c
      BY <2>1, <2>3, <2>4, <3>1 DEF Open
    <3>2. CASE d # c
      BY <2>3, <2>4, <2>5, <3>2 DEF RowsInv, SourceUsed
    <3>3. QED
      BY <3>1, <3>2
  <2>8. SourceOnce'
    BY <2>1, <2>4, <2>5 DEF RowsInv, SourceOnce
  <2>9. QED
    BY <2>6, <2>7, <2>8 DEF RowsInv
<1>3. QED
  BY <1>1, <1>2 DEF InsertPending

(* Every step keeps it. *)
LEMMA RowsStep == TypeOK /\ RowsInv /\ [Next]_vars => RowsInv'
<1> SUFFICES ASSUME TypeOK, RowsInv, [Next]_vars PROVE RowsInv'
  OBVIOUS
<1>1. CASE UNCHANGED <<invitation, source>>
  BY <1>1 DEF RowsInv, OneOpen, SourceUsed, SourceOnce, Open
<1>2. ASSUME NEW s \in Sessions, Statement(s)
      PROVE  RowsInv'
  BY <1>1, <1>2, InvitationWrites, ReplaceOpen, InsertOpen
<1>3. ASSUME NEW s \in Sessions, Start(s) \/ Abort(s)
      PROVE  RowsInv'
  BY <1>1, <1>3, StartSession DEF Abort
<1>4. ASSUME NEW c \in Connections,
             RevokeConnection(c) \/ BlockConnection(c) \/ UnblockConnection(c)
      PROVE  RowsInv'
  BY <1>1, <1>4, EndpointsClose DEF CloseConnection
<1>5. CASE Tick \/ UNCHANGED vars
  BY <1>1, <1>5 DEF Tick, vars
<1>6. QED
  BY <1>2, <1>3, <1>4, <1>5, CancelOpen DEF Next

(* Nothing has been created yet. *)
LEMMA InvitesInit == Init => InviteInv /\ RowsInv
<1> SUFFICES ASSUME Init PROVE InviteInv /\ RowsInv
  OBVIOUS
<1>1. /\ \A i \in Invitations : invitation[i] = NoInvitation
      /\ \A s \in Sessions : session[s].phase = "idle"
      /\ \A c \in Connections : source[c] = 0
  BY DEF Init, Idle, Begun
<1>2. \A o \in Owners : \A t, u : MadeIn(invitation, o, t, u) = {}
  BY <1>1, NoOneAssumption DEF MadeIn, MadeSince, NoInvitation
<1>3. RateKept
  BY <1>2, FS_EmptySet, LimitAssumption DEF RateKept
<1>4. OneInvites /\ InvitesCounted
  BY <1>1 DEF OneInvites, InvitesCounted
<1>5. RowsInv
  BY <1>1, NoOneAssumption DEF RowsInv, OneOpen, SourceUsed, SourceOnce, NoInvitation
<1>6. QED
  BY <1>3, <1>4, <1>5 DEF InviteInv

(* Each invitation makes one request at most, none once cancelled; an owner  *)
(* has one open invitation; and no owner creates more of them in an hour     *)
(* than the limit allows, however the requests interleave.                   *)
THEOREM InvitationsLimitedCorrect == Spec => []InvitationsLimited
<1>1. TypeOK /\ InviteInv /\ RowsInv => InvitationsLimited
  <2> SUFFICES ASSUME TypeOK, InviteInv, RowsInv PROVE InvitationsLimited
    OBVIOUS
  <2>0. MaxInvitations \in Nat /\ MaxConnections \in Nat
    BY LimitAssumption
  <2>1. ASSUME NEW o \in Owners PROVE Cardinality(Listed(o, clock)) <= 1
    <3>1. Listed(o, clock) \in SUBSET (1..MaxInvitations)
      BY DEF Listed, Invitations
    <3>2. \A i, j \in Listed(o, clock) : i = j
      BY DEF Listed, Usable, Unused, RowsInv, OneOpen, Open
    <3>3. QED
      BY <2>0, <3>1, <3>2, OneRow
  <2>2. ASSUME NEW i \in Invitations
        PROVE  Cardinality({c \in Connections : source[c] = i})
                   <= IF invitation[i].cancelled THEN 0 ELSE 1
    <3> DEFINE made == {c \in Connections : source[c] = i}
    <3>1. made \in SUBSET (1..MaxConnections) /\ i # 0
      BY DEF Connections, Invitations
    <3>2. \A c, d \in made : c = d
      BY <3>1 DEF RowsInv, SourceOnce
    <3>3. invitation[i].cancelled => made = {}
      BY <3>1 DEF RowsInv, SourceUsed
    <3> HIDE DEF made
    <3>4. Cardinality(made) <= 1
      BY <2>0, <3>1, <3>2, OneRow
    <3>5. invitation[i].cancelled => Cardinality(made) = 0
      BY <3>3, FS_EmptySet
    <3>6. Cardinality(made) <= IF invitation[i].cancelled THEN 0 ELSE 1
      BY <3>4, <3>5
    <3>7. QED
      BY <3>6 DEF made
  <2>3. ASSUME NEW o \in Owners, NEW t \in 0..MaxTime
        PROVE  Cardinality({i \in Recent(o, t - InvitationWindow) : invitation[i].createdAt <= t})
                   <= InvitationLimit
    <3>1. {i \in Recent(o, t - InvitationWindow) : invitation[i].createdAt <= t}
            = MadeIn(invitation, o, t - InvitationWindow, t)
      BY DEF MadeIn, MadeSince, Recent
    <3>2. QED
      BY <3>1 DEF InviteInv, RateKept
  <2>4. QED
    BY <2>1, <2>2, <2>3 DEF InvitationsLimited
<1>2. QED
  BY <1>1, InvitesInit, InviteStep, RowsStep, TypeCorrect, PTL DEF Spec

-----------------------------------------------------------------------------
(* Requests hold their invitation, which stays open                         *)

(* From LockInvitation on a request locks the row of its invitation. *)
Holding(r) == r.op = "request" /\ r.phase \in {"invited", "found", "checked", "counted"}

(* A request is made at the owner of its invitation, which is open while the *)
(* request holds it.                                                        *)
RequestOf(r, table) ==
    r.op = "request" =>
        /\ r.phase # "revoked" /\ r.owner \in Owners
        /\ table[r.invitation].owner = r.owner
        /\ Holding(r) => Open(table, r.invitation)

(* The row lock of an invitation has one holder. *)
OneHolds ==
    \A s, q \in Sessions :
        /\ Holding(session[s]) /\ Holding(session[q])
        /\ session[s].invitation = session[q].invitation
        => s = q

(* What the lock of an invitation guards. *)
HoldInv == (\A s \in Sessions : RequestOf(session[s], invitation)) /\ OneHolds

(* So an owner has one request at work. *)
LEMMA OneRequest ==
    ASSUME TypeOK, RowsInv, HoldInv, NEW s \in Sessions, NEW q \in Sessions,
           Holding(session[s]), Holding(session[q]), session[s].owner = session[q].owner
    PROVE  s = q
<1>1. session[s].invitation \in Invitations /\ session[q].invitation \in Invitations
  BY DEF TypeOK, SessionStates, Holding
<1>2. /\ invitation[session[s].invitation].owner = session[s].owner /\ session[s].owner \in Owners
      /\ invitation[session[q].invitation].owner = session[q].owner
      /\ Open(invitation, session[s].invitation) /\ Open(invitation, session[q].invitation)
  BY DEF HoldInv, RequestOf, Holding
<1>3. session[s].invitation = session[q].invitation
  BY <1>1, <1>2 DEF RowsInv, OneOpen
<1>4. QED
  BY <1>3 DEF HoldInv, OneHolds

(* One session moves on, and may write invitations nobody else holds.       *)
LEMMA HoldStep ==
    ASSUME TypeOK, HoldInv, NEW s \in Sessions, OthersWait(s),
           \A q \in Sessions \ {s} : RequestOf(session[q], invitation'),
           RequestOf(session'[s], invitation'),
           \A q \in Sessions \ {s} :
              ~(/\ Holding(session'[s]) /\ Holding(session[q])
                /\ session'[s].invitation = session[q].invitation)
    PROVE  HoldInv'
<1>1. \A q \in Sessions \ {s} : session'[q] = session[q]
  BY DEF OthersWait
<1>2. \A q \in Sessions : RequestOf(session'[q], invitation')
  BY <1>1
<1>3. ASSUME NEW p \in Sessions, NEW q \in Sessions, Holding(session'[p]), Holding(session'[q]),
             session'[p].invitation = session'[q].invitation
      PROVE  p = q
  <2>1. CASE p # s /\ q # s
    BY <1>1, <1>3, <2>1 DEF HoldInv, OneHolds
  <2>2. CASE p = s \/ q = s
    BY <1>1, <1>3, <2>2
  <2>3. QED
    BY <2>1, <2>2
<1>4. QED
  BY <1>2, <1>3 DEF HoldInv, OneHolds

(* A session that is at the end, or was not begun for a request.            *)
LEMMA NoRequest ==
    ASSUME NEW r, r.op # "request"
    PROVE  ~Holding(r) /\ \A table : RequestOf(r, table)
  BY DEF Holding, RequestOf

(* So with a session that has ended. *)
LEMMA IdleRequest == ~Holding(Idle) /\ \A table : RequestOf(Idle, table)
<1>1. Idle.op # "request"
  BY DEF Idle, Begun
<1>2. QED
  BY <1>1, NoRequest

(* Of the statements that write no invitation only LockInvitation makes a   *)
(* session a holder.                                                        *)
LEMMA ReadHolds ==
    ASSUME TypeOK, HoldInv, NEW s \in Sessions, Statement(s), UNCHANGED invitation
    PROVE  HoldInv'
<1>1. OthersWait(s) /\ \A q \in Sessions : RequestOf(session[q], invitation')
  BY StatementSession DEF HoldInv
<1>2. CASE session'[s] = Idle
  BY <1>1, <1>2, IdleRequest, HoldStep
<1>3. CASE LockInvitation(s) /\ Go(s, "invited")
  <2>1. Proceeds(s, "invited") /\ session[s].op = "request" /\ session[s].phase = "begun"
        /\ InvitationFree(s, session[s].invitation)
    BY <1>3, GoSession DEF LockInvitation
  <2>2. ~End(s)
    BY <2>1, EndSession DEF Proceeds, Idle, Begun
  <2>3. Open(invitation, session[s].invitation)
    BY <1>3, <2>2 DEF LockInvitation, Usable, Unused, Open
  <2>4. RequestOf(session'[s], invitation')
    BY <1>1, <2>1, <2>3 DEF RequestOf, Proceeds, Open
  <2>5. \A q \in Sessions \ {s} : ~(Holding(session[q]) /\ session'[s].invitation = session[q].invitation)
    BY <2>1 DEF InvitationFree, HoldsInvitation, Holding, Proceeds
  <2>6. QED
    BY <1>1, <2>4, <2>5, HoldStep
<1>4. ASSUME NEW phase, Proceeds(s, phase), phase # "revoked",
             session[s].op = "request" => Holding(session[s])
      PROVE  HoldInv'
  <2>1. RequestOf(session[s], invitation)
    BY DEF HoldInv
  <2>2. RequestOf(session'[s], invitation')
    BY <1>4, <2>1 DEF RequestOf, Proceeds, Holding, Open
  <2>3. \A q \in Sessions \ {s} :
           ~(/\ Holding(session'[s]) /\ Holding(session[q])
             /\ session'[s].invitation = session[q].invitation)
    BY <1>4 DEF Holding, Proceeds, HoldInv, OneHolds
  <2>4. QED
    BY <1>1, <2>2, <2>3, HoldStep
<1>5. CASE CountRecent(s) /\ Go(s, "mayInvite")
  BY <1>4, <1>5, GoSession DEF CountRecent
<1>6. CASE FindLive(s) /\ Proceeds(s, "found")
  <2>1. session[s].op = "request" => Holding(session[s])
    BY <1>6 DEF FindLive, Holding, HoldInv, RequestOf
  <2>2. QED
    BY <1>4, <1>6, <2>1
<1>7. CASE session[s].phase = "found" /\ Proceeds(s, "checked")
  BY <1>4, <1>7 DEF Holding
<1>8. CASE CountLive(s) /\ Go(s, "counted")
  BY <1>4, <1>8, GoSession DEF CountLive, Holding
<1>9. CASE session[s].op = "approve" /\ (Proceeds(s, "locked") \/ Go(s, "checked"))
  BY <1>4, <1>9, GoSession
<1>10. QED
  BY <1>2, <1>3, <1>5, <1>6, <1>7, <1>8, <1>9, StatementSession

(* Nobody replaces, cancels or consumes an invitation another session holds.*)
LEMMA WriteHolds ==
    ASSUME TypeOK, HoldInv, NEW s \in Sessions,
           \/ \E i \in Invitations : Replace(s, i)
           \/ \E c \in Connections : InsertPending(s, c)
    PROVE  HoldInv'
<1>1. OthersWait(s) /\ session'[s] = Idle
  BY EndSession DEF Replace, InsertPending
<1>2. invitation \in [Invitations -> InvitationRows(clock)] /\ session \in [Sessions -> SessionStates(clock)]
  BY DEF TypeOK
<1>3. ASSUME NEW q \in Sessions \ {s} PROVE RequestOf(session[q], invitation')
  <2> DEFINE j == session[q].invitation
  <2> SUFFICES ASSUME session[q].op = "request"
               PROVE  /\ invitation'[j].owner = invitation[j].owner
                      /\ Holding(session[q]) => Open(invitation', j)
    BY DEF HoldInv, RequestOf
  <2>1. /\ j \in Invitations /\ invitation[j].owner \in Owners
        /\ Holding(session[q]) => Open(invitation, j)
    BY <1>2 DEF SessionStates, HoldInv, RequestOf
  <2>2. ASSUME NEW i \in Invitations, Replace(s, i)
        PROVE  /\ invitation'[j].owner = invitation[j].owner
               /\ Holding(session[q]) => Open(invitation', j)
    <3>1. j # i
      BY <2>1, <2>2, ReplaceRows, NoOneAssumption DEF NoInvitation
    <3>2. Holding(session[q]) => j \notin Replaced(session[s].owner)
      BY <2>2 DEF Replace, InvitationFree, HoldsInvitation, Holding
    <3>3. /\ invitation'[j].owner = invitation[j].owner
          /\ invitation'[j].used = invitation[j].used
          /\ invitation'[j].cancelled = (invitation[j].cancelled \/ j \in Replaced(session[s].owner))
      BY <2>1, <2>2, <3>1, ReplaceRows
    <3>4. QED
      BY <2>1, <3>2, <3>3 DEF Open
  <2>3. ASSUME NEW c \in Connections, InsertPending(s, c)
        PROVE  /\ invitation'[j].owner = invitation[j].owner
               /\ Holding(session[q]) => Open(invitation', j)
    <3> DEFINE i == session[s].invitation
    <3>1. Holding(session[s]) /\ (invitation' = invitation \/ invitation' = [invitation EXCEPT ![i].used = TRUE])
      BY <2>3 DEF InsertPending, Consumed, Holding
    <3>2. invitation'[j].owner = invitation[j].owner
      BY <2>1, <2>3, OtherRows
    <3>3. ASSUME Holding(session[q]) PROVE Open(invitation', j)
      <4>1. j # i
        BY <3>1, <3>3 DEF HoldInv, OneHolds
      <4>2. invitation'[j] = invitation[j]
        BY <1>2, <2>1, <3>1, <4>1
      <4>3. QED
        BY <2>1, <3>3, <4>2 DEF Open
    <3>4. QED
      BY <3>2, <3>3
  <2>4. QED
    BY <2>2, <2>3
<1>4. QED
  BY <1>1, <1>3, IdleRequest, HoldStep

(* Every step keeps it. *)
LEMMA HoldNext == TypeOK /\ HoldInv /\ [Next]_vars => HoldInv'
<1> SUFFICES ASSUME TypeOK, HoldInv, [Next]_vars PROVE HoldInv'
  OBVIOUS
<1>1. CASE UNCHANGED <<invitation, session>>
  BY <1>1 DEF HoldInv, OneHolds, RequestOf, Holding, Open
<1>2. ASSUME NEW s \in Sessions, Statement(s)
      PROVE  HoldInv'
  BY <1>2, InvitationWrites, ReadHolds, WriteHolds
<1>3. ASSUME NEW s \in Sessions, Start(s)
      PROVE  HoldInv'
  <2>1. /\ OthersWait(s) /\ UNCHANGED invitation
        /\ ~Holding(session'[s]) /\ RequestOf(session'[s], invitation)
    BY <1>3, StartSession DEF Holding, RequestOf
  <2>2. \A q \in Sessions : RequestOf(session[q], invitation')
    BY <2>1 DEF HoldInv
  <2>3. QED
    BY <2>1, <2>2, HoldStep
<1>4. ASSUME NEW s \in Sessions, Abort(s)
      PROVE  HoldInv'
  <2>1. OthersWait(s) /\ session'[s] = Idle /\ UNCHANGED invitation
    BY <1>4, EndSession DEF Abort
  <2>2. \A q \in Sessions : RequestOf(session[q], invitation')
    BY <2>1 DEF HoldInv
  <2>3. QED
    BY <2>1, <2>2, IdleRequest, HoldStep
<1>5. ASSUME NEW c \in Connections,
             RevokeConnection(c) \/ BlockConnection(c) \/ UnblockConnection(c)
      PROVE  HoldInv'
  BY <1>1, <1>5, EndpointsClose DEF CloseConnection
<1>6. ASSUME NEW i \in Invitations, CancelInvitation(i)
      PROVE  HoldInv'
  <2>1. UNCHANGED session /\ \A s \in Sessions : ~HoldsInvitation(s, i)
    BY <1>6 DEF CancelInvitation
  <2>2. \A j \in Invitations \ {i} : invitation'[j] = invitation[j]
    BY <1>6 DEF CancelInvitation, TypeOK
  <2>3. \A j \in Invitations : invitation'[j].owner = invitation[j].owner
    BY <1>6, OtherRows
  <2>4. ASSUME NEW s \in Sessions PROVE RequestOf(session[s], invitation')
    <3>1. RequestOf(session[s], invitation)
      BY DEF HoldInv
    <3>2. session[s].op = "request" => session[s].invitation \in Invitations
      BY DEF TypeOK, SessionStates
    <3>3. Holding(session[s]) => session[s].invitation # i
      BY <2>1 DEF HoldsInvitation, Holding
    <3>4. QED
      BY <2>2, <2>3, <3>1, <3>2, <3>3 DEF RequestOf, Open, Holding
  <2>5. QED
    BY <2>1, <2>4 DEF HoldInv, OneHolds
<1>7. CASE Tick \/ UNCHANGED vars
  BY <1>1, <1>7 DEF Tick, vars
<1>8. QED
  BY <1>2, <1>3, <1>4, <1>5, <1>6, <1>7 DEF Next

-----------------------------------------------------------------------------
(* One live connection of a user with an owner                              *)

(* A connection that waits, is active or is blocked. *)
IsLive(table, c) == table[c].state \in Live

(* The second unique index. *)
OneLive ==
    \A c, d \in Connections :
        /\ IsLive(connection, c) /\ IsLive(connection, d)
        /\ connection[c].owner = connection[d].owner /\ connection[c].user = connection[d].user
        => c = d

(* Every row but c is as live as before, and c only if the index lets it.   *)
LEMMA WriteLive ==
    ASSUME OneLive, NEW c,
           \A d \in Connections \ {c} : IsLive(connection', d) =>
              /\ IsLive(connection, d)
              /\ connection'[d].owner = connection[d].owner
              /\ connection'[d].user = connection[d].user,
           \A d \in Connections \ {c} :
              /\ IsLive(connection', c) /\ IsLive(connection', d)
              /\ connection'[c].owner = connection'[d].owner
              /\ connection'[c].user = connection'[d].user
              => FALSE
    PROVE  OneLive'
<1> SUFFICES ASSUME NEW d \in Connections, NEW e \in Connections,
                    IsLive(connection', d), IsLive(connection', e),
                    connection'[d].owner = connection'[e].owner,
                    connection'[d].user = connection'[e].user
             PROVE  d = e
  BY DEF OneLive
<1>1. CASE d # c /\ e # c
  BY <1>1 DEF OneLive
<1>2. CASE d = c \/ e = c
  BY <1>2
<1>3. QED
  BY <1>1, <1>2

(* A change of state that the index admits, or of a live row, or to revoked. *)
LEMMA SetStateLive ==
    ASSUME TypeOK, OneLive, NEW c \in Connections, NEW state \in States,
           connection' = [connection EXCEPT ![c].state = state],
           ~Conflicts(connection, c, state) \/ (IsLive(connection, c) \/ state = "revoked")
    PROVE  OneLive'
<1>1. connection \in [Connections -> ConnectionRows(clock)]
  BY DEF TypeOK
<1>2. /\ \A d \in Connections \ {c} : connection'[d] = connection[d]
      /\ connection'[c].state = state /\ connection'[c].owner = connection[c].owner
      /\ connection'[c].user = connection[c].user
  BY <1>1 DEF ConnectionRows
<1>3. ASSUME NEW d \in Connections \ {c}, IsLive(connection', c), IsLive(connection', d),
             connection'[c].owner = connection'[d].owner, connection'[c].user = connection'[d].user
      PROVE  FALSE
  <2>1. state \in Live /\ IsLive(connection, d) /\ state # "revoked"
        /\ connection[c].owner = connection[d].owner /\ connection[c].user = connection[d].user
    BY <1>2, <1>3 DEF IsLive, Live
  <2>2. ~Conflicts(connection, c, state) => FALSE
    BY <2>1 DEF Conflicts, IsLive
  <2>3. IsLive(connection, c) => FALSE
    BY <2>1 DEF OneLive
  <2>4. QED
    BY <2>1, <2>2, <2>3
<1>4. QED
  BY <1>2, <1>3, WriteLive DEF IsLive

(* The table an insertion leaves, unless it is refused.                     *)
LEMMA InsertedRows ==
    ASSUME TypeOK, NEW s \in Sessions, NEW c \in Connections, InsertPending(s, c)
    PROVE  \/ UNCHANGED connection
           \/ /\ connection'[c] = PendingRow(s)
              /\ \A d \in Connections \ {c} :
                    /\ connection'[d].owner = connection[d].owner
                    /\ connection'[d].user = connection[d].user
                    /\ connection'[d].requestedAt = connection[d].requestedAt
                    /\ connection'[d].state \in {connection[d].state, "revoked"}
              /\ ~Conflicts(connection', c, "pending")
<1> DEFINE old(d) == [connection[d] EXCEPT !.state = "revoked"]
           table == [d \in Connections |->
                       IF d = c THEN PendingRow(s)
                       ELSE IF d \in session[s].locks THEN old(d) ELSE connection[d]]
<1>1. CASE connection' = table /\ ~Conflicts(table, c, "pending")
  <2>1. \A d \in Connections : /\ old(d).owner = connection[d].owner
                               /\ old(d).user = connection[d].user
                               /\ old(d).requestedAt = connection[d].requestedAt
                               /\ old(d).state = "revoked"
    BY DEF TypeOK, ConnectionRows
  <2> HIDE DEF old
  <2>2. \A d \in Connections \ {c} : connection'[d] = old(d) \/ connection'[d] = connection[d]
    BY <1>1
  <2>3. connection'[c] = PendingRow(s)
    BY <1>1
  <2>4. ~Conflicts(connection', c, "pending")
    BY <1>1
  <2>5. QED
    BY <2>1, <2>2, <2>3, <2>4
<1>2. QED
  BY <1>1 DEF InsertPending

(* A new request. *)
LEMMA InsertLive ==
    ASSUME TypeOK, OneLive, NEW s \in Sessions, NEW c \in Connections, InsertPending(s, c)
    PROVE  OneLive'
<1>1. CASE UNCHANGED connection
  BY <1>1 DEF OneLive, IsLive
<1>2. CASE ~UNCHANGED connection
  <2>1. /\ connection'[c] = PendingRow(s) /\ ~Conflicts(connection', c, "pending")
        /\ \A d \in Connections \ {c} :
              /\ connection'[d].owner = connection[d].owner
              /\ connection'[d].user = connection[d].user
              /\ connection'[d].state \in {connection[d].state, "revoked"}
    BY <1>2, InsertedRows
  <2>2. \A d \in Connections \ {c} : IsLive(connection', d) => IsLive(connection, d)
    BY <2>1 DEF IsLive, Live
  <2>3. \A d \in Connections \ {c} :
           ~(/\ IsLive(connection', d) /\ connection'[c].owner = connection'[d].owner
             /\ connection'[c].user = connection'[d].user)
    BY <2>1 DEF Conflicts, IsLive, Live
  <2>4. QED
    BY <2>1, <2>2, <2>3, WriteLive
<1>3. QED
  BY <1>1, <1>2

(* The only writes of connections are an insertion, and a change of state   *)
(* that the indexes admit or that closes a live connection.                 *)
LEMMA ConnectionWrites ==
    ASSUME TypeOK, [Next]_vars
    PROVE  \/ UNCHANGED <<connection, late>>
           \/ \E s \in Sessions, c \in Connections : InsertPending(s, c)
           \/ \E s \in Sessions : Approve(s)
           \/ \E c \in Connections, state \in {"revoked", "blocked"} :
                 /\ connection' = [connection EXCEPT ![c].state = state]
                 /\ UNCHANGED late
                 /\ ~Conflicts(connection, c, state) \/ IsLive(connection, c)
<1>1. ASSUME NEW s \in Sessions, Start(s) \/ Abort(s)
      PROVE  UNCHANGED <<connection, late>>
  BY <1>1, StartSession DEF Abort
<1>2. ASSUME NEW s \in Sessions, Block(s), ~UNCHANGED <<connection, late>>
      PROVE  /\ session[s].connection \in Connections /\ UNCHANGED late
             /\ connection' = [connection EXCEPT ![session[s].connection].state = "blocked"]
             /\ ~Conflicts(connection, session[s].connection, "blocked")
  BY <1>2 DEF Block, SetState, TypeOK, SessionStates
<1>3. ASSUME NEW c \in Connections, NEW state \in States, CloseConnection(c, state)
      PROVE  /\ connection' = [connection EXCEPT ![c].state = state] /\ UNCHANGED late
             /\ IsLive(connection, c) /\ state \in {"revoked", "blocked"}
  BY <1>3 DEF CloseConnection, Closes, IsLive, Live
<1>4. CASE UNCHANGED vars \/ Tick \/ \E i \in Invitations : CancelInvitation(i)
  BY <1>4 DEF vars, Tick, CancelInvitation
<1>5. ASSUME NEW s \in Sessions, Statement(s)
      PROVE  \/ UNCHANGED <<connection, late>>
             \/ \E c \in Connections : InsertPending(s, c)
             \/ Approve(s) \/ Block(s)
  BY <1>5 DEF Statement, CountRecent, Replace, LockInvitation, FindLive, LockExisting, CountLive,
     LockPending, CheckActive, LookForLive
<1>6. CASE \E c \in Connections : RevokeConnection(c) \/ BlockConnection(c) \/ UnblockConnection(c)
  BY <1>3, <1>6, EndpointsClose
<1>7. QED
  BY <1>1, <1>2, <1>4, <1>5, <1>6 DEF Next

(* Every step keeps it. *)
LEMMA LiveStep == TypeOK /\ OneLive /\ [Next]_vars => OneLive'
<1> SUFFICES ASSUME TypeOK, OneLive, [Next]_vars PROVE OneLive'
  OBVIOUS
<1>1. CASE UNCHANGED connection
  BY <1>1 DEF OneLive, IsLive
<1>2. ASSUME NEW s \in Sessions, Approve(s)
      PROVE  OneLive'
  BY <1>1, <1>2, SetStateLive DEF Approve, SetState, TypeOK, SessionStates, States
<1>3. ASSUME NEW c \in Connections, NEW state \in {"revoked", "blocked"},
             connection' = [connection EXCEPT ![c].state = state],
             ~Conflicts(connection, c, state) \/ IsLive(connection, c)
      PROVE  OneLive'
  BY <1>3, SetStateLive DEF States
<1>4. QED
  BY <1>1, <1>2, <1>3, ConnectionWrites, InsertLive

-----------------------------------------------------------------------------
(* The limit of connections, but for approvals that come late               *)

(* The rows count_live_connections counts, of any table. *)
CountedIn(table, o, now) ==
    {c \in Connections :
        /\ table[c].owner = o
        /\ \/ table[c].state = "active"
           \/ table[c].state = "pending" /\ ~(table[c].requestedAt + PendingLife <= now)}

(* The connections that count towards the limit of o. *)
Charged(table, o, now, except) == CountedIn(table, o, now) \ except

(* What a request counted before its insertion still holds. *)
RequestsCounted ==
    \A s \in Sessions : session[s].op = "request" /\ session[s].phase = "counted" =>
        Cardinality(Charged(connection, session[s].owner, session[s].now, late)) < ConnectionLimit

(* The limit itself. *)
ChargedLimit ==
    \A o \in Owners : Cardinality(Charged(connection, o, clock, late)) <= ConnectionLimit

(* What the limit of connections rests on. *)
CountInv == RequestsCounted /\ ChargedLimit

(* Rows charged are rows. *)
LEMMA ChargedRows ==
    /\ \A table, o, now, except : Charged(table, o, now, except) \in SUBSET (1..MaxConnections)
    /\ MaxConnections \in Nat /\ ConnectionLimit \in Nat /\ PendingLife \in Int
  BY LimitAssumption DEF Charged, CountedIn, Connections

(* As time passes connections stop counting. *)
LEMMA ChargedLater ==
    ASSUME TypeOK, NEW o, NEW now \in Int, NEW later \in Int, now <= later
    PROVE  Charged(connection, o, later, late) \in SUBSET Charged(connection, o, now, late)
<1>1. \A c \in Connections : connection[c].requestedAt \in Int
  BY LimitAssumption DEF TypeOK, ConnectionRows
<1>2. QED
  BY <1>1, ChargedRows DEF Charged, CountedIn

(* A count that has only lost rows. *)
LEMMA FewerCharged ==
    ASSUME NEW S \in SUBSET (1..MaxConnections), NEW T \in SUBSET S
    PROVE  /\ Cardinality(S) < ConnectionLimit => Cardinality(T) < ConnectionLimit
           /\ Cardinality(S) <= ConnectionLimit => Cardinality(T) <= ConnectionLimit
<1>1. Cardinality(S) \in Nat /\ Cardinality(T) \in Nat /\ Cardinality(T) <= Cardinality(S)
  BY RowCount, ChargedRows
<1>2. QED
  BY <1>1, ChargedRows

(* No row is charged that was not, at any time a session has in mind; and no *)
(* session has counted anew.                                                *)
LEMMA CountCalm ==
    ASSUME TypeOK, CountInv, clock' \in {clock, clock + 1}, clock' = clock + 1 => UNCHANGED <<connection, late>>,
           \A o : \A now \in 0..clock :
              Charged(connection', o, now, late') \in SUBSET Charged(connection, o, now, late),
           \A s \in Sessions :
              session'[s] = session[s] \/ ~(session'[s].op = "request" /\ session'[s].phase = "counted")
    PROVE  CountInv'
<1>1. clock \in Nat /\ \A s \in Sessions : session[s].now \in 0..clock
  BY LimitAssumption DEF TypeOK, SessionStates
<1>2. RequestsCounted'
  <2> SUFFICES ASSUME NEW s \in Sessions, session'[s].op = "request", session'[s].phase = "counted"
               PROVE  Cardinality(Charged(connection', session'[s].owner, session'[s].now, late'))
                          < ConnectionLimit
    BY DEF RequestsCounted
  <2>1. session'[s] = session[s]
    OBVIOUS
  <2>2. Cardinality(Charged(connection, session[s].owner, session[s].now, late)) < ConnectionLimit
    BY <2>1 DEF CountInv, RequestsCounted
  <2>3. Charged(connection', session[s].owner, session[s].now, late')
           \in SUBSET Charged(connection, session[s].owner, session[s].now, late)
    BY <1>1
  <2>4. QED
    BY <2>1, <2>2, <2>3, FewerCharged, ChargedRows
<1>3. ChargedLimit'
  <2> SUFFICES ASSUME NEW o \in Owners
               PROVE  Cardinality(Charged(connection', o, clock', late')) <= ConnectionLimit
    BY DEF ChargedLimit
  <2>1. Charged(connection', o, clock', late') \in SUBSET Charged(connection, o, clock, late)
    <3>1. CASE clock' = clock
      BY <1>1, <3>1
    <3>2. CASE clock' = clock + 1
      BY <1>1, <3>2, ChargedLater
    <3>3. QED
      BY <3>1, <3>2
  <2>2. Cardinality(Charged(connection, o, clock, late)) <= ConnectionLimit
    BY DEF CountInv, ChargedLimit
  <2>3. QED
    BY <2>1, <2>2, FewerCharged, ChargedRows
<1>4. QED
  BY <1>2, <1>3 DEF CountInv

(* An approval commits in time a row that counted already; or late.         *)
LEMMA ApproveCharged ==
    ASSUME TypeOK, LockInv, NEW s \in Sessions, Approve(s), NEW o, NEW now \in 0..clock
    PROVE  Charged(connection', o, now, late') \in SUBSET Charged(connection, o, now, late)
<1> DEFINE c == session[s].connection
<1>1. /\ c \in Connections /\ connection[c].state = "pending"
      /\ connection' = connection \/ connection' = [connection EXCEPT ![c].state = "active"]
      /\ late' = IF connection'[c].state = "active" /\ Outdated(c, clock)
                 THEN late \cup {c} ELSE late
  BY DEF Approve, SetState, TypeOK, SessionStates, LockInv, ApprovalHolds, Approving
<1>2. /\ connection \in [Connections -> ConnectionRows(clock)] /\ clock \in Int
      /\ \A d \in Connections : connection[d].requestedAt \in Int
      /\ now \in Int /\ PendingLife \in Int /\ now <= clock
  BY LimitAssumption DEF TypeOK, ConnectionRows
<1> HIDE DEF c
<1>3. CASE connection' = connection
  BY <1>1, <1>3 DEF Charged
<1>4. CASE connection' = [connection EXCEPT ![c].state = "active"]
  <2>1. /\ \A d \in Connections \ {c} : connection'[d] = connection[d]
        /\ connection'[c].state = "active" /\ connection'[c].owner = connection[c].owner
    BY <1>1, <1>2, <1>4 DEF ConnectionRows
  <2>2. late \in SUBSET late'
    BY <1>1
  <2>3. CASE Outdated(c, clock)
    BY <1>1, <2>1, <2>2, <2>3 DEF Charged, CountedIn
  <2>4. CASE ~Outdated(c, clock)
    <3>1. ~(connection[c].requestedAt + PendingLife <= now)
      BY <1>1, <1>2, <2>4 DEF Outdated
    <3>2. QED
      BY <1>1, <2>1, <2>2, <3>1 DEF Charged, CountedIn
  <2>5. QED
    BY <2>3, <2>4
<1>5. QED
  BY <1>1, <1>3, <1>4

(* A connection that is closed counts no longer. *)
LEMMA CloseCharged ==
    ASSUME TypeOK, NEW c \in Connections, NEW state \in {"revoked", "blocked"},
           connection' = [connection EXCEPT ![c].state = state], NEW o, NEW now
    PROVE  Charged(connection', o, now, late) \in SUBSET Charged(connection, o, now, late)
<1>1. connection \in [Connections -> ConnectionRows(clock)]
  BY DEF TypeOK
<1>2. /\ \A d \in Connections \ {c} : connection'[d] = connection[d]
      /\ connection'[c].state = state
  BY <1>1 DEF ConnectionRows
<1>3. QED
  BY <1>2 DEF Charged, CountedIn

(* A request that goes on to insert has counted fewer than the limit. *)
LEMMA CountLiveCharged ==
    ASSUME TypeOK, CountInv, NEW s \in Sessions, CountLive(s), Go(s, "counted")
    PROVE  CountInv'
<1>1. OthersWait(s) /\ Proceeds(s, "counted")
  BY GoSession
<1>2. UNCHANGED <<clock, connection, late>>
  BY DEF CountLive
<1>3. ~End(s)
  BY <1>1, EndSession DEF Proceeds, Idle, Begun
<1> DEFINE o == session[s].owner
           now == session[s].now
           S == Counted(o, now)
<1>4. Cardinality(S) < ConnectionLimit
  BY <1>3 DEF CountLive
<1>5. S = CountedIn(connection, o, now)
  BY DEF Counted, CountedIn, Of, Outdated
<1>6. Charged(connection, o, now, late) \in SUBSET S /\ S \in SUBSET (1..MaxConnections)
  BY <1>5 DEF Charged, CountedIn, Connections
<1> HIDE DEF S
<1>7. Cardinality(Charged(connection, o, now, late)) < ConnectionLimit
  BY <1>4, <1>6, FewerCharged
<1>8. RequestsCounted'
  <2> SUFFICES ASSUME NEW q \in Sessions, session'[q].op = "request", session'[q].phase = "counted"
               PROVE  Cardinality(Charged(connection', session'[q].owner, session'[q].now, late'))
                          < ConnectionLimit
    BY DEF RequestsCounted
  <2>1. CASE q = s
    BY <1>1, <1>2, <1>7, <2>1 DEF Proceeds
  <2>2. CASE q # s
    BY <1>1, <1>2, <2>2 DEF OthersWait, CountInv, RequestsCounted
  <2>3. QED
    BY <2>1, <2>2
<1>9. ChargedLimit'
  BY <1>2 DEF CountInv, ChargedLimit
<1>10. QED
  BY <1>8, <1>9 DEF CountInv

(* The one request of an owner that can insert is the one that has counted. *)
LEMMA InsertCharged ==
    ASSUME TypeOK, RowsInv, HoldInv, CountInv, NEW s \in Sessions, NEW c \in Connections,
           InsertPending(s, c)
    PROVE  CountInv'
<1> DEFINE o == session[s].owner
           now == session[s].now
<1>1. /\ OthersWait(s) /\ session'[s].op = "none" /\ UNCHANGED <<clock, late>>
      /\ session[s].op = "request" /\ session[s].phase = "counted"
  BY EndSession DEF InsertPending, Idle, Begun
<1>2. CASE UNCHANGED connection
  BY <1>1, <1>2, CountCalm DEF OthersWait
<1>3. CASE ~UNCHANGED connection
  <2>1. /\ connection'[c].owner = o
        /\ \A d \in Connections \ {c} :
              /\ connection'[d].owner = connection[d].owner
              /\ connection'[d].requestedAt = connection[d].requestedAt
              /\ connection'[d].state \in {connection[d].state, "revoked"}
    <3>1. connection'[c] = PendingRow(s) => connection'[c].owner = o
      BY DEF PendingRow
    <3>2. QED
      BY <1>3, <3>1, InsertedRows
  <2>2. \A x, t : Charged(connection', x, t, late) \in SUBSET (Charged(connection, x, t, late) \cup {c})
    BY <2>1 DEF Charged, CountedIn
  <2>3. \A x, t : x # o =>
           Charged(connection', x, t, late) \in SUBSET Charged(connection, x, t, late)
    BY <2>1 DEF Charged, CountedIn
  <2>4. RequestsCounted'
    <3> SUFFICES ASSUME NEW q \in Sessions, session'[q].op = "request", session'[q].phase = "counted"
                 PROVE  Cardinality(Charged(connection', session'[q].owner, session'[q].now, late'))
                            < ConnectionLimit
      BY DEF RequestsCounted
    <3>1. q # s /\ session'[q] = session[q]
      BY <1>1 DEF OthersWait
    <3>2. session[q].owner # o
      BY <1>1, <3>1, OneRequest DEF Holding
    <3>3. Cardinality(Charged(connection, session[q].owner, session[q].now, late)) < ConnectionLimit
      BY <3>1 DEF CountInv, RequestsCounted
    <3>4. QED
      BY <1>1, <2>3, <3>1, <3>2, <3>3, FewerCharged, ChargedRows
  <2>5. Cardinality(Charged(connection', o, clock, late)) <= ConnectionLimit
    <3> DEFINE R == Charged(connection, o, now, late)
               T == Charged(connection, o, clock, late)
               S == Charged(connection', o, clock, late)
    <3>1. Cardinality(R) < ConnectionLimit
      BY <1>1 DEF CountInv, RequestsCounted
    <3>2. now \in Int /\ clock \in Int /\ now <= clock
      BY LimitAssumption DEF TypeOK, SessionStates
    <3>3. T \in SUBSET R /\ S \in SUBSET (T \cup {c})
      BY <2>2, <3>2, ChargedLater
    <3>4. R \in SUBSET (1..MaxConnections) /\ T \in SUBSET (1..MaxConnections) /\ S \in SUBSET (1..MaxConnections)
      BY ChargedRows
    <3>5. c \in 1..MaxConnections
      BY DEF Connections
    <3> HIDE DEF R, S, T
    <3>6. /\ Cardinality(R) \in Nat /\ Cardinality(T) \in Nat /\ Cardinality(T) <= Cardinality(R)
          /\ Cardinality(S) \in Nat
      BY <3>3, <3>4, RowCount, ChargedRows
    <3>7. Cardinality(S) <= Cardinality(T) + 1
      BY <3>3, <3>4, <3>5, RowAdded, ChargedRows
    <3>8. Cardinality(S) <= ConnectionLimit
      BY <3>1, <3>6, <3>7, ChargedRows
    <3>9. QED
      BY <3>8 DEF S
  <2>6. ChargedLimit'
    <3> SUFFICES ASSUME NEW x \in Owners
                 PROVE  Cardinality(Charged(connection', x, clock', late')) <= ConnectionLimit
      BY DEF ChargedLimit
    <3>1. CASE x = o
      BY <1>1, <2>5, <3>1
    <3>2. CASE x # o
      <4>1. Cardinality(Charged(connection, x, clock, late)) <= ConnectionLimit
        BY DEF CountInv, ChargedLimit
      <4>2. Charged(connection', x, clock, late) \in SUBSET Charged(connection, x, clock, late)
        BY <2>3, <3>2
      <4>3. QED
        BY <1>1, <4>1, <4>2, FewerCharged, ChargedRows
    <3>3. QED
      BY <3>1, <3>2
  <2>7. QED
    BY <2>4, <2>6 DEF CountInv
<1>4. QED
  BY <1>2, <1>3

(* Every step keeps it. *)
LEMMA CountStep == TypeOK /\ LockInv /\ RowsInv /\ HoldInv /\ CountInv /\ [Next]_vars => CountInv'
<1> SUFFICES ASSUME TypeOK, LockInv, RowsInv, HoldInv, CountInv, [Next]_vars PROVE CountInv'
  OBVIOUS
<1> DEFINE Counting(s) == session'[s].op = "request" /\ session'[s].phase = "counted"
<1>1. CASE \E s \in Sessions, c \in Connections : InsertPending(s, c)
  BY <1>1, InsertCharged
<1>2. CASE \E s \in Sessions : CountLive(s) /\ Go(s, "counted")
  BY <1>2, CountLiveCharged
<1>3. CASE /\ ~(\E s \in Sessions, c \in Connections : InsertPending(s, c))
           /\ ~(\E s \in Sessions : CountLive(s) /\ Go(s, "counted"))
  <2>1. /\ clock' \in {clock, clock + 1}
        /\ clock' = clock + 1 => UNCHANGED <<connection, late>>
    <3>1. clock # clock + 1
      BY LimitAssumption DEF TypeOK
    <3>2. Tick \/ clock' = clock
      BY ZenonT(60), StartSession, EndpointsClose DEF Next, vars, Statement, CountRecent, Replace, LockInvitation,
         FindLive, LockExisting, CountLive, InsertPending, LockPending, CheckActive, Approve,
         LookForLive, Block, SetState, Abort, CancelInvitation, CloseConnection
    <3>3. QED
      BY <3>1, <3>2 DEF Tick
  <2>2. \A s \in Sessions : session'[s] = session[s] \/ ~Counting(s)
    <3>1. CASE UNCHANGED session
      BY <3>1
    <3>2. ASSUME NEW s \in Sessions, Statement(s)
          PROVE  \A q \in Sessions : session'[q] = session[q] \/ ~Counting(q)
      BY <1>3, <3>2, StatementSession, GoSession DEF OthersWait, Proceeds, Idle, Begun
    <3>3. ASSUME NEW s \in Sessions, Start(s)
          PROVE  \A q \in Sessions : session'[q] = session[q] \/ ~Counting(q)
      BY <3>3, StartSession DEF OthersWait
    <3>4. ASSUME NEW s \in Sessions, Abort(s)
          PROVE  \A q \in Sessions : session'[q] = session[q] \/ ~Counting(q)
      BY <3>4, EndSession DEF Abort, OthersWait, Idle, Begun
    <3>5. CASE \/ Tick \/ UNCHANGED vars \/ \E i \in Invitations : CancelInvitation(i)
               \/ \E c \in Connections, state \in States : CloseConnection(c, state)
      BY <3>1, <3>5 DEF Tick, vars, CancelInvitation, CloseConnection
    <3>6. QED
      BY <3>2, <3>3, <3>4, <3>5, EndpointsClose DEF Next
  <2>3. ASSUME NEW o, NEW now \in 0..clock
        PROVE  Charged(connection', o, now, late') \in SUBSET Charged(connection, o, now, late)
    <3>1. CASE UNCHANGED <<connection, late>>
      BY <3>1 DEF Charged, CountedIn
    <3>2. QED
      BY <1>3, <3>1, ConnectionWrites, ApproveCharged, CloseCharged
  <2> HIDE DEF Counting
  <2>4. QED
    BY <2>1, <2>2, <2>3, CountCalm DEF Counting
<1>4. QED
  BY <1>1, <1>2, <1>3

(* A user waits or is connected or blocked once at an owner; and an owner's  *)
(* limit of connections holds but for approvals that committed after the 24  *)
(* hours, without any lock on the count: the one open invitation, locked by  *)
(* the request that counts, is the lock.                                     *)
THEOREM OwnerRowsLimitedCorrect == Spec => []OwnerRowsLimited
<1>1. Init => LockInv /\ InviteInv /\ RowsInv /\ HoldInv /\ CountInv /\ OneLive
  <2> SUFFICES ASSUME Init PROVE LockInv /\ InviteInv /\ RowsInv /\ HoldInv /\ CountInv /\ OneLive
    OBVIOUS
  <2>1. /\ \A s \in Sessions : session[s] = Idle
        /\ \A c \in Connections : connection[c] = NoConnection
    BY DEF Init
  <2>2. HoldInv
    BY <2>1, IdleRequest DEF HoldInv, OneHolds
  <2>3. OneLive
    BY <2>1 DEF OneLive, IsLive, Live, NoConnection
  <2>4. RequestsCounted
    BY <2>1 DEF RequestsCounted, Idle, Begun
  <2>5. \A o \in Owners : \A t, x : Charged(connection, o, t, x) = {}
    BY <2>1 DEF Charged, CountedIn, NoConnection
  <2>6. ChargedLimit
    BY <2>5, FS_EmptySet, ChargedRows DEF ChargedLimit
  <2>7. QED
    BY <2>2, <2>3, <2>4, <2>6, InvitesInit, LockInvInit DEF CountInv
<1>2. TypeOK /\ OneLive /\ CountInv => OwnerRowsLimited
  <2> SUFFICES ASSUME TypeOK, OneLive, CountInv, NEW o \in Owners
               PROVE  /\ \A u \in Users : Cardinality(LiveRows(o, u)) <= 1
                      /\ Cardinality(Counted(o, clock) \ late) <= ConnectionLimit
    BY DEF OwnerRowsLimited
  <2>1. ASSUME NEW u \in Users PROVE Cardinality(LiveRows(o, u)) <= 1
    <3>1. LiveRows(o, u) \in SUBSET (1..MaxConnections)
      BY DEF LiveRows, Of, Connections
    <3>2. \A c, d \in LiveRows(o, u) : c = d
      BY DEF LiveRows, Of, OneLive, IsLive
    <3>3. QED
      BY <3>1, <3>2, OneRow, ChargedRows
  <2>2. Counted(o, clock) \ late = Charged(connection, o, clock, late)
    BY DEF Counted, Charged, CountedIn, Of, Outdated
  <2>3. QED
    BY <2>1, <2>2 DEF CountInv, ChargedLimit
<1>3. QED
  BY <1>1, <1>2, TypeCorrect, LockInvStep, RowsStep, HoldNext, CountStep, LiveStep, PTL DEF Spec

-----------------------------------------------------------------------------
(* No standstill.  Requests and approvals that hold row locks take no more of *)
(* them, but a session that blocks a revoked connection does.  It looks only  *)
(* for live rows, and no session of its kind that had its lock by then holds  *)
(* one: whoever it waits for began to hold its row after the search.          *)

(* The phases of each kind of session. *)
Staged(r) ==
    \/ r = Idle
    \/ r.op = "invite" /\ r.phase \in {"begun", "mayInvite"}
    \/ r.op = "request" /\ r.phase \in {"begun", "invited", "found", "checked", "counted"}
    \/ r.op = "approve" /\ r.phase \in {"begun", "locked", "checked"}
    \/ r.op = "block" /\ r.phase \in {"revoked", "found", "checked"}

(* The rows a session has found, and those it has locked. *)
RowsOf(r, table) ==
    /\ Staged(r)
    /\ r.phase # "found" => r.found = {}
    /\ r.phase \in {"idle", "begun", "mayInvite"} => r.locks = {}
    /\ r.op = "request" /\ r.locks # {} => r.phase \in {"checked", "counted"}
    /\ r.op = "block" => r.locks = {r.connection} /\ table[r.connection].state = "revoked"

(* A session waits for one that has locked what it has found. *)
Behind(s, q) == session[s].found \cap session[q].locks # {}

(* In every set of sessions there is one that waits for no other of them. *)
Orderly ==
    \A S \in SUBSET Sessions : S # {} => \E s \in S : \A q \in S \ {s} : ~Behind(s, q)

WaitInv == (\A s \in Sessions : RowsOf(session[s], connection)) /\ Orderly

(* A session that locks rows it has found waits for no others. *)
LEMMA OneSearches ==
    ASSUME TypeOK, WaitInv, NEW q \in Sessions, session[q].found # {},
           NEW d \in session[q].locks
    PROVE  connection[d].state = "revoked"
<1>1. session[q] \in SessionStates(clock) /\ RowsOf(session[q], connection)
  BY DEF TypeOK, WaitInv
<1>2. session[q].phase = "found" /\ session[q].locks # {}
  BY <1>1 DEF RowsOf
<1>3. session[q].op = "block"
  BY <1>1, <1>2 DEF RowsOf, Staged, Idle, Begun
<1>4. QED
  BY <1>1, <1>3 DEF RowsOf

(* One session moves on, and rows that others lock stay as they are; what it  *)
(* finds are live rows.                                                       *)
LEMMA WaitStep ==
    ASSUME TypeOK, WaitInv, NEW s \in Sessions, OthersWait(s), RowsOf(session'[s], connection'),
           \A q \in Sessions \ {s} : \A d \in session[q].locks : connection'[d] = connection[d],
           \A d \in session'[s].found : connection[d].state \in Live
    PROVE  WaitInv'
<1>1. \A q \in Sessions \ {s} : session'[q] = session[q]
  BY DEF OthersWait
<1>2. ASSUME NEW q \in Sessions PROVE RowsOf(session'[q], connection')
  <2>1. CASE q = s
    BY <2>1
  <2>2. CASE q # s
    <3>1. session'[q] = session[q] /\ RowsOf(session[q], connection)
          /\ \A d \in session[q].locks : connection'[d] = connection[d]
      BY <1>1, <2>2 DEF WaitInv
    <3>2. QED
      BY <3>1 DEF RowsOf
  <2>3. QED
    BY <2>1, <2>2
<1>3. ASSUME NEW q \in Sessions \ {s}, session'[s].found \cap session'[q].locks # {}
      PROVE  session'[q].found = {}
  <2>1. PICK d \in session[q].locks : connection[d].state \in Live
    BY <1>1, <1>3
  <2>2. session[q].found = {}
    BY <2>1, OneSearches DEF Live
  <2>3. QED
    BY <1>1, <2>2
<1>4. ASSUME NEW S \in SUBSET Sessions, S # {}
      PROVE  \E t \in S : \A q \in S \ {t} : ~Behind(t, q)'
  <2>1. CASE s \notin S
    <3>1. PICK t \in S : \A q \in S \ {t} : ~Behind(t, q)
      BY <1>4 DEF WaitInv, Orderly
    <3>2. \A q \in S : session'[q] = session[q]
      BY <1>1, <2>1
    <3>3. QED
      BY <3>1, <3>2 DEF Behind
  <2>2. ASSUME NEW q \in S \ {s}, Behind(s, q)'
        PROVE  \A p \in S \ {q} : ~Behind(q, p)'
    <3>1. session'[q].found = {}
      BY <1>3, <2>2 DEF Behind
    <3>2. QED
      BY <3>1 DEF Behind
  <2>3. CASE s \in S /\ \A q \in S \ {s} : ~Behind(s, q)'
    BY <2>3
  <2>4. QED
    BY <2>1, <2>2, <2>3
<1>5. Orderly'
  BY <1>4 DEF Orderly
<1>6. QED
  BY <1>2, <1>5 DEF WaitInv

(* The end of a session. *)
LEMMA EndWait ==
    ASSUME TypeOK, WaitInv, NEW s \in Sessions, End(s),
           \A q \in Sessions \ {s} : \A d \in session[q].locks : connection'[d] = connection[d]
    PROVE  WaitInv'
<1>1. OthersWait(s) /\ session'[s] = Idle
  BY EndSession
<1>2. RowsOf(Idle, connection') /\ Idle.found = {}
  BY DEF RowsOf, Staged, Idle, Begun
<1>3. QED
  BY <1>1, <1>2, WaitStep

(* A statement that only reads, or takes locks. *)
LEMMA ReadWait ==
    ASSUME TypeOK, WaitInv, NEW s \in Sessions, NEW r, session' = [session EXCEPT ![s] = r],
           UNCHANGED connection, RowsOf(r, connection),
           \A d \in r.found : connection[d].state \in Live
    PROVE  WaitInv'
<1>1. session'[s] = r /\ OthersWait(s)
  BY DEF TypeOK, OthersWait
<1>2. QED
  BY <1>1, WaitStep

LEMMA GoWait ==
    ASSUME TypeOK, WaitInv, NEW s \in Sessions, NEW phase, Go(s, phase), UNCHANGED connection,
           session[s].phase # "found",
           <<session[s].op, session[s].phase, phase>> \in
               {<<"invite", "begun", "mayInvite">>, <<"request", "begun", "invited">>,
                <<"request", "checked", "counted">>, <<"approve", "locked", "checked">>}
    PROVE  WaitInv'
<1> DEFINE r == [session[s] EXCEPT !.phase = phase]
<1>1. session[s] \in SessionStates(clock) /\ RowsOf(session[s], connection)
  BY DEF TypeOK, WaitInv
<1>2. r.phase = phase /\ r.op = session[s].op /\ r.found = session[s].found
      /\ r.locks = session[s].locks
  BY <1>1 DEF SessionStates
<1>3. session' = [session EXCEPT ![s] = r]
  BY DEF Go
<1>4. session[s].found = {}
  BY <1>1 DEF RowsOf
<1> HIDE DEF r
<1>5. RowsOf(r, connection)
  BY <1>1, <1>2, <1>4 DEF RowsOf, Staged
<1>6. QED
  BY <1>2, <1>3, <1>4, <1>5, ReadWait

LEMMA StartWait ==
    ASSUME TypeOK, WaitInv, NEW s \in Sessions, Start(s)
    PROVE  WaitInv'
<1>1. ASSUME NEW op \in {"invite", "request", "approve"}, NEW o, NEW u, NEW i, NEW c,
             Begin(s, op, o, u, i, c)
      PROVE  WaitInv'
  <2> DEFINE r == Begun(op, "begun", clock, o, u, i, c, {})
  <2>1. session' = [session EXCEPT ![s] = r] /\ UNCHANGED connection
    BY <1>1 DEF Begin
  <2>2. RowsOf(r, connection) /\ r.found = {}
    BY DEF RowsOf, Staged, Begun
  <2>3. QED
    BY <2>1, <2>2, ReadWait
<1>2. CASE \E o \in Owners : BeginInvite(s, o)
  BY <1>1, <1>2 DEF BeginInvite
<1>3. CASE \E u \in Users, i \in Invitations : BeginRequest(s, u, i)
  BY <1>1, <1>3 DEF BeginRequest
<1>4. CASE \E c \in Connections : BeginApprove(s, c)
  BY <1>1, <1>4 DEF BeginApprove
<1>5. ASSUME NEW c \in Connections, LockRevoked(s, c)
      PROVE  WaitInv'
  <2> DEFINE r == Begun("block", "revoked", 0, connection[c].owner, connection[c].user, 0, c, {c})
  <2>1. session' = [session EXCEPT ![s] = r] /\ UNCHANGED connection
    BY <1>5 DEF LockRevoked
  <2>2. RowsOf(r, connection) /\ r.found = {}
    BY <1>5 DEF LockRevoked, RowsOf, Staged, Begun
  <2>3. QED
    BY <2>1, <2>2, ReadWait
<1>6. QED
  BY <1>2, <1>3, <1>4, <1>5 DEF Start

(* Rows are written when no other session locks them. *)
LEMMA SetStateFree ==
    ASSUME TypeOK, NEW s \in Sessions, NEW c, NEW state, SetState(s, c, state)
    PROVE  \A q \in Sessions \ {s} : \A d \in session[q].locks : connection'[d] = connection[d]
<1>1. \A q \in Sessions \ {s} : c \notin session[q].locks
  BY DEF SetState, RowsFree
<1>2. \A d \in Connections : d # c => connection'[d] = connection[d]
  BY DEF SetState, TypeOK
<1>3. \A q \in Sessions : session[q].locks \subseteq Connections
  BY DEF TypeOK, SessionStates
<1>4. QED
  BY <1>1, <1>2, <1>3

(* The row of a new connection is new to all. *)
LEMMA InsertWait ==
    ASSUME TypeOK, LockInv, WaitInv, NEW s \in Sessions, NEW c \in Connections, InsertPending(s, c)
    PROVE  WaitInv'
<1>1. End(s)
  BY DEF InsertPending
<1>2. CASE UNCHANGED connection
  BY <1>1, <1>2, EndWait
<1>3. CASE ~UNCHANGED connection
  <2>1. connection' = [d \in Connections |->
                         IF d = c THEN PendingRow(s)
                         ELSE IF d \in session[s].locks
                              THEN [connection[d] EXCEPT !.state = "revoked"]
                              ELSE connection[d]]
    BY <1>3 DEF InsertPending
  <2>2. connection[c].state = "none"
    BY DEF InsertPending, IsNext, Fresh, NoConnection
  <2>3. OthersWait(s) /\ session'[s] = Idle
    BY <1>1, EndSession
  <2>4. ASSUME NEW q \in Sessions PROVE RowsOf(session'[q], connection')
    <3>1. CASE q = s
      BY <2>3, <3>1 DEF RowsOf, Staged, Idle, Begun
    <3>2. CASE q # s
      <4>1. session'[q] = session[q] /\ RowsOf(session[q], connection)
            /\ session[q] \in SessionStates(clock)
        BY <2>3, <3>2 DEF OthersWait, WaitInv, TypeOK
      <4>2. session[q].op = "block" => connection'[session[q].connection].state = "revoked"
        <5> SUFFICES ASSUME session[q].op = "block"
                     PROVE  connection'[session[q].connection].state = "revoked"
          OBVIOUS
        <5> DEFINE d == session[q].connection
        <5>1. d \in session[q].locks /\ connection[d].state = "revoked" /\ d \in Connections
          BY <4>1 DEF RowsOf, SessionStates
        <5>2. d # c /\ d \notin session[s].locks
          BY <2>2, <3>2, <5>1 DEF LockInv
        <5>3. QED
          BY <2>1, <5>1, <5>2
      <4>3. QED
        BY <4>1, <4>2 DEF RowsOf
    <3>3. QED
      BY <3>1, <3>2
  <2>5. Orderly'
    <3>1. \A q \in Sessions : session'[q].found \subseteq session[q].found
                              /\ session'[q].locks \subseteq session[q].locks
      BY <2>3 DEF OthersWait, Idle, Begun
    <3>2. ASSUME NEW S \in SUBSET Sessions, S # {}
          PROVE  \E t \in S : \A q \in S \ {t} : ~Behind(t, q)'
      <4>1. PICK t \in S : \A q \in S \ {t} : ~Behind(t, q)
        BY <3>2 DEF WaitInv, Orderly
      <4>2. QED
        BY <3>1, <4>1 DEF Behind
    <3>3. QED
      BY <3>2 DEF Orderly
  <2>6. QED
    BY <2>4, <2>5 DEF WaitInv
<1>4. QED
  BY <1>2, <1>3

LEMMA StatementWait ==
    ASSUME TypeOK, LockInv, WaitInv, NEW s \in Sessions, Statement(s)
    PROVE  WaitInv'
<1>0. session[s] \in SessionStates(clock) /\ RowsOf(session[s], connection)
  BY DEF TypeOK, WaitInv
<1>1. CASE CountRecent(s) \/ LockInvitation(s) \/ CountLive(s) \/ CheckActive(s)
  <2>1. CASE End(s)
    <3>1. UNCHANGED connection
      BY <1>1 DEF CountRecent, LockInvitation, CountLive, CheckActive
    <3>2. QED
      BY <2>1, <3>1, EndWait
  <2>2. CASE CountRecent(s) /\ Go(s, "mayInvite")
    BY <2>2, GoWait DEF CountRecent
  <2>3. CASE LockInvitation(s) /\ Go(s, "invited")
    BY <2>3, GoWait DEF LockInvitation
  <2>4. CASE CountLive(s) /\ Go(s, "counted")
    BY <2>4, GoWait DEF CountLive
  <2>5. CASE CheckActive(s) /\ Go(s, "checked")
    BY <2>5, GoWait DEF CheckActive
  <2>6. QED
    BY <1>1, <2>1, <2>2, <2>3, <2>4, <2>5 DEF CountRecent, LockInvitation, CountLive, CheckActive
<1>2. CASE \E i \in Invitations : Replace(s, i)
  BY <1>2, EndWait DEF Replace
<1>3. CASE FindLive(s)
  <2> DEFINE r == [session[s] EXCEPT !.phase = "found",
                                     !.found = LiveRows(session[s].owner, session[s].user)]
  <2>1. /\ r.phase = "found" /\ r.op = session[s].op /\ r.locks = session[s].locks
        /\ r.connection = session[s].connection
        /\ r.found = LiveRows(session[s].owner, session[s].user)
    BY <1>0 DEF SessionStates
  <2>2. session' = [session EXCEPT ![s] = r] /\ UNCHANGED connection
        /\ session[s].phase \in {"invited", "revoked"}
    BY <1>3 DEF FindLive
  <2> HIDE DEF r
  <2>3. RowsOf(r, connection)
    BY <1>0, <2>1, <2>2 DEF RowsOf, Staged, Idle, Begun
  <2>4. \A d \in r.found : connection[d].state \in Live
    BY <2>1 DEF LiveRows
  <2>5. QED
    BY <2>2, <2>3, <2>4, ReadWait
<1>4. CASE LockExisting(s)
  <2>1. CASE End(s)
    BY <1>4, <2>1, EndWait DEF LockExisting
  <2>2. CASE ~End(s)
    <3> DEFINE r == [session[s] EXCEPT !.phase = "checked", !.found = {}, !.locks = Existing(s)]
    <3>1. session' = [session EXCEPT ![s] = r] /\ UNCHANGED connection
          /\ session[s].op = "request"
      BY <1>4, <2>2 DEF LockExisting
    <3>2. r.phase = "checked" /\ r.op = "request" /\ r.found = {}
      BY <1>0, <3>1 DEF SessionStates
    <3> HIDE DEF r
    <3>3. RowsOf(r, connection)
      BY <3>2 DEF RowsOf, Staged
    <3>4. QED
      BY <3>1, <3>2, <3>3, ReadWait
  <2>3. QED
    BY <2>1, <2>2
<1>5. CASE \E c \in Connections : InsertPending(s, c)
  BY <1>5, InsertWait
<1>6. CASE LockPending(s)
  <2>1. CASE End(s)
    BY <1>6, <2>1, EndWait DEF LockPending
  <2>2. CASE ~End(s)
    <3> DEFINE r == [session[s] EXCEPT !.phase = "locked", !.locks = Locked(session[s].connection)]
    <3>1. session' = [session EXCEPT ![s] = r] /\ UNCHANGED connection
          /\ session[s].op = "approve" /\ session[s].phase = "begun"
      BY <1>6, <2>2 DEF LockPending
    <3>2. r.phase = "locked" /\ r.op = "approve" /\ r.found = session[s].found
      BY <1>0, <3>1 DEF SessionStates
    <3>3. session[s].found = {}
      BY <1>0, <3>1 DEF RowsOf
    <3> HIDE DEF r
    <3>4. RowsOf(r, connection)
      BY <3>2, <3>3 DEF RowsOf, Staged
    <3>5. QED
      BY <3>1, <3>2, <3>3, <3>4, ReadWait
  <2>3. QED
    BY <2>1, <2>2
<1>7. CASE Approve(s) \/ Block(s)
  <2>1. PICK c, state : SetState(s, c, state)
    BY <1>7 DEF Approve, Block
  <2>2. End(s)
    BY <2>1 DEF SetState
  <2>3. QED
    BY <2>1, <2>2, SetStateFree, EndWait
<1>8. CASE LookForLive(s)
  <2>1. CASE End(s)
    BY <1>8, <2>1, EndWait DEF LookForLive
  <2>2. CASE ~End(s)
    <3> DEFINE r == [session[s] EXCEPT !.phase = "checked", !.found = {}]
    <3>1. session' = [session EXCEPT ![s] = r] /\ UNCHANGED connection
          /\ session[s].op = "block" /\ session[s].phase = "found"
      BY <1>8, <2>2 DEF LookForLive
    <3>2. r.phase = "checked" /\ r.op = "block" /\ r.found = {}
          /\ r.locks = session[s].locks /\ r.connection = session[s].connection
      BY <1>0, <3>1 DEF SessionStates
    <3> HIDE DEF r
    <3>3. RowsOf(r, connection)
      BY <1>0, <3>1, <3>2 DEF RowsOf, Staged
    <3>4. QED
      BY <3>1, <3>2, <3>3, ReadWait
  <2>3. QED
    BY <2>1, <2>2
<1>9. QED
  BY <1>1, <1>2, <1>3, <1>4, <1>5, <1>6, <1>7, <1>8 DEF Statement

LEMMA WaitInvStep == TypeOK /\ LockInv /\ WaitInv /\ [Next]_vars => WaitInv'
<1> SUFFICES ASSUME TypeOK, LockInv, WaitInv, [Next]_vars
             PROVE  WaitInv'
  OBVIOUS
<1>1. CASE UNCHANGED <<session, connection>>
  <2>1. \A s \in Sessions : RowsOf(session'[s], connection')
    BY <1>1 DEF WaitInv
  <2>2. \A s, q : Behind(s, q)' <=> Behind(s, q)
    BY <1>1 DEF Behind
  <2>3. Orderly'
    BY <2>2 DEF WaitInv, Orderly
  <2>4. QED
    BY <2>1, <2>3 DEF WaitInv
<1>2. CASE \E s \in Sessions : Start(s) \/ Statement(s)
  BY <1>2, StartWait, StatementWait
<1>3. CASE \E s \in Sessions : Abort(s)
  BY <1>3, EndWait DEF Abort
<1>4. ASSUME NEW c \in Connections, NEW state \in States, CloseConnection(c, state)
      PROVE  WaitInv'
  <2>1. UNCHANGED session /\ \A s \in Sessions : c \notin session[s].locks
    BY <1>4 DEF CloseConnection
  <2>2. \A d \in Connections : d # c => connection'[d] = connection[d]
    BY <1>4 DEF CloseConnection, TypeOK
  <2>3. \A s \in Sessions : session[s].locks \subseteq Connections
    BY DEF TypeOK, SessionStates
  <2>4. ASSUME NEW s \in Sessions PROVE RowsOf(session'[s], connection')
    <3>1. session'[s] = session[s] /\ RowsOf(session[s], connection)
          /\ \A d \in session[s].locks : connection'[d] = connection[d]
      BY <2>1, <2>2, <2>3 DEF WaitInv
    <3>2. QED
      BY <3>1 DEF RowsOf
  <2>5. Orderly'
    <3>1. \A s, q : Behind(s, q)' <=> Behind(s, q)
      BY <2>1 DEF Behind
    <3>2. QED
      BY <3>1 DEF WaitInv, Orderly
  <2>6. QED
    BY <2>4, <2>5 DEF WaitInv
<1>5. CASE (\E i \in Invitations : CancelInvitation(i)) \/ Tick \/ UNCHANGED vars
  BY <1>1, <1>5 DEF CancelInvitation, Tick, vars
<1>6. QED
  BY <1>2, <1>3, <1>4, <1>5, EndpointsClose DEF Next

(* Past its searches a session has all the locks it needs. *)
LEMMA PastSearches ==
    ASSUME TypeOK, LockInv, WaitInv, NEW s \in Sessions,
           session[s].phase \notin {"idle", "begun", "mayInvite", "found"}
    PROVE  session[s] # Idle /\ Unhindered(s)
<1>1. session[s] # Idle
  BY DEF Idle, Begun
<1>2. ASSUME session[s].op \in {"approve", "block"}, session[s].phase = "checked"
      PROVE  RowsFree(s, {session[s].connection})
  <2>1. session[s].connection \in session[s].locks
    BY <1>2 DEF LockInv, ApprovalHolds, Approving, WaitInv, RowsOf
  <2>2. QED
    BY <2>1 DEF LockInv, RowsFree
<1>3. QED
  BY <1>1, <1>2 DEF Unhindered

(* While rows are sought, the last of those who seek goes on, or whoever it   *)
(* waits for.                                                                 *)
LEMMA SearchProceeds ==
    ASSUME TypeOK, LockInv, WaitInv, NEW p \in Sessions, session[p].phase = "found"
    PROVE  SomeoneProceeds
<1> DEFINE S == {s \in Sessions : session[s].phase = "found"}
<1>1. PICK s \in S : \A q \in S \ {s} : ~Behind(s, q)
  BY DEF WaitInv, Orderly
<1>2. session[s] # Idle /\ session[s].phase = "found"
  BY DEF Idle, Begun
<1>3. CASE RowsFree(s, session[s].found)
  <2>1. Unhindered(s)
    BY <1>2, <1>3 DEF Unhindered
  <2>2. QED
    BY <1>2, <2>1 DEF SomeoneProceeds
<1>4. CASE ~RowsFree(s, session[s].found)
  <2>1. PICK q \in Sessions \ {s} : session[q].locks \cap session[s].found # {}
    BY <1>4 DEF RowsFree
  <2>2. session[q].phase # "found"
    BY <1>1, <2>1 DEF Behind
  <2>3. session[q].phase \notin {"idle", "begun", "mayInvite"}
    BY <2>1 DEF WaitInv, RowsOf
  <2>4. QED
    BY <2>2, <2>3, PastSearches DEF SomeoneProceeds
<1>5. QED
  BY <1>3, <1>4

(* Sessions that have locked nothing but an owner wait for no one but one     *)
(* that has.                                                                  *)
LEMMA BeginnersProceed ==
    ASSUME TypeOK, LockInv, WaitInv, NEW p \in Sessions, session[p] # Idle,
           \A s \in Sessions : session[s].phase \in {"idle", "begun", "mayInvite"}
    PROVE  SomeoneProceeds
<1>1. \A s \in Sessions : session[s].locks = {} /\ \A i : ~HoldsInvitation(s, i)
  BY DEF WaitInv, RowsOf, HoldsInvitation
<1>2. \A s \in Sessions : \A C : RowsFree(s, C) /\ \A i : InvitationFree(s, i)
  BY <1>1 DEF RowsFree, InvitationFree
<1>3. ASSUME NEW s \in Sessions, session[s].phase = "mayInvite"
      PROVE  SomeoneProceeds
  <2>1. session[s] # Idle
    BY <1>3 DEF Idle, Begun
  <2>2. Unhindered(s)
    BY <1>2, <1>3 DEF Unhindered
  <2>3. QED
    BY <2>1, <2>2 DEF SomeoneProceeds
<1>4. CASE \A s \in Sessions : session[s].phase # "mayInvite"
  <2>1. OwnerFree(p, session[p].owner)
    BY <1>4 DEF OwnerFree
  <2>2. Unhindered(p)
    BY <1>2, <2>1 DEF Unhindered
  <2>3. QED
    BY <2>2 DEF SomeoneProceeds
<1>5. QED
  BY <1>3, <1>4

LEMMA Proceeding == TypeOK /\ LockInv /\ WaitInv => SomeoneProceeds
<1> SUFFICES ASSUME TypeOK, LockInv, WaitInv, NEW p \in Sessions, session[p] # Idle
             PROVE  SomeoneProceeds
  BY DEF SomeoneProceeds
<1>1. CASE \E s \in Sessions : session[s].phase = "found"
  BY <1>1, SearchProceeds
<1>2. CASE \E s \in Sessions : session[s].phase \notin {"idle", "begun", "mayInvite", "found"}
  BY <1>2, PastSearches DEF SomeoneProceeds
<1>3. CASE \A s \in Sessions : session[s].phase \in {"idle", "begun", "mayInvite"}
  BY <1>3, BeginnersProceed
<1>4. QED
  BY <1>1, <1>2, <1>3

(* However many requests are at work: no circle of sessions waits for each    *)
(* other's locks, so PostgreSQL never has to break a deadlock between them.   *)
THEOREM SomeoneProceedsCorrect == Spec => []SomeoneProceeds
<1>1. Init => WaitInv
  <2>1. SUFFICES ASSUME Init PROVE WaitInv
    OBVIOUS
  <2>2. \A s \in Sessions : session[s] = Idle
    BY <2>1 DEF Init
  <2>3. \A s \in Sessions : RowsOf(session[s], connection)
    BY <2>2 DEF RowsOf, Staged, Idle, Begun
  <2>4. \A s, q \in Sessions : ~Behind(s, q)
    BY <2>2 DEF Behind, Idle, Begun
  <2>5. Orderly
    BY <2>4 DEF Orderly
  <2>6. QED
    BY <2>3, <2>5 DEF WaitInv
<1>2. QED
  BY <1>1, LockInvInit, LockInvStep, WaitInvStep, Proceeding, TypeCorrect, PTL DEF Spec
=============================================================================
