------------------------ MODULE TelegramConnections -------------------------
(***************************************************************************)
(* Invitations and Telegram connections of several workspace owners, whose  *)
(* participants share one bot: core/telegram and its PostgreSQL storage.    *)
(*                                                                          *)
(* A session is one request: a web call or a /start command, one database   *)
(* transaction at READ COMMITTED.  Its steps are the statements another     *)
(* session can come between.  A row read FOR UPDATE stays locked until the  *)
(* session ends; a statement that would wait for a lock is disabled.  The   *)
(* last write and the commit are one step: until its commit a write makes   *)
(* others wait, and nobody reads it.                                        *)
(***************************************************************************)
EXTENDS Integers, FiniteSets

CONSTANTS
    Owners, Users,      \* workspace owners; Telegram users
    Sessions,           \* concurrent requests
    InvitationLimit,    \* invitations an owner may create per InvitationWindow
    InvitationWindow,
    InvitationLife,     \* ticks a token is good for
    PendingLife,        \* ticks a request may wait for its approval (24 hours)
    ConnectionLimit,    \* live connections per owner
    NoOne,              \* the owner or user of what does not exist yet
    MaxInvitations,     \* bound: invitations ever created
    MaxConnections,     \* bound: connections ever requested
    MaxTime             \* bound: the last tick

ASSUME LimitAssumption ==
    /\ InvitationLimit \in Nat \ {0} /\ InvitationWindow \in Nat \ {0}
    /\ InvitationLife \in Nat \ {0} /\ PendingLife \in Nat \ {0}
    /\ ConnectionLimit \in Nat \ {0}
    /\ MaxInvitations \in Nat /\ MaxConnections \in Nat /\ MaxTime \in Nat

ASSUME NoOneAssumption == NoOne \notin Owners \cup Users

(* Ids, given out in order of creation. *)
Invitations == 1..MaxInvitations
Connections == 1..MaxConnections

VARIABLES
    clock,
    invitation,   \* table telegram_invitation
    connection,   \* table telegram_connection
    session,
    source,       \* history: the invitation a connection was requested with
    late          \* history: connections approved when their 24 hours were over

vars == <<clock, invitation, connection, session, source, late>>

-----------------------------------------------------------------------------
(* Rows and sessions *)

NoInvitation == [owner |-> NoOne, createdAt |-> 0, used |-> FALSE, cancelled |-> FALSE]

NoConnection == [owner |-> NoOne, user |-> NoOne, state |-> "none", requestedAt |-> 0]

States == {"pending", "active", "revoked", "blocked"}
Live == {"pending", "active", "blocked"}

(* A session that has begun, on behalf of o and u, with the rows it locks. *)
Begun(op, phase, now, o, u, i, c, locks) ==
    [op |-> op, phase |-> phase, now |-> now, owner |-> o, user |-> u,
     invitation |-> i, connection |-> c, found |-> {}, locks |-> locks]

Idle == Begun("none", "idle", 0, NoOne, NoOne, 0, 0, {})

Fresh(table, none) == {i \in DOMAIN table : table[i] = none}

IsNext(i, table, none) == i \in Fresh(table, none) /\ \A j \in Fresh(table, none) : i <= j

(* The bounds: a session that may insert a row has an id left for it. *)
Room(op, table, none) ==
    Cardinality({s \in Sessions : session[s].op = op}) < Cardinality(Fresh(table, none))

Unused(i) == ~invitation[i].used /\ ~invitation[i].cancelled

(* TelegramInvitation.require_usable *)
Usable(i, now) == Unused(i) /\ invitation[i].createdAt + InvitationLife > now

(* What list_invitations shows the owner. *)
Listed(o, now) == {i \in Invitations : invitation[i].owner = o /\ Usable(i, now)}

Outdated(c, now) == connection[c].requestedAt + PendingLife <= now

Of(o) == {c \in Connections : connection[c].owner = o}

(* Mutant: get_connection_for_user without the filter on the state. *)
AllRows(o, u) == {c \in Of(o) : connection[c].user = u}

(* The rows get_connection_for_user selects. *)
LiveRows(o, u) == {c \in Of(o) : connection[c].user = u /\ connection[c].state \in Live}

HasActive(u) == \E c \in Connections : connection[c].user = u /\ connection[c].state = "active"

(* Mutant: only approved connections count. *)
CountedActive(o, now) == {c \in Of(o) : connection[c].state = "active"}

(* The rows count_live_connections counts. *)
Counted(o, now) ==
    {c \in Of(o) : \/ connection[c].state = "active"
                   \/ connection[c].state = "pending" /\ ~Outdated(c, now)}

(* Mutant: the partial index on active connections is missing. *)
ConflictsLiveOnly(table, c, state) ==
    \E d \in Connections \ {c} :
        /\ table[d].user = table[c].user
        /\ state \in Live /\ table[d].state \in Live /\ table[d].owner = table[c].owner

(* The unique partial indexes: one active connection of a user, one live one *)
(* of a user with an owner.                                                   *)
Conflicts(table, c, state) ==
    \E d \in Connections \ {c} :
        /\ table[d].user = table[c].user
        /\ \/ state = "active" /\ table[d].state = "active"
           \/ /\ state \in Live /\ table[d].state \in Live
              /\ table[d].owner = table[c].owner

-----------------------------------------------------------------------------
(* Locks *)

HoldsInvitation(s, i) ==
    /\ session[s].op = "request" /\ session[s].invitation = i
    /\ session[s].phase \in {"invited", "found", "checked", "counted"}

InvitationFree(s, i) == \A q \in Sessions \ {s} : ~HoldsInvitation(q, i)

RowsFree(s, C) == \A q \in Sessions \ {s} : session[q].locks \cap C = {}

(* Mutant: create_invitation without its advisory lock. *)
NoMutualExclusion(s, o) == TRUE

(* pg_advisory_xact_lock(hashtext(owner)) *)
OwnerFree(s, o) ==
    \A q \in Sessions \ {s} : ~(session[q].phase = "mayInvite" /\ session[q].owner = o)

(* A request, a rejection or an error ends the session: nothing it did stays. *)
End(s) == session' = [session EXCEPT ![s] = Idle]

Go(s, phase) == session' = [session EXCEPT ![s].phase = phase]

Begin(s, op, o, u, i, c) ==
    /\ session[s] = Idle
    /\ session' = [session EXCEPT ![s] = Begun(op, "begun", clock, o, u, i, c, {})]
    /\ UNCHANGED <<clock, invitation, connection, source, late>>

-----------------------------------------------------------------------------
(* create_invitation, cancel_invitation.  auth-api's is_enabled is external:  *)
(* where the code asks it, the session may also end (Abort).                  *)

BeginInvite(s, o) ==
    /\ Room("invite", invitation, NoInvitation)
    /\ Begin(s, "invite", o, NoOne, 0, 0)

Recent(o, since) == {i \in Invitations : /\ invitation[i].owner = o
                                         /\ invitation[i].createdAt >= since}

CountRecent(s) ==
    LET o == session[s].owner
        allowed == Cardinality(Recent(o, session[s].now - InvitationWindow)) < InvitationLimit
    IN  /\ session[s].op = "invite" /\ session[s].phase = "begun"
        /\ OwnerFree(s, o)
        /\ \/ allowed /\ Go(s, "mayInvite")
           \/ ~allowed /\ End(s)
        /\ UNCHANGED <<clock, invitation, connection, source, late>>

(* Mutant: an earlier invitation stays open. *)
ReplacedNone(o) == {}

(* The invitations a new one replaces. *)
Replaced(o) == {i \in Invitations : invitation[i].owner = o /\ Unused(i)}

(* replace_invitation and the commit. *)
Replace(s, i) ==
    LET o == session[s].owner
    IN  /\ session[s].phase = "mayInvite"
        /\ IsNext(i, invitation, NoInvitation)
        /\ \A j \in Replaced(o) : InvitationFree(s, j)
        /\ invitation' = [j \in Invitations |->
                            IF j = i THEN [NoInvitation EXCEPT !.owner = o,
                                                              !.createdAt = session[s].now]
                            ELSE [invitation[j] EXCEPT !.cancelled = @ \/ j \in Replaced(o)]]
        /\ End(s)
        /\ UNCHANGED <<clock, connection, source, late>>

Cancelable(i) == Unused(i)

(* One UPDATE, whose condition is looked at when the row's lock is free. *)
CancelInvitation(i) ==
    /\ invitation[i].owner \in Owners
    /\ \A s \in Sessions : ~HoldsInvitation(s, i)
    /\ Cancelable(i)
    /\ invitation' = [invitation EXCEPT ![i].cancelled = TRUE]
    /\ UNCHANGED <<clock, connection, session, source, late>>

-----------------------------------------------------------------------------
(* request_connection *)

(* /start with a token; the redemption limiter lets the attempt pass. *)
BeginRequest(s, u, i) ==
    /\ invitation[i].owner \in Owners
    /\ Room("request", connection, NoConnection)
    /\ Begin(s, "request", invitation[i].owner, u, i, 0)

LockInvitation(s) ==
    LET i == session[s].invitation
    IN  /\ session[s].op = "request" /\ session[s].phase = "begun"
        /\ InvitationFree(s, i)
        /\ \/ Usable(i, session[s].now) /\ Go(s, "invited")
           \/ ~Usable(i, session[s].now) /\ End(s)
        /\ UNCHANGED <<clock, invitation, connection, source, late>>

(* get_connection_for_user takes its snapshot, then locks what it has found:  *)
(* when it had to wait, rows that no longer match are dropped and rows that   *)
(* appeared meanwhile are not seen.                                           *)
FindLive(s) ==
    /\ session[s].phase \in {"invited", "revoked"}
    /\ session' = [session EXCEPT ![s].phase = "found",
                                  ![s].found = LiveRows(session[s].owner, session[s].user)]
    /\ UNCHANGED <<clock, invitation, connection, source, late>>

(* What the locking read returns. *)
Existing(s) == session[s].found \cap LiveRows(session[s].owner, session[s].user)

(* A pending request past its 24 hours is going to be revoked; any other live *)
(* connection, or a block, refuses this one.                                  *)
LockExisting(s) ==
    LET replaceable == \A c \in Existing(s) : /\ connection[c].state = "pending"
                                              /\ Outdated(c, session[s].now)
    IN  /\ session[s].op = "request" /\ session[s].phase = "found"
        /\ RowsFree(s, session[s].found)
        /\ \/ /\ replaceable
              /\ session' = [session EXCEPT ![s].phase = "checked", ![s].found = {},
                                            ![s].locks = Existing(s)]
           \/ ~replaceable /\ End(s)
        /\ UNCHANGED <<clock, invitation, connection, source, late>>

(* has_active_connection and count_live_connections: two reads, of rows of    *)
(* other owners and of this one; a commit between them is seen by neither     *)
(* order differently.                                                         *)
CountLive(s) ==
    LET free == /\ ~HasActive(session[s].user)
                /\ Cardinality(Counted(session[s].owner, session[s].now)) < ConnectionLimit
    IN  /\ session[s].op = "request" /\ session[s].phase = "checked"
        /\ \/ free /\ Go(s, "counted")
           \/ ~free /\ End(s)
        /\ UNCHANGED <<clock, invitation, connection, source, late>>

(* Mutant: consume_invitation matches no row and nobody notices. *)
ConsumedNothing(i) == invitation

Consumed(i) == [invitation EXCEPT ![i].used = TRUE]

(* Mutant: the end of the 24 hours taken for their start. *)
ExpiringRow(s) == [owner |-> session[s].owner, user |-> session[s].user, state |-> "pending",
                   requestedAt |-> session[s].now + PendingLife]

PendingRow(s) == [owner |-> session[s].owner, user |-> session[s].user, state |-> "pending",
                  requestedAt |-> session[s].now]

(* create_pending_connection, consume_invitation and the commit. *)
InsertPending(s, c) ==
    LET i == session[s].invitation
        table == [d \in Connections |->
                    IF d = c THEN PendingRow(s)
                    ELSE IF d \in session[s].locks THEN [connection[d] EXCEPT !.state = "revoked"]
                    ELSE connection[d]]
    IN  /\ session[s].op = "request" /\ session[s].phase = "counted"
        /\ IsNext(c, connection, NoConnection)
        /\ \/ /\ ~Conflicts(table, c, "pending")
              /\ Usable(i, session[s].now)
              /\ connection' = table
              /\ invitation' = Consumed(i)
              /\ source' = [source EXCEPT ![c] = i]
           \/ /\ Conflicts(table, c, "pending") \/ ~Usable(i, session[s].now)
              /\ UNCHANGED <<connection, invitation, source>>
        /\ End(s)
        /\ UNCHANGED <<clock, late>>

-----------------------------------------------------------------------------
(* approve_connection *)

Known(c) == connection[c] # NoConnection

BeginApprove(s, c) ==
    Known(c) /\ Begin(s, "approve", connection[c].owner, connection[c].user, 0, c)

(* Mutant: get_connection without FOR UPDATE. *)
LockedNone(c) == {}

(* The row lock get_connection takes. *)
Locked(c) == {c}

LockPending(s) ==
    LET c == session[s].connection
        approvable == connection[c].state = "pending" /\ ~Outdated(c, session[s].now)
    IN  /\ session[s].op = "approve" /\ session[s].phase = "begun"
        /\ RowsFree(s, {c})
        /\ \/ /\ approvable
              /\ session' = [session EXCEPT ![s].phase = "locked", ![s].locks = Locked(c)]
           \/ ~approvable /\ End(s)
        /\ UNCHANGED <<clock, invitation, connection, source, late>>

CheckActive(s) ==
    /\ session[s].op = "approve" /\ session[s].phase = "locked"
    /\ \/ ~HasActive(session[s].user) /\ Go(s, "checked")
       \/ HasActive(session[s].user) /\ End(s)
    /\ UNCHANGED <<clock, invitation, connection, source, late>>

(* set_connection_state and the commit; a unique index may refuse it. *)
SetState(s, c, state) ==
    /\ RowsFree(s, {c})
    /\ \/ /\ ~Conflicts(connection, c, state)
          /\ connection' = [connection EXCEPT ![c].state = state]
       \/ Conflicts(connection, c, state) /\ UNCHANGED connection
    /\ End(s)
    /\ UNCHANGED <<clock, invitation, source>>

Approve(s) ==
    LET c == session[s].connection
    IN  /\ session[s].op = "approve" /\ session[s].phase = "checked"
        /\ SetState(s, c, "active")
        /\ late' = IF connection'[c].state = "active" /\ Outdated(c, clock)
                   THEN late \cup {c} ELSE late

-----------------------------------------------------------------------------
(* change_connection_state *)

(* The changes that look at no other row: one locked read, write and commit. *)
Closes(from, to) == \/ from \in {"pending", "active"} /\ to \in {"revoked", "blocked"}
                    \/ from = "blocked" /\ to = "revoked"

CloseConnection(c, state) ==
    /\ Closes(connection[c].state, state)
    /\ \A s \in Sessions : c \notin session[s].locks
    /\ connection' = [connection EXCEPT ![c].state = state]
    /\ UNCHANGED <<clock, invitation, session, source, late>>

RevokeConnection(c) == CloseConnection(c, "revoked")

BlockConnection(c) == CloseConnection(c, "blocked")

(* The endpoint asks for the same change as a revocation. *)
UnblockConnection(c) == CloseConnection(c, "revoked")

(* Blocking a revoked connection looks for a live one first. *)
LockRevoked(s, c) ==
    /\ session[s] = Idle
    /\ connection[c].state = "revoked"
    /\ RowsFree(s, {c})
    /\ session' = [session EXCEPT ![s] = Begun("block", "revoked", 0, connection[c].owner,
                                              connection[c].user, 0, c, {c})]
    /\ UNCHANGED <<clock, invitation, connection, source, late>>

LookForLive(s) ==
    /\ session[s].op = "block" /\ session[s].phase = "found"
    /\ RowsFree(s, session[s].found)
    /\ \/ /\ Existing(s) = {}
          /\ session' = [session EXCEPT ![s].phase = "checked", ![s].found = {}]
       \/ Existing(s) # {} /\ End(s)
    /\ UNCHANGED <<clock, invitation, connection, source, late>>

Block(s) ==
    /\ session[s].op = "block" /\ session[s].phase = "checked"
    /\ SetState(s, session[s].connection, "blocked")
    /\ UNCHANGED late

-----------------------------------------------------------------------------
(* Specification *)

(* An error, a refusal of auth-api or a crash: the transaction rolls back. *)
Abort(s) ==
    /\ session[s] # Idle
    /\ End(s)
    /\ UNCHANGED <<clock, invitation, connection, source, late>>

Tick ==
    /\ clock < MaxTime
    /\ clock' = clock + 1
    /\ UNCHANGED <<invitation, connection, session, source, late>>

Init ==
    /\ clock = 0
    /\ invitation = [i \in Invitations |-> NoInvitation]
    /\ connection = [c \in Connections |-> NoConnection]
    /\ session = [s \in Sessions |-> Idle]
    /\ source = [c \in Connections |-> 0]
    /\ late = {}

(* The statements of a session that has begun. *)
Statement(s) ==
    \/ CountRecent(s) \/ \E i \in Invitations : Replace(s, i)
    \/ LockInvitation(s) \/ FindLive(s) \/ LockExisting(s) \/ CountLive(s)
    \/ \E c \in Connections : InsertPending(s, c)
    \/ LockPending(s) \/ CheckActive(s) \/ Approve(s)
    \/ LookForLive(s) \/ Block(s)

Start(s) ==
    \/ \E o \in Owners : BeginInvite(s, o)
    \/ \E u \in Users, i \in Invitations : BeginRequest(s, u, i)
    \/ \E c \in Connections : BeginApprove(s, c) \/ LockRevoked(s, c)

Next ==
    \/ \E s \in Sessions : Start(s) \/ Statement(s) \/ Abort(s)
    \/ \E i \in Invitations : CancelInvitation(i)
    \/ \E c \in Connections :
          RevokeConnection(c) \/ BlockConnection(c) \/ UnblockConnection(c)
    \/ Tick

Spec == Init /\ [][Next]_vars

-----------------------------------------------------------------------------
(* Properties *)

Phases == {"idle", "begun", "mayInvite", "invited", "revoked", "found", "checked",
           "counted", "locked"}

InvitationRows(t) == [owner : Owners \cup {NoOne}, createdAt : 0..t,
                      used : BOOLEAN, cancelled : BOOLEAN]

ConnectionRows(t) == [owner : Owners \cup {NoOne}, user : Users \cup {NoOne},
                      state : States \cup {"none"}, requestedAt : 0..t]

(* A request names its invitation, an approval and a block their connection. *)
SessionStates(t) ==
    {r \in [op : {"none", "invite", "request", "approve", "block"},
            phase : Phases, now : 0..t,
            owner : Owners \cup {NoOne}, user : Users \cup {NoOne},
            invitation : Invitations \cup {0}, connection : Connections \cup {0},
            found : SUBSET Connections, locks : SUBSET Connections] :
        /\ r.op = "request" => r.invitation \in Invitations
        /\ r.op \in {"approve", "block"} => r.connection \in Connections}

(* Every variable has its type, and no row or request is dated in the future. *)
TypeOK ==
    /\ clock \in 0..MaxTime
    /\ invitation \in [Invitations -> InvitationRows(clock)]
    /\ connection \in [Connections -> ConnectionRows(clock)]
    /\ session \in [Sessions -> SessionStates(clock)]
    /\ source \in [Connections -> Invitations \cup {0}]
    /\ late \subseteq Connections

(* docs/telegram-bot-architecture.md:64-66: a Telegram user has one active   *)
(* connection over all Workspaces, whoever approves what at the same time.   *)
OneActivePerUser ==
    \A c, d \in Connections :
        connection[c].state = "active" /\ connection[d].state = "active" /\ c # d =>
            connection[c].user # connection[d].user

(* docs/telegram-bot-architecture.md:56: a token makes one request at most,  *)
(* whoever opens the link and however often Telegram delivers the update; one *)
(* that was cancelled or replaced makes none.  And the hourly limit of        *)
(* invitations holds for every hour of their created_at, though requests read *)
(* the clock before they wait for each other.  And the settings page shows    *)
(* one open invitation at most.                                               *)
InvitationsLimited ==
    /\ \A o \in Owners : Cardinality(Listed(o, clock)) <= 1
    /\ \A i \in Invitations :
          LET made == {c \in Connections : source[c] = i}
          IN  Cardinality(made) <= IF invitation[i].cancelled THEN 0 ELSE 1
    /\ \A o \in Owners, t \in 0..MaxTime :
          Cardinality({i \in Recent(o, t - InvitationWindow) : invitation[i].createdAt <= t})
              <= InvitationLimit

(* docs/telegram-bot-architecture.md:66-67, the protective limit: at most    *)
(* ConnectionLimit connections are active or still wait for approval.  No    *)
(* lock protects the count; it is safe because one invitation is open at a    *)
(* time.  It fails when an approval that read the clock before the 24 hours   *)
(* were over commits after another request has stopped counting the row.      *)
LimitKept == \A o \in Owners : Cardinality(Counted(o, clock)) <= ConnectionLimit

(* docs/telegram-bot-architecture.md:78-79: while a user is blocked by an    *)
(* owner no request of theirs waits or is approved there, and no two requests *)
(* of one user wait at one owner; and nothing but such late approvals takes   *)
(* an owner past the limit.                                                   *)
OwnerRowsLimited ==
    \A o \in Owners :
        /\ \A u \in Users : Cardinality(LiveRows(o, u)) <= 1
        /\ Cardinality(Counted(o, clock) \ late) <= ConnectionLimit

(* A connection that was revoked or blocked never becomes active or pending  *)
(* again: the person needs a new invitation, also when the owner's approval   *)
(* and revocation race.                                                       *)
ClosedStaysClosed ==
    [][\A c \in Connections :
          connection[c].state \in {"revoked", "blocked"} =>
              connection'[c].state \in {"revoked", "blocked"}]_vars

(* The locks that the next statement of s takes are free. *)
Unhindered(s) ==
    LET r == session[s]
    IN  /\ r.op = "invite" /\ r.phase = "begun" => OwnerFree(s, r.owner)
        /\ r.phase = "mayInvite" => \A j \in Replaced(r.owner) : InvitationFree(s, j)
        /\ r.op = "request" /\ r.phase = "begun" => InvitationFree(s, r.invitation)
        /\ r.phase = "found" => RowsFree(s, r.found)
        /\ <<r.op, r.phase>> \in {<<"approve", "begun">>, <<"approve", "checked">>, <<"block", "checked">>}
              => RowsFree(s, {r.connection})

(* As long as a session is going on, some session waits for no lock: no       *)
(* circle of requests, of whatever kinds and length, waits for each other.    *)
SomeoneProceeds ==
    \/ \E s \in Sessions : session[s] # Idle /\ Unhindered(s)
    \/ \A s \in Sessions : session[s] = Idle

(* No two requests wait for each other's locks: as long as a session is       *)
(* going on, some session can execute its next statement, and any can that    *)
(* waits for no lock.                                                         *)
NoStandstill ==
    /\ SomeoneProceeds
    /\ \A s \in Sessions : session[s] # Idle /\ Unhindered(s) => ENABLED Statement(s)

=============================================================================
