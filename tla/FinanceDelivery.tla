-------------------------- MODULE FinanceDelivery ---------------------------
(***************************************************************************)
(* The finance outbox and its deliveries: ledger transactions publish       *)
(* events, concurrent runs of send_finance_notifications plan them, claim   *)
(* their deliveries under a lease, recheck the source, send and record, and *)
(* the hourly prune closes and removes what is left.                        *)
(*                                                                          *)
(* Unlike the reminders, a run advances its `now` with a monotonic clock,   *)
(* so every action takes the time at which it happens, and both the recheck *)
(* and the record of an outcome are guarded by the attempt and the lease.   *)
(* Every action is one database transaction, one read or one awaited call.  *)
(***************************************************************************)
EXTENDS Integers, FiniteSets

CONSTANTS
    Events,         \* outbox rows that may come to exist
    Connections,    \* Telegram connections of the owner
    Zones,          \* time zones, as the ticks local time is ahead of the clock
    Workers,        \* concurrent executions of send_finance_notifications
    Web,            \* the author of a web operation
    NoKey,          \* the key of a worker that holds no delivery
    MonthLength,    \* ticks in a local month
    Lifetime, MaxAttempts, RetryInterval, ClaimLease, Retention, BatchSize,
    RetryAfters,    \* retry_after values Telegram may answer with
    LastPublish,    \* bound: the last tick events are published at
    LastClaim,      \* bound: the last tick deliveries are claimed at
    MaxTime,        \* bound: the last tick
    MaxChanges      \* bound: how many times settings and sources change

ASSUME TimeAssumption ==
    /\ Zones \subseteq Int
    /\ MonthLength \in Nat \ {0}
    /\ Lifetime \in Nat \ {0}
    /\ RetryInterval \in Nat \ {0}
    /\ ClaimLease \in Nat \ {0}
    /\ Retention \in Nat
    /\ RetryAfters \subseteq Nat /\ 0 \in RetryAfters
    /\ LastPublish \in Nat
    /\ LastClaim \in Nat
    /\ MaxTime \in Nat

ASSUME LimitAssumption ==
    /\ MaxAttempts \in Nat \ {0}
    /\ BatchSize \in Nat \ {0}
    /\ MaxChanges \in Nat

(* finance_delivery_once; the kind is that of the event. *)
Keys == [event : Events, conn : Connections]

ASSUME NameAssumption == NoKey \notin Keys /\ Web \notin Connections

VARIABLES
    clock,
    zone,         \* the tracker's time zone
    switch,       \* can_notify of the Workspace integration
    linked,       \* connections in state ACTIVE
    closed,       \* connections REVOKED or BLOCKED
    connectedAt,  \* when a connection was approved
    subscribed,   \* event kinds a connection is notified of
    source,       \* what the ledger says of the transaction of an event
    changes,      \* how many changes happened (for MaxChanges)
    events,       \* table finance_event
    rows,         \* table finance_delivery, by unique key
    worker,       \* the send_finance_notifications runs
    opened,       \* history: keys a delivery was ever created for
    claims,       \* history: claims per key
    calls,        \* history: send calls per key
    sent,         \* history: messages Telegram accepted per key, 2 for "several"
    outlived,     \* history: keys taken over from a run that was past its recheck
    unrecorded    \* history: keys whose accepted message was never recorded

settings == <<zone, switch, linked, closed, connectedAt, subscribed, source>>
history  == <<opened, claims, calls, sent, outlived, unrecorded>>
vars == <<clock, settings, changes, events, rows, worker, history>>

-----------------------------------------------------------------------------
(* Events, deliveries and runs *)

Kinds == {"transaction", "limit"}

Statuses == {"pending", "inProgress", "retry", "done", "canceled", "expired", "failed"}
Terminal == {"done", "canceled", "expired", "failed"}

NoTime == -1

NoEvent == [state |-> "unborn", kind |-> "transaction", author |-> Web,
            createdAt |-> 0, month |-> 0, planned |-> FALSE]

(* "none" stands for a row that does not exist. *)
NoRow == [status |-> "none", attempts |-> 0, claimedUntil |-> NoTime,
          nextAttemptAt |-> 0, updatedAt |-> 0]

Row == [status : Statuses \cup {"none"}, attempts : 0..MaxAttempts,
        claimedUntil : Int, nextAttemptAt : Int, updatedAt : Int]

Phases == {"idle", "run", "claimed", "asked", "priced", "read", "sending", "answered"}

IdleWorker == [phase |-> "idle", left |-> 0, key |-> NoKey, attempts |-> 0,
               allowed |-> FALSE, over |-> FALSE, current |-> FALSE,
               outcome |-> "none", nextAt |-> 0, unchanged |-> FALSE]

Live(e) == events[e].state = "live"

ExpiresAt(e) == events[e].createdAt + Lifetime

Open(r) == r.status \in Statuses \ Terminal

LeaseOver(r) == r.claimedUntil = NoTime \/ r.claimedUntil <= clock

MonthOf(time, z) == (time + z) \div MonthLength

(* Does the month of created_at, in the tracker's present zone, hold the      *)
(* transaction of e?                                                          *)
InMonth(e) == MonthOf(events[e].createdAt, zone) = events[e].month

-----------------------------------------------------------------------------
(* The ledger *)

(* FinanceEventService.publish with the commit of its transaction.  A web     *)
(* write may go to the previous month, a Telegram one may not.                *)
Publish(e) ==
    LET now == MonthOf(clock, zone)
        Born(kind, author, month) ==
            events' = [events EXCEPT ![e] =
                [state |-> "live", kind |-> kind, author |-> author,
                 createdAt |-> clock, month |-> month, planned |-> FALSE]]
    IN  /\ events[e].state = "unborn"
        /\ clock <= LastPublish
        /\ \/ \E kind \in Kinds, month \in {now - 1, now} : Born(kind, Web, month)
           \/ \E c \in linked : Born("transaction", c, now)
        /\ UNCHANGED <<clock, settings, changes, rows, worker, history>>

Changed ==
    /\ changes < MaxChanges
    /\ changes' = changes + 1
    /\ worker' = [w \in Workers |-> [worker[w] EXCEPT !.unchanged = FALSE]]
    /\ UNCHANGED <<clock, events, rows, history>>

(* update_transaction and set_transaction_deleted all bump the version. *)
EditTransaction(e) ==
    /\ Live(e) /\ ~source[e].edited
    /\ source' = [source EXCEPT ![e].edited = TRUE]
    /\ Changed
    /\ UNCHANGED <<zone, switch, linked, closed, connectedAt, subscribed>>

(* Another operation or plan takes the expenses across the limit. *)
CrossLimit(e) ==
    /\ Live(e) /\ events[e].kind = "limit"
    /\ source' = [source EXCEPT ![e].over = ~@]
    /\ Changed
    /\ UNCHANGED <<zone, switch, linked, closed, connectedAt, subscribed>>

(* sync_tracker_time_zone *)
ChangeZone ==
    /\ \E z \in Zones \ {zone} : zone' = z
    /\ Changed
    /\ UNCHANGED <<switch, linked, closed, connectedAt, subscribed, source>>

FlipSwitch ==
    /\ switch' = ~switch
    /\ Changed
    /\ UNCHANGED <<zone, linked, closed, connectedAt, subscribed, source>>

(* approve_connection of a pending connection *)
ApproveConnection(c) ==
    /\ c \notin linked \cup closed
    /\ linked' = linked \cup {c}
    /\ connectedAt' = [connectedAt EXCEPT ![c] = clock]
    /\ Changed
    /\ UNCHANGED <<zone, switch, closed, subscribed, source>>

(* change_connection_state to REVOKED or BLOCKED; it never is ACTIVE again. *)
CloseConnection(c) ==
    /\ c \in linked
    /\ linked' = linked \ {c}
    /\ closed' = closed \cup {c}
    /\ Changed
    /\ UNCHANGED <<zone, switch, connectedAt, subscribed, source>>

SetSubscription(c) ==
    /\ \E K \in SUBSET Kinds \ {subscribed[c]} : subscribed' = [subscribed EXCEPT ![c] = K]
    /\ Changed
    /\ UNCHANGED <<zone, switch, linked, closed, connectedAt, source>>

-----------------------------------------------------------------------------
(* A run: planning *)

PendingRow == [status |-> "pending", attempts |-> 0, claimedUntil |-> NoTime,
               nextAttemptAt |-> clock, updatedAt |-> clock]

Unplanned == {e \in Events : Live(e) /\ ~events[e].planned}

(* Deliveries the plan of the events E inserts. *)
Planned(E) ==
    {k \in Keys : /\ k.event \in E
                  /\ ExpiresAt(k.event) > clock
                  /\ k.conn \in linked
                  /\ connectedAt[k.conn] <= events[k.event].createdAt
                  /\ rows[k].status = "none"}

(* The task starts once the runtime status is ready; plan and its commit.     *)
(* SKIP LOCKED passes over events another plan has locked.                    *)
StartRun(w) ==
    /\ worker[w].phase = "idle"
    /\ worker' = [worker EXCEPT ![w].phase = "run", ![w].left = BatchSize]
    /\ \E E \in SUBSET Unplanned :
        /\ Cardinality(E) <= BatchSize
        /\ events' = [e \in Events |-> IF e \in E THEN [events[e] EXCEPT !.planned = TRUE]
                                                  ELSE events[e]]
        /\ rows' = [k \in Keys |-> IF k \in Planned(E) THEN PendingRow ELSE rows[k]]
        /\ opened' = opened \cup Planned(E)
    /\ UNCHANGED <<clock, settings, changes, claims, calls, sent, outlived, unrecorded>>

-----------------------------------------------------------------------------
(* A run: claims *)

(* claim first fails deliveries whose last attempt has been used up. *)
Swept(r) ==
    IF Open(r) /\ r.attempts >= MaxAttempts /\ LeaseOver(r)
    THEN [r EXCEPT !.status = "failed", !.updatedAt = clock, !.claimedUntil = NoTime]
    ELSE r

(* Mutant: claim without its attempts guard. *)
ClaimableForever(r) == Open(r) /\ r.nextAttemptAt <= clock /\ LeaseOver(r)

(* Mutant: claim without its due time. *)
ClaimableEarly(r) == Open(r) /\ LeaseOver(r) /\ r.attempts < MaxAttempts

Claimable(r) ==
    /\ Open(r)
    /\ r.nextAttemptAt <= clock
    /\ LeaseOver(r)
    /\ r.attempts < MaxAttempts

(* A run that got past refresh and has not recorded an outcome. *)
PastRefresh(w, k) == worker[w].key = k /\ worker[w].phase \in {"sending", "answered"}

Claim(w, k) ==
    LET attempts == rows[k].attempts + 1
    IN  /\ worker[w].phase = "run"
        /\ worker[w].left > 0
        /\ clock <= LastClaim
        /\ Claimable(rows[k])
        /\ rows' = [j \in Keys |->
                      IF j = k THEN [rows[k] EXCEPT !.status = "inProgress",
                                                    !.attempts = attempts,
                                                    !.claimedUntil = clock + ClaimLease,
                                                    !.updatedAt = clock]
                      ELSE Swept(rows[j])]
        /\ worker' = [worker EXCEPT ![w] =
                        [IdleWorker EXCEPT !.phase = "claimed", !.key = k,
                                           !.left = worker[w].left - 1,
                                           !.attempts = attempts, !.unchanged = TRUE]]
        /\ claims' = [claims EXCEPT ![k] = @ + 1]
        /\ outlived' = IF \E v \in Workers : PastRefresh(v, k)
                       THEN outlived \cup {k} ELSE outlived
        /\ UNCHANGED <<clock, settings, changes, events, opened, calls, sent, unrecorded>>

(* claim finds nothing; its sweep is committed all the same. *)
EndRun(w) ==
    /\ worker[w].phase = "run"
    /\ \A k \in Keys : ~Claimable(rows[k])
    /\ rows' = [k \in Keys |-> Swept(rows[k])]
    /\ worker' = [worker EXCEPT ![w] = IdleWorker]
    /\ UNCHANGED <<clock, settings, changes, events, history>>

-----------------------------------------------------------------------------
(* A run: one delivery *)

(* The loop goes on to its next claim, or the batch is used up. *)
Released(w) == IF worker[w].left = 0 THEN IdleWorker
               ELSE [IdleWorker EXCEPT !.phase = "run", !.left = worker[w].left]

Answered(w, outcome, nextAt) ==
    worker' = [worker EXCEPT ![w].phase = "answered", ![w].outcome = outcome,
                             ![w].nextAt = nextAt]

(* RETRY while attempts are left, FAILED then. *)
RetryOutcome(w) == IF worker[w].attempts < MaxAttempts THEN "retry" ELSE "failed"

AskSwitch(w) ==
    /\ worker[w].phase = "claimed"
    /\ \/ Answered(w, RetryOutcome(w), clock + RetryInterval)    \* TelegramServiceError
       \/ worker' = [worker EXCEPT ![w].phase = "asked", ![w].allowed = switch]
    /\ UNCHANGED <<clock, settings, changes, events, rows, history>>

(* get_month at created_at.  A month that does not exist is not told from one *)
(* without the transaction: both end in FinanceNotFoundError.                 *)
ReadMonth(w) ==
    LET e == worker[w].key.event
    IN  /\ worker[w].phase = "asked"
        /\ worker' = [worker EXCEPT ![w].phase = "priced",
                                    ![w].over = InMonth(e) /\ source[e].over]
        /\ UNCHANGED <<clock, settings, changes, events, rows, history>>

(* get_transaction looks among the transactions of the month of created_at. *)
ReadTransaction(w) ==
    LET e == worker[w].key.event
    IN  /\ worker[w].phase = "priced"
        /\ \/ ~InMonth(e) /\ Answered(w, "canceled", 0)
           \/ /\ InMonth(e)
              /\ worker' = [worker EXCEPT ![w].phase = "read",
                                          ![w].current = ~source[e].edited]
        /\ UNCHANGED <<clock, settings, changes, events, rows, history>>

(* Mutant: the attempt is not compared. *)
HeldByAnyone(w) == rows[worker[w].key].status = "inProgress"

(* The row is still the one w claimed. *)
Held(w) == LET r == rows[worker[w].key]
           IN  r.status = "inProgress" /\ r.attempts = worker[w].attempts

(* Mutant: the author of a Telegram operation is told of it. *)
EligibleAuthor(w) ==
    LET k == worker[w].key
    IN  /\ k.conn \in linked
        /\ events[k.event].kind \in subscribed[k.conn]
        /\ events[k.event].kind = "limit" => worker[w].over

(* FinanceDelivery.eligible, with the connection refresh has just read. *)
Eligible(w) ==
    LET k == worker[w].key
    IN  /\ k.conn \in linked
        /\ events[k.event].kind \in subscribed[k.conn]
        /\ IF events[k.event].kind = "transaction"
           THEN events[k.event].author # k.conn
           ELSE worker[w].over

(* refresh and the decision *)
Refresh(w) ==
    LET k == worker[w].key
        held == Held(w) /\ rows[k].claimedUntil > clock
        send == Eligible(w) /\ worker[w].current /\ worker[w].allowed
    IN  /\ worker[w].phase = "read"
        /\ \/ ~held /\ worker' = [worker EXCEPT ![w] = Released(w)]
           \/ held /\ ExpiresAt(k.event) <= clock /\ Answered(w, "expired", 0)
           \/ held /\ ExpiresAt(k.event) > clock /\ ~send /\ Answered(w, "canceled", 0)
           \/ /\ held /\ ExpiresAt(k.event) > clock /\ send
              /\ worker' = [worker EXCEPT ![w].phase = "sending"]
        /\ UNCHANGED <<clock, settings, changes, events, rows, history>>

Accepted(k) == [sent EXCEPT ![k] = IF @ < 2 THEN @ + 1 ELSE 2]

(* AiogramReminderSender.send.  Any other API error, a timeout among them,   *)
(* is retryable after 0 and says nothing of whether the message went out.    *)
Send(w) ==
    LET k == worker[w].key
        Pause(after) == clock + IF after > RetryInterval THEN after ELSE RetryInterval
    IN  /\ worker[w].phase = "sending"
        /\ calls' = [calls EXCEPT ![k] = @ + 1]
        /\ \/ Answered(w, "done", 0) /\ sent' = Accepted(k) /\ UNCHANGED unrecorded
           \/ Answered(w, "failed", 0) /\ UNCHANGED <<sent, unrecorded>>
           \/ \E after \in RetryAfters :
                Answered(w, RetryOutcome(w), Pause(after)) /\ UNCHANGED <<sent, unrecorded>>
           \/ /\ Answered(w, RetryOutcome(w), Pause(0))
              /\ sent' = Accepted(k)
              /\ unrecorded' = unrecorded \cup {k}
        /\ UNCHANGED <<clock, settings, changes, events, rows, opened, claims, outlived>>

Finished(w) ==
    [rows[worker[w].key] EXCEPT !.status = worker[w].outcome, !.updatedAt = clock,
                                !.claimedUntil = NoTime, !.nextAttemptAt = worker[w].nextAt]

(* Mutant: finish without its guard, as the reminders' mark_* are. *)
FinishUnguarded(w) ==
    /\ worker[w].phase = "answered"
    /\ rows' = IF rows[worker[w].key].status # "none"
               THEN [rows EXCEPT ![worker[w].key] = Finished(w)] ELSE rows
    /\ worker' = [worker EXCEPT ![w] = Released(w)]
    /\ UNCHANGED <<clock, settings, changes, events, history>>

(* finish writes the outcome only if the attempt is still this run's. *)
Finish(w) ==
    /\ worker[w].phase = "answered"
    /\ rows' = IF Held(w) THEN [rows EXCEPT ![worker[w].key] = Finished(w)] ELSE rows
    /\ worker' = [worker EXCEPT ![w] = Released(w)]
    /\ UNCHANGED <<clock, settings, changes, events, history>>

(* The worker process dies, or the database fails it: nothing is recorded. *)
Crash(w) ==
    /\ worker[w].phase # "idle"
    /\ worker' = [worker EXCEPT ![w] = IdleWorker]
    /\ unrecorded' = IF worker[w].outcome = "done"
                     THEN unrecorded \cup {worker[w].key} ELSE unrecorded
    /\ UNCHANGED <<clock, settings, changes, events, rows,
                   opened, claims, calls, sent, outlived>>

-----------------------------------------------------------------------------
(* The hourly prune, time *)

(* Mutant: the prune leaves claimed deliveries to their runs. *)
ExpiredUnclaimed(k) ==
    LET r == rows[k]
    IN  IF r.status \in {"pending", "retry"} /\ ExpiresAt(k.event) <= clock
        THEN [r EXCEPT !.status = "expired", !.updatedAt = clock, !.claimedUntil = NoTime]
        ELSE r

(* An open delivery of an expired event ends unless a lease runs. *)
Expired(k) ==
    LET r == rows[k]
    IN  IF Open(r) /\ LeaseOver(r) /\ ExpiresAt(k.event) <= clock
        THEN [r EXCEPT !.status = "expired", !.updatedAt = clock, !.claimedUntil = NoTime]
        ELSE r

Pruned(k) == IF Expired(k).status \in Terminal /\ Expired(k).updatedAt < clock - Retention
             THEN NoRow ELSE Expired(k)

(* Events go once they are past retention and have no delivery left. *)
Forgotten(e) == /\ Live(e)
                /\ ExpiresAt(e) < clock - Retention
                /\ \A c \in Connections : Pruned([event |-> e, conn |-> c]).status = "none"

Prune ==
    /\ rows' = [k \in Keys |-> Pruned(k)]
    /\ events' = [e \in Events |-> IF Forgotten(e) THEN [events[e] EXCEPT !.state = "removed"]
                                                   ELSE events[e]]
    /\ UNCHANGED <<clock, settings, changes, worker, history>>

Tick ==
    /\ clock < MaxTime
    /\ clock' = clock + 1
    /\ UNCHANGED <<settings, changes, events, rows, worker, history>>

-----------------------------------------------------------------------------
(* Specification *)

Init ==
    /\ clock = 0
    /\ zone \in Zones
    /\ switch = TRUE
    /\ linked \in SUBSET Connections
    /\ closed = {}
    /\ connectedAt = [c \in Connections |-> 0]
    /\ subscribed = [c \in Connections |-> Kinds]
    /\ source = [e \in Events |-> [edited |-> FALSE, over |-> TRUE]]
    /\ changes = 0
    /\ events = [e \in Events |-> NoEvent]
    /\ rows = [k \in Keys |-> NoRow]
    /\ worker = [w \in Workers |-> IdleWorker]
    /\ opened = {}
    /\ claims = [k \in Keys |-> 0]
    /\ calls = [k \in Keys |-> 0]
    /\ sent = [k \in Keys |-> 0]
    /\ outlived = {}
    /\ unrecorded = {}

DeliveryStep(w) == \/ AskSwitch(w) \/ ReadMonth(w) \/ ReadTransaction(w)
                   \/ Refresh(w) \/ Send(w) \/ Finish(w)

WorkerStep(w) == \/ StartRun(w) \/ EndRun(w) \/ Crash(w)
                 \/ \E k \in Keys : Claim(w, k)
                 \/ DeliveryStep(w)

ChangeStep == \/ ChangeZone \/ FlipSwitch
              \/ \E c \in Connections : \/ ApproveConnection(c) \/ CloseConnection(c)
                                        \/ SetSubscription(c)
              \/ \E e \in Events : EditTransaction(e) \/ CrossLimit(e)

Next == \/ \E e \in Events : Publish(e)
        \/ \E w \in Workers : WorkerStep(w)
        \/ ChangeStep
        \/ Prune
        \/ Tick

Spec == Init /\ [][Next]_vars

(* Time passes and TaskIQ runs the prune every hour.  Nothing is assumed of   *)
(* the runs: they stop with the bot's runtime status, and may hang or die.    *)
FairSpec == Spec /\ WF_vars(Tick) /\ WF_vars(Prune)

-----------------------------------------------------------------------------
(* Properties *)

Event == [state : {"unborn", "live", "removed"}, kind : Kinds,
          author : Connections \cup {Web}, createdAt : Nat, month : Int, planned : BOOLEAN]

Run == [phase : Phases, left : 0..BatchSize, key : Keys \cup {NoKey},
        attempts : 0..MaxAttempts, allowed : BOOLEAN, over : BOOLEAN, current : BOOLEAN,
        outcome : {"none", "done", "failed", "retry", "canceled", "expired"},
        nextAt : Int, unchanged : BOOLEAN]

(* Every variable has its type; in particular no sequence of claims,         *)
(* takeovers and sweeps takes a delivery past max_attempts.                   *)
TypeOK ==
    /\ clock \in 0..MaxTime
    /\ zone \in Zones
    /\ switch \in BOOLEAN
    /\ linked \subseteq Connections
    /\ closed \subseteq Connections
    /\ connectedAt \in [Connections -> Nat]
    /\ subscribed \in [Connections -> SUBSET Kinds]
    /\ source \in [Events -> [edited : BOOLEAN, over : BOOLEAN]]
    /\ changes \in 0..MaxChanges
    /\ events \in [Events -> Event]
    /\ rows \in [Keys -> Row]
    /\ worker \in [Workers -> Run]
    /\ opened \subseteq Keys
    /\ claims \in [Keys -> Nat]
    /\ calls \in [Keys -> Nat]
    /\ sent \in [Keys -> 0..2]
    /\ outlived \subseteq Keys
    /\ unrecorded \subseteq Keys

(* docs/finance-tracker-architecture.md §9.3: a repeated message needs a run  *)
(* that dies, loses Telegram's answer, or outlives its lease between its      *)
(* recheck and its record.  A run that was merely slow before the recheck,    *)
(* a sweep, a retry or the prune never repeats a message.                     *)
DuplicateNeedsFault ==
    \A k \in Keys : sent[k] > 1 => k \in outlived \cup unrecorded

(* The delivery as the contract sees it. *)
Stage(k) == IF Open(rows[k]) THEN "open"
            ELSE IF rows[k].status \in Terminal THEN "closed"
            ELSE IF k \in opened THEN "gone" ELSE "new"

Contract == INSTANCE DeliveryContract WITH
    MaxTries <- MaxAttempts,
    stage <- [k \in Keys |-> Stage(k)],
    issued <- claims,
    used <- calls

(* The outbox implements the delivery contract: whatever the interleaving of  *)
(* runs, crashes and prunes, a delivery opens once, is claimed at most        *)
(* max_attempts times in its life, Telegram is called at most once per claim, *)
(* and a terminal or pruned delivery is neither claimed nor reopened.         *)
ImplementsContract == Contract!Spec

(* What a participant, the owner or the ledger has said against k. *)
Refused(k) ==
    LET e == k.event
    IN  \/ ~switch
        \/ k.conn \notin linked
        \/ events[e].kind \notin subscribed[k.conn]
        \/ events[e].kind = "transaction" /\ events[e].author = k.conn
        \/ source[e].edited
        \/ events[e].kind = "limit" /\ ~source[e].over

(* A refusal that stands since the claim is honoured: with the integration   *)
(* off, the connection not ACTIVE, the kind unsubscribed, the participant its *)
(* author, the source edited or back under its limit, no run gets to send.    *)
RefusalHonoured ==
    \A w \in Workers : worker[w].phase = "sending" /\ worker[w].unchanged =>
        ~Refused(worker[w].key)

(* The claim w records the cancellation of, with nothing changed since. *)
Cancels(w, k) ==
    /\ worker[w].key = k /\ worker[w].outcome = "canceled" /\ worker[w].unchanged
    /\ rows[k].status # "canceled" /\ rows'[k].status = "canceled"

(* The recheck decides, both ways: a refusal is honoured, and a delivery is    *)
(* canceled only for a refusal, or because the month of created_at in the     *)
(* tracker's zone is not the transaction's.                                   *)
RecheckDecides ==
    [][ /\ RefusalHonoured'
        /\ \A w \in Workers, k \in Keys :
              Cancels(w, k) => Refused(k) \/ ~InMonth(k.event) ]_vars

(* docs/finance-tracker-architecture.md:455, "web creations go to all         *)
(* subscribed active connections".  It fails for a transaction written to the *)
(* previous month: the run looks for it in the month of created_at.           *)
WebCreationsReachSubscribers ==
    [][\A w \in Workers, k \in Keys :
          Cancels(w, k) /\ events[k.event].author = Web => Refused(k)]_vars

(* The pause a temporary failure recorded (retry_interval or Telegram's       *)
(* retry_after) is kept before the next call, takeovers included, unless a    *)
(* run outlived its lease past the recheck.                                   *)
RetrySpaced ==
    [][\A k \in Keys : calls'[k] # calls[k] /\ rows[k].status # "none" /\ k \notin outlived
          => clock >= rows[k].nextAttemptAt]_vars

(* A planned delivery does not stay open for ever, whatever dies: claims go   *)
(* on past the event's expiry, but use attempts up, and the prune closes what *)
(* no lease protects.                                                         *)
EventuallyClosed == \A k \in Keys : Open(rows[k]) ~> ~Open(rows[k])

=============================================================================
