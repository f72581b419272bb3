-------------------------- MODULE ReminderDelivery --------------------------
(***************************************************************************)
(* Calendar reminders of one workspace owner: the planner that upserts      *)
(* delivery rows, concurrent sender runs that claim, recheck, send and      *)
(* record them, the hourly prune, and the settings they all read.           *)
(*                                                                          *)
(* Every action is one database transaction or one awaited call of          *)
(* core/notifications and its PostgreSQL storage; other processes run       *)
(* between two of them.  Time is an integer tick, one clock for all hosts,  *)
(* and a run keeps the `now` it was started with, as the tasks do.  Rows    *)
(* locked by a transaction that is still open are never visible half-way.   *)
(***************************************************************************)
EXTENDS Integers, FiniteSets

CONSTANTS
    Connections,    \* Telegram connections of the owner
    Items,          \* people and memorable dates of the owner
    Kinds,          \* ReminderKind
    KindOf,         \* the kind of each item
    Dates,          \* occurrence dates that matter, as day numbers
    Leads,          \* lead days (7 and 1 in the code)
    Zones,          \* time zones, as the ticks local time is ahead of the clock
    Workers,        \* concurrent executions of the send_reminders task
    DayLength,      \* ticks in a local day
    SendTime,       \* ticks from local midnight to 09:00
    MaxAttempts, RetryInterval, ClaimLease, Retention, BatchSize,
    RetryAfters,    \* retry_after values Telegram may answer with
    NoKey,          \* the key of a worker that holds no delivery
    PlanBound,      \* bound: ticks a planner run may take
    MaxTime,        \* bound: the last tick
    MaxChanges      \* bound: how many times settings change

ASSUME TimeAssumption ==
    /\ DayLength \in Nat \ {0}
    /\ SendTime \in 0..(DayLength - 1)
    /\ Zones \subseteq Int
    /\ Dates \subseteq Int
    /\ Leads \subseteq Nat

ASSUME LimitAssumption ==
    /\ MaxAttempts \in Nat \ {0}
    /\ RetryInterval \in Nat \ {0}
    /\ ClaimLease \in Nat \ {0}
    /\ Retention \in Nat
    /\ BatchSize \in Nat \ {0}
    /\ RetryAfters \subseteq Nat /\ 0 \in RetryAfters
    /\ PlanBound \in Nat
    /\ MaxTime \in Nat
    /\ MaxChanges \in Nat

(* What the prune deletes is past planning again: a delivery that ended at the *)
(* send time in zone y is kept until its day is over in every zone z, for a    *)
(* planner run that read the clock before too.  The code keeps it for 90 days. *)
ASSUME RetentionAssumption ==
    \A y, z \in Zones : DayLength - SendTime + (y - z) + PlanBound <= Retention + 1

ASSUME ItemAssumption == KindOf \in [Items -> Kinds]

(* ReminderDeliveryKey; the kind is that of the item. *)
Keys == [conn : Connections, item : Items, date : Dates, lead : Leads]

ASSUME NoKeyAssumption == NoKey \notin Keys

VARIABLES
    clock,
    zone,         \* account time zone kept by auth-api
    switch,       \* can_notify of the Workspace integration
    linked,       \* connections in state ACTIVE
    closed,       \* connections REVOKED or BLOCKED: a later one is a new row
    subscribed,   \* kinds a connection has notifications on for
    occurs,       \* dates an item falls on, {} when gone or notifications off
    changes,      \* how many settings changes happened (for MaxChanges)
    rows,         \* table reminder_delivery, by unique key
    planner,      \* the plan_reminders run
    worker,       \* the send_reminders runs
    sent,         \* history: messages Telegram accepted per key, 2 for "several"
    calls,        \* history: send calls of claims made since the row was last reset
    overlap,      \* history: keys two runs have held at the same time
    unrecorded    \* history: keys whose accepted message was never recorded

settings == <<zone, switch, linked, closed, subscribed, occurs>>
history  == <<sent, calls, overlap, unrecorded>>
vars == <<clock, settings, changes, rows, planner, worker, history>>

-----------------------------------------------------------------------------
(* Rows, windows and runs *)

Statuses == {"pending", "inProgress", "retry", "done", "canceled", "expired", "failed"}
Terminal == {"done", "canceled", "expired", "failed"}

NoTime == -1

(* "none" stands for a row that does not exist. *)
NoRow == [status |-> "none", attempts |-> 0, claimedUntil |-> NoTime,
          scheduledAt |-> 0, nextAttemptAt |-> 0, expiresAt |-> 0, updatedAt |-> 0]

Row == [status : Statuses \cup {"none"}, attempts : 0..MaxAttempts,
        claimedUntil : Int, scheduledAt : Int, nextAttemptAt : Int,
        expiresAt : Int, updatedAt : Int]

LocalDate(now, z) == (now + z) \div DayLength

(* Mutant: the local send time taken for a UTC one. *)
SendAtUtc(now, z) == LocalDate(now, z) * DayLength + SendTime

SendAt(now, z) == LocalDate(now, z) * DayLength + SendTime - z

ExpiresAt(now, z) == (LocalDate(now, z) + 1) * DayLength - z

(* ReminderWindow.eligible: the local time is past the local send time. *)
Eligible(now, z) == now >= SendAt(now, z)

NoPlan == [on |-> FALSE, now |-> 0, todo |-> {}]

Phases == {"idle", "run", "claimed", "resolved", "current", "allowed", "answered"}

IdleWorker == [phase |-> "idle", now |-> 0, left |-> 0, key |-> NoKey,
               attempts |-> 0, scheduledAt |-> 0, expiresAt |-> 0, zone |-> 0,
               outcome |-> "none", retryAfter |-> 0,
               fresh |-> FALSE, unchanged |-> FALSE]

Holds(w, k) == worker[w].key = k

-----------------------------------------------------------------------------
(* The planner *)

(* list_sources: birthdays or memorable dates whose day it is. *)
Sources(kind, date) == {i \in Items : KindOf[i] = kind /\ date \in occurs[i]}

(* What plan_recipient upserts for r in a window of zone z.  ReminderSource *)
(* and list_sources agree on the items that fall on the day.                *)
DueKeys(r, now, z) ==
    {k \in Keys : /\ k.conn = r.conn
                  /\ k.date = LocalDate(now, z) + k.lead
                  /\ \E kind \in r.kinds : k.item \in Sources(kind, k.date)}

(* The upsert inserts a missing row; an existing one only on this condition. *)
Replannable(r, sendAt, expiresAt) ==
    \/ r.status \in {"none", "canceled", "expired"}
    \/ /\ r.status \in {"pending", "retry"}
       /\ r.scheduledAt # sendAt \/ r.expiresAt # expiresAt

(* A row as plan and reschedule (re)set it. *)
PendingRow(now, sendAt, expiresAt) ==
    [status |-> "pending", attempts |-> 0, claimedUntil |-> NoTime,
     scheduledAt |-> sendAt, nextAttemptAt |-> sendAt,
     expiresAt |-> expiresAt, updatedAt |-> now]

(* Setting rows K to row, with the history of a reset. *)
Reset(K, row) ==
    /\ rows' = [k \in Keys |-> IF k \in K THEN row ELSE rows[k]]
    /\ calls' = [k \in Keys |-> IF k \in K THEN 0 ELSE calls[k]]

Outdated(w, K) == [worker[w] EXCEPT !.fresh = @ /\ worker[w].key \notin K]

(* list_recipients: one page of ACTIVE connections with a notify flag set.   *)
(* The page is read once, the recipients on it are planned one by one.       *)
StartPlan ==
    LET listed == {c \in linked : subscribed[c] # {}}
    IN  /\ ~planner.on
        /\ listed # {}
        /\ planner' = [on |-> TRUE, now |-> clock,
                       todo |-> {[conn |-> c, kinds |-> subscribed[c]] : c \in listed}]
        /\ UNCHANGED <<clock, settings, changes, rows, worker, history>>

PlanNext(r) == IF planner.todo = {r} THEN NoPlan
                                     ELSE [planner EXCEPT !.todo = @ \ {r}]

(* The account's zone is read, its keys are upserted, the recipient commits. *)
PlanRecipient(r) ==
    LET sendAt == SendAt(planner.now, zone)
        expiresAt == ExpiresAt(planner.now, zone)
        K == {k \in DueKeys(r, planner.now, zone) :
                Replannable(rows[k], sendAt, expiresAt)}
    IN  /\ r \in planner.todo
        /\ planner' = PlanNext(r)
        /\ Reset(K, PendingRow(planner.now, sendAt, expiresAt))
        /\ worker' = [w \in Workers |-> Outdated(w, K)]
        /\ UNCHANGED <<clock, settings, changes, sent, overlap, unrecorded>>

(* AccountTimeZoneUnavailableError: the recipient is left for the next run. *)
SkipRecipient(r) ==
    /\ r \in planner.todo
    /\ planner' = PlanNext(r)
    /\ UNCHANGED <<clock, settings, changes, rows, worker, history>>

(* The planner's process dies; what it committed stays. *)
CrashPlan ==
    /\ planner.on
    /\ planner' = NoPlan
    /\ UNCHANGED <<clock, settings, changes, rows, worker, history>>

-----------------------------------------------------------------------------
(* A sender run: claims *)

(* Mutant: claim_due without its attempts guard. *)
ClaimableForever(r, now) ==
    /\ r.expiresAt > now
    /\ \/ r.status \in {"pending", "retry"} /\ r.nextAttemptAt <= now
       \/ r.status = "inProgress" /\ r.claimedUntil <= now

Claimable(r, now) ==
    /\ r.expiresAt > now
    /\ r.attempts < MaxAttempts
    /\ \/ r.status \in {"pending", "retry"} /\ r.nextAttemptAt <= now
       \/ r.status = "inProgress" /\ r.claimedUntil <= now

(* The task starts once TelegramRuntimeStatusStore.is_ready says so. *)
StartRun(w) ==
    /\ worker[w].phase = "idle"
    /\ worker' = [worker EXCEPT ![w].phase = "run", ![w].now = clock,
                                ![w].left = BatchSize]
    /\ UNCHANGED <<clock, settings, changes, rows, planner, history>>

(* claim_due and its commit.  The order by next_attempt_at does not bind:    *)
(* SKIP LOCKED passes over any row another transaction has locked.           *)
Claim(w, k) ==
    LET now == worker[w].now
    IN  /\ worker[w].phase = "run"
        /\ worker[w].left > 0
        /\ Claimable(rows[k], now)
        /\ rows' = [rows EXCEPT ![k].status = "inProgress", ![k].attempts = @ + 1,
                                ![k].claimedUntil = now + ClaimLease,
                                ![k].updatedAt = now]
        /\ worker' = [worker EXCEPT ![w] =
                        [worker[w] EXCEPT !.phase = "claimed", !.key = k,
                                  !.left = worker[w].left - 1,
                                  !.attempts = rows[k].attempts + 1,
                                  !.scheduledAt = rows[k].scheduledAt,
                                  !.expiresAt = rows[k].expiresAt,
                                  !.fresh = TRUE, !.unchanged = TRUE]]
        /\ overlap' = IF \E v \in Workers \ {w} : Holds(v, k)
                      THEN overlap \cup {k} ELSE overlap
        /\ UNCHANGED <<clock, settings, changes, planner, sent, calls, unrecorded>>

EndRun(w) ==
    /\ worker[w].phase = "run"
    /\ \A k \in Keys : ~Claimable(rows[k], worker[w].now)
    /\ worker' = [worker EXCEPT ![w] = IdleWorker]
    /\ UNCHANGED <<clock, settings, changes, rows, planner, history>>

-----------------------------------------------------------------------------
(* A sender run: one delivery.  mark_* update whatever row has the key, in    *)
(* whatever state it is by now; reschedule and defer require IN_PROGRESS.     *)

Marked(r, status, now) == IF r.status = "none" THEN r
                          ELSE [r EXCEPT !.status = status, !.updatedAt = now]

(* Mutant: a temporary failure of Telegram gives the attempt back. *)
RetriedRowForFree(r, now, nextAttemptAt) ==
    IF r.status = "none" THEN r
    ELSE [r EXCEPT !.status = "retry", !.nextAttemptAt = nextAttemptAt, !.updatedAt = now,
                   !.attempts = IF @ > 0 THEN @ - 1 ELSE 0]

(* mark_retry keeps claimed_until. *)
RetriedRow(r, now, nextAttemptAt) ==
    IF r.status = "none" THEN r
    ELSE [r EXCEPT !.status = "retry", !.nextAttemptAt = nextAttemptAt, !.updatedAt = now]

(* defer_without_attempt gives the attempt back. *)
DeferredRow(r, now, nextAttemptAt) ==
    IF r.status # "inProgress" THEN r
    ELSE [r EXCEPT !.status = "retry", !.claimedUntil = NoTime, !.updatedAt = now,
                   !.attempts = IF @ > 0 THEN @ - 1 ELSE 0,
                   !.nextAttemptAt = nextAttemptAt]

(* The loop goes on to its next claim, or the batch is used up. *)
Released(w) == IF worker[w].left = 0 THEN IdleWorker
               ELSE [IdleWorker EXCEPT !.phase = "run", !.now = worker[w].now,
                                       !.left = worker[w].left]

(* The delivery of w ends with its row set to row, and the run goes on. *)
Finish(w, row) ==
    /\ rows' = [rows EXCEPT ![worker[w].key] = row]
    /\ worker' = [worker EXCEPT ![w] = Released(w)]
    /\ UNCHANGED calls

FinishMarked(w, status) ==
    Finish(w, Marked(rows[worker[w].key], status, worker[w].now))

(* _defer_account_unavailable *)
Defer(w) ==
    LET next == worker[w].now + RetryInterval
    IN  IF next >= worker[w].expiresAt
        THEN FinishMarked(w, "expired")
        ELSE Finish(w, DeferredRow(rows[worker[w].key], worker[w].now, next))

(* reschedule: the row moves to the window of the account's present zone. *)
Reschedule(w) ==
    LET k == worker[w].key
        K == IF rows[k].status = "inProgress" THEN {k} ELSE {}
        now == worker[w].now
    IN  /\ Reset(K, PendingRow(now, SendAt(now, zone), ExpiresAt(now, zone)))
        /\ worker' = [v \in Workers |-> IF v = w THEN Released(w) ELSE Outdated(v, K)]

SameDay(w) == LocalDate(worker[w].now, zone) + worker[w].key.lead = worker[w].key.date

SameWindow(w) == /\ worker[w].scheduledAt = SendAt(worker[w].now, zone)
                 /\ worker[w].expiresAt = ExpiresAt(worker[w].now, zone)

(* send_delivery up to the window comparison: the recipient is read, then    *)
(* the account's zone.                                                        *)
Resolve(w) ==
    /\ worker[w].phase = "claimed"
    /\ \/ worker[w].key.conn \notin linked /\ FinishMarked(w, "canceled")
       \/ worker[w].key.conn \in linked /\ Defer(w)
       \/ worker[w].key.conn \in linked /\ ~SameDay(w) /\ FinishMarked(w, "canceled")
       \/ worker[w].key.conn \in linked /\ SameDay(w) /\ ~SameWindow(w) /\ Reschedule(w)
       \/ /\ worker[w].key.conn \in linked /\ SameDay(w) /\ SameWindow(w)
          /\ worker' = [worker EXCEPT ![w].phase = "resolved", ![w].zone = zone]
          /\ UNCHANGED <<rows, calls>>
    /\ UNCHANGED <<clock, settings, changes, planner, sent, overlap, unrecorded>>

(* Mutant: the source planned for is trusted at send time. *)
IsCurrentUnlessGone(w) ==
    LET k == worker[w].key
    IN  /\ k.conn \in linked
        /\ KindOf[k.item] \in subscribed[k.conn]
        /\ Eligible(worker[w].now, worker[w].zone)
        /\ LocalDate(worker[w].now, worker[w].zone) + k.lead = k.date

(* get_current: connection, subscription, window and source are read again. *)
IsCurrent(w) ==
    LET k == worker[w].key
    IN  /\ k.conn \in linked
        /\ KindOf[k.item] \in subscribed[k.conn]
        /\ Eligible(worker[w].now, worker[w].zone)
        /\ LocalDate(worker[w].now, worker[w].zone) + k.lead = k.date
        /\ k.date \in occurs[k.item]

Recheck(w) ==
    /\ worker[w].phase = "resolved"
    /\ \/ ~IsCurrent(w) /\ FinishMarked(w, "canceled")
       \/ /\ IsCurrent(w)
          /\ worker' = [worker EXCEPT ![w].phase = "current"]
          /\ UNCHANGED <<rows, calls>>
    /\ UNCHANGED <<clock, settings, changes, planner, sent, overlap, unrecorded>>

(* can_notify: the switch, or TelegramServiceError. *)
AskSwitch(w) ==
    /\ worker[w].phase = "current"
    /\ \/ Defer(w)
       \/ ~switch /\ FinishMarked(w, "canceled")
       \/ /\ switch
          /\ worker' = [worker EXCEPT ![w].phase = "allowed"]
          /\ UNCHANGED <<rows, calls>>
    /\ UNCHANGED <<clock, settings, changes, planner, sent, overlap, unrecorded>>

Called(w) == LET k == worker[w].key
             IN  IF worker[w].fresh THEN [calls EXCEPT ![k] = @ + 1] ELSE calls

Accepted(k) == [sent EXCEPT ![k] = IF @ < 2 THEN @ + 1 ELSE 2]

(* AiogramReminderSender.send.  Any other API error, a timeout among them,   *)
(* is retryable after 0 and says nothing of whether the message went out.    *)
Send(w) ==
    LET k == worker[w].key
        Answer(outcome, after) ==
            worker' = [worker EXCEPT ![w].phase = "answered", ![w].outcome = outcome,
                                     ![w].retryAfter = after]
    IN  /\ worker[w].phase = "allowed"
        /\ calls' = Called(w)
        /\ \/ Answer("done", 0) /\ sent' = Accepted(k) /\ UNCHANGED unrecorded
           \/ Answer("failed", 0) /\ UNCHANGED <<sent, unrecorded>>
           \/ \E after \in RetryAfters :
                Answer("retry", after) /\ UNCHANGED <<sent, unrecorded>>
           \/ /\ Answer("retry", 0)
              /\ sent' = Accepted(k)
              /\ unrecorded' = unrecorded \cup {k}
        /\ UNCHANGED <<clock, settings, changes, rows, planner, overlap>>

(* _retry_or_finish *)
RetryOrFinish(w) ==
    LET after == worker[w].retryAfter
        next == worker[w].now + IF after > RetryInterval THEN after ELSE RetryInterval
    IN  IF worker[w].attempts >= MaxAttempts THEN FinishMarked(w, "failed")
        ELSE IF next >= worker[w].expiresAt THEN FinishMarked(w, "expired")
        ELSE Finish(w, RetriedRow(rows[worker[w].key], worker[w].now, next))

(* The outcome is written and committed. *)
Record(w) ==
    /\ worker[w].phase = "answered"
    /\ \/ worker[w].outcome \in {"done", "failed"} /\ FinishMarked(w, worker[w].outcome)
       \/ worker[w].outcome = "retry" /\ RetryOrFinish(w)
    /\ UNCHANGED <<clock, settings, changes, planner, sent, overlap, unrecorded>>

(* The worker process dies, or the database fails it: nothing is recorded. *)
Crash(w) ==
    /\ worker[w].phase # "idle"
    /\ worker' = [worker EXCEPT ![w] = IdleWorker]
    /\ unrecorded' = IF worker[w].outcome = "done"
                     THEN unrecorded \cup {worker[w].key} ELSE unrecorded
    /\ UNCHANGED <<clock, settings, changes, rows, planner, sent, calls, overlap>>

-----------------------------------------------------------------------------
(* The hourly prune, the owner and the participant, time *)

(* Mutant: claimed rows are left to their runs. *)
PrunedUnclaimedRow(r) ==
    LET e == IF r.status \in {"pending", "retry"} /\ r.expiresAt <= clock
             THEN [r EXCEPT !.status = "expired", !.updatedAt = clock] ELSE r
    IN  IF e.status \in Terminal /\ e.updatedAt < clock - Retention THEN NoRow ELSE e

(* expire_and_prune of one row. *)
PrunedRow(r) ==
    LET e == IF r.status \in Statuses \ Terminal /\ r.expiresAt <= clock
             THEN [r EXCEPT !.status = "expired", !.updatedAt = clock] ELSE r
    IN  IF e.status \in Terminal /\ e.updatedAt < clock - Retention THEN NoRow ELSE e

Prune ==
    /\ rows' = [k \in Keys |-> PrunedRow(rows[k])]
    /\ UNCHANGED <<clock, settings, changes, planner, worker, history>>

Changed ==
    /\ changes < MaxChanges
    /\ changes' = changes + 1
    /\ worker' = [w \in Workers |-> [worker[w] EXCEPT !.unchanged = FALSE]]
    /\ UNCHANGED <<clock, rows, planner, history>>

ChangeZone ==
    /\ \E z \in Zones \ {zone} : zone' = z
    /\ Changed
    /\ UNCHANGED <<switch, linked, closed, subscribed, occurs>>

FlipSwitch ==
    /\ switch' = ~switch
    /\ Changed
    /\ UNCHANGED <<zone, linked, closed, subscribed, occurs>>

(* approve_connection of a pending connection *)
ApproveConnection(c) ==
    /\ c \notin linked \cup closed
    /\ linked' = linked \cup {c}
    /\ Changed
    /\ UNCHANGED <<zone, switch, closed, subscribed, occurs>>

(* change_connection_state to REVOKED or BLOCKED *)
CloseConnection(c) ==
    /\ c \in linked
    /\ linked' = linked \ {c}
    /\ closed' = closed \cup {c}
    /\ Changed
    /\ UNCHANGED <<zone, switch, subscribed, occurs>>

SetSubscription(c) ==
    /\ \E K \in SUBSET Kinds \ {subscribed[c]} : subscribed' = [subscribed EXCEPT ![c] = K]
    /\ Changed
    /\ UNCHANGED <<zone, switch, linked, closed, occurs>>

(* An item is edited, muted or deleted. *)
EditItem(i) ==
    /\ \E D \in SUBSET Dates \ {occurs[i]} : occurs' = [occurs EXCEPT ![i] = D]
    /\ Changed
    /\ UNCHANGED <<zone, switch, linked, closed, subscribed>>

Tick ==
    /\ clock < MaxTime
    /\ planner.on => clock < planner.now + PlanBound
    /\ clock' = clock + 1
    /\ UNCHANGED <<settings, changes, rows, planner, worker, history>>

-----------------------------------------------------------------------------
(* Specification *)

Init ==
    /\ clock = 0
    /\ zone \in Zones
    /\ switch = TRUE
    /\ linked \in SUBSET Connections
    /\ closed = {}
    /\ subscribed = [c \in Connections |-> Kinds]
    /\ occurs = [i \in Items |-> Dates]
    /\ changes = 0
    /\ rows = [k \in Keys |-> NoRow]
    /\ planner = NoPlan
    /\ worker = [w \in Workers |-> IdleWorker]
    /\ sent = [k \in Keys |-> 0]
    /\ calls = [k \in Keys |-> 0]
    /\ overlap = {}
    /\ unrecorded = {}

PlannerRun == \/ \E r \in planner.todo : PlanRecipient(r) \/ SkipRecipient(r)
              \/ CrashPlan

DeliveryStep(w) == \/ Resolve(w) \/ Recheck(w) \/ AskSwitch(w)
                   \/ Send(w) \/ Record(w)

WorkerStep(w) == \/ StartRun(w) \/ EndRun(w) \/ Crash(w)
                 \/ \E k \in Keys : Claim(w, k)
                 \/ DeliveryStep(w)

SettingsStep == \/ ChangeZone \/ FlipSwitch
                \/ \E c \in Connections : \/ ApproveConnection(c) \/ CloseConnection(c)
                                        \/ SetSubscription(c)
                \/ \E i \in Items : EditItem(i)

Next == \/ StartPlan \/ PlannerRun
        \/ \E w \in Workers : WorkerStep(w)
        \/ Prune
        \/ SettingsStep
        \/ Tick

Spec == Init /\ [][Next]_vars

(* Time passes, TaskIQ runs the prune every hour, and a planner run ends one  *)
(* way or another.  Nothing is assumed of the senders: they stop with the     *)
(* bot's runtime status, and a started run may hang or die.                   *)
FairSpec == Spec /\ WF_vars(Tick) /\ WF_vars(Prune) /\ WF_vars(PlannerRun)

-----------------------------------------------------------------------------
(* Properties *)

Plan == [on : BOOLEAN, now : Int, todo : SUBSET [conn : Connections, kinds : SUBSET Kinds]]

Run == [phase : Phases, now : Int, left : 0..BatchSize, key : Keys \cup {NoKey},
        attempts : 0..MaxAttempts, scheduledAt : Int, expiresAt : Int, zone : Int,
        outcome : {"none", "done", "failed", "retry"}, retryAfter : Nat,
        fresh : BOOLEAN, unchanged : BOOLEAN]

(* Every variable has its type; in particular no claim takes a row past      *)
(* max_attempts.                                                              *)
TypeOK ==
    /\ clock \in 0..MaxTime
    /\ zone \in Zones
    /\ switch \in BOOLEAN
    /\ linked \subseteq Connections
    /\ closed \subseteq Connections
    /\ subscribed \in [Connections -> SUBSET Kinds]
    /\ occurs \in [Items -> SUBSET Dates]
    /\ changes \in 0..MaxChanges
    /\ rows \in [Keys -> Row]
    /\ planner \in Plan
    /\ worker \in [Workers -> Run]
    /\ sent \in [Keys -> 0..2]
    /\ calls \in [Keys -> Nat]
    /\ overlap \subseteq Keys
    /\ unrecorded \subseteq Keys

(* A participant gets a reminder twice only if two runs held its delivery at  *)
(* once or an accepted message went unrecorded (a crash before the commit, or *)
(* an error after Telegram took it): replanning, rescheduling, retrying,      *)
(* deferring and pruning never repeat a message on their own.  Unless two     *)
(* runs held the delivery at once, Telegram is called at most `attempts`      *)
(* times, hence at most max_attempts, since the row was last set to PENDING:  *)
(* takeovers of crashed runs and given-back attempts included.                *)
SendsAccounted ==
    \A k \in Keys :
        /\ sent[k] > 1 => k \in overlap \cup unrecorded
        /\ k \notin overlap /\ rows[k].status # "none" => calls[k] <= rows[k].attempts

(* A run that is about to call Telegram, or has, does so at or after 09:00 of *)
(* the lead day in the zone it read, whatever became of the row meanwhile.    *)
NeverEarly ==
    \A w \in Workers : worker[w].phase \in {"current", "allowed", "answered"} =>
        LET k == worker[w].key
        IN  clock >= (k.date - k.lead) * DayLength + SendTime - worker[w].zone

(* A refusal that stands since the claim is honoured: with the switch off,    *)
(* the connection not ACTIVE, the kind unsubscribed or the source gone, and   *)
(* no settings change since the claim, no run gets to send.                   *)
RefusalHonoured ==
    \A w \in Workers : worker[w].phase = "allowed" /\ worker[w].unchanged =>
        LET k == worker[w].key
        IN  /\ switch
            /\ k.conn \in linked
            /\ KindOf[k.item] \in subscribed[k.conn]
            /\ k.date \in occurs[k.item]

(* docs/telegram-bot-architecture.md:260, "completed delivery keys remain     *)
(* deduplicated": no message goes out for a delivery recorded as DONE.  It    *)
(* fails: a run that has outlived its lease still sends, and its mark_retry   *)
(* even reopens the row.                                                      *)
CompletedKeysDeduplicated ==
    [][\A k \in Keys : rows[k].status = "done" => sent'[k] = sent[k]]_vars

(* A planned delivery does not stay open for ever, whatever dies: at the      *)
(* latest the prune ends it once its day is over.                             *)
EventuallyClosed ==
    \A k \in Keys : rows[k].status \in Statuses \ Terminal ~>
                    rows[k].status \notin Statuses \ Terminal

=============================================================================
