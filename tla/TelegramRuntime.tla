-------------------------- MODULE TelegramRuntime ---------------------------
(***************************************************************************)
(* The backend processes that may receive the bot's updates and the Valkey  *)
(* keys they share: infra/telegram and infra/valkey.  One process at a time *)
(* holds the bot-wide delivery lease; it connects over one of the proxy     *)
(* routes, polls (or registers the webhook and monitors it), and publishes  *)
(* the readiness of its deployment slot.                                    *)
(*                                                                          *)
(* A step ends where the process awaits an answer: of Valkey, of Telegram,  *)
(* of the handler.  A process may stall between two steps, for longer than  *)
(* its lease; while it does not, its renewal task keeps the lease fresh.    *)
(* Leases are counted down by Tick; how long a wait lasts is left open, and *)
(* so is which routes a process has cooling down: it may pass over any.     *)
(***************************************************************************)
EXTENDS Integers, FiniteSets

CONSTANTS
    Procs,       \* runs of the backend: a restart is a new one, with a new token
    Slots,       \* deployment slots, each with its readiness key
    Modes,       \* the delivery modes a process may be configured with
    Routes,      \* indexes of the proxy pool
    NoRoute,     \* no index (None)
    NoProc,      \* holder of the lease nobody has
    LeaseTtl,    \* ticks a delivery lease lasts
    StatusTtl,   \* ticks a readiness record lasts
    MaxUpdates,  \* bound: updates users ever send
    MaxFaults    \* bound: stalls, crashes and failures of Valkey

ASSUME ConstantAssumption ==
    /\ NoRoute \notin Routes /\ NoProc \notin Procs
    /\ LeaseTtl \in Nat /\ LeaseTtl > 1   \* some renewals fit into a lease
    /\ StatusTtl \in Nat \ {0}
    /\ MaxUpdates \in Nat /\ MaxFaults \in Nat
    /\ Modes \subseteq {"polling", "webhook"}

(* Update ids, in order of arrival. *)
Updates == 1..MaxUpdates

VARIABLES
    lease,     \* the delivery lease in Valkey
    status,    \* per slot, the readiness record in Valkey
    proc,      \* per process, the variables of its runtime
    mode, slot,    \* per process, its configuration
    telegram,  \* the Bot API: the last update confirmed, a webhook set or not
    stalled,   \* processes making no step
    faults,
    suspect,   \* history: processes that stalled, crashed or failed to release
    settled    \* history: updates a handler attempt settled for

config == <<mode, slot>>
history == <<suspect, settled>>
vars == <<lease, status, proc, mode, slot, telegram, stalled, faults, history>>

-----------------------------------------------------------------------------
(* Records *)

Free == [holder |-> NoProc, ttl |-> 0]

(* No record, and a record that is not READY: no client distinguishes them. *)
NotReady == [route |-> NoRoute, ttl |-> 0, by |-> NoProc]

Ready(p, r) == [route |-> r, ttl |-> StatusTtl, by |-> p]

(* A process outside connection and receive work: the state of a receiver   *)
(* lives no longer than the receiver.                                       *)
Outside(pc, stopping) ==
    [pc |-> pc, stopping |-> stopping, active |-> NoRoute, registered |-> NoRoute,
     via |-> NoRoute, offset |-> 0, next |-> 1, last |-> 0, taken |-> {}]

(* Inside the task group of run: the lease task and the receive or monitor  *)
(* task are alive.                                                          *)
Inside == {"check", "connect", "poll", "owned", "publish", "dispatch", "handle",
           "reply", "failed", "limited", "withdraw", "announce", "backup"}

Running(p) == proc[p].pc \in Inside

Holding(p) == Running(p) \/ proc[p].pc = "release"

Owns(p) == lease.holder = p

Awake(p, pc) == p \notin stalled /\ proc[p].pc = pc

(* The process continues at pc. *)
Goto(p, pc) == proc' = [proc EXCEPT ![p].pc = pc]

(* The batch getUpdates returned is next..last: ids ascend, and updates are *)
(* handled in that order.                                                   *)
BatchOver(p) == proc[p].next > proc[p].last

(* get_ready_route. *)
ReadyRoute(s) == status[s].route

(* The task group is left: an exception of one of its tasks cancels the     *)
(* others wherever they await, the handler of an update included.           *)
End(p, stopping) ==
    proc' = [proc EXCEPT ![p] = Outside("release", stopping)]

Fault == faults < MaxFaults /\ faults' = faults + 1

-----------------------------------------------------------------------------
(* run: acquire, release *)

(* Mutant: SET without NX. *)
GrantableAlways == TRUE

(* SET NX EX.  A standby that gets no lease waits and asks again. *)
Grantable == lease.holder = NoProc

Acquire(p) ==
    /\ Awake(p, "idle")
    /\ Grantable
    /\ lease' = [holder |-> p, ttl |-> LeaseTtl]
    /\ Goto(p, "check")
    /\ UNCHANGED <<status, config, telegram, stalled, faults, history>>

(* The lease was granted and the answer lost, or the shutdown came before   *)
(* it: acquired stays false and nothing releases the lease.                 *)
AcquireUnheard(p) ==
    /\ Awake(p, "idle")
    /\ Grantable
    /\ Fault
    /\ lease' = [holder |-> p, ttl |-> LeaseTtl]
    /\ \E pc \in {"idle", "dead"} : Goto(p, pc)
    /\ UNCHANGED <<status, config, telegram, stalled, history>>

(* The renewal task: the lease is prolonged, or found lost. *)
Renew(p) ==
    /\ Running(p) /\ p \notin stalled
    /\ Owns(p) /\ lease.ttl < LeaseTtl
    /\ lease' = [lease EXCEPT !.ttl = LeaseTtl]
    /\ UNCHANGED <<status, proc, config, telegram, stalled, faults, history>>

(* The renewal script or ensure_owned finds another token, or none. *)
LoseLease(p) ==
    /\ Running(p) /\ p \notin stalled
    /\ ~Owns(p)
    /\ End(p, FALSE)
    /\ UNCHANGED <<lease, status, config, telegram, stalled, faults, history>>

(* Valkey fails the renewal, or a command nothing catches the error of. *)
LoseValkey(p) ==
    /\ Running(p) /\ p \notin stalled
    /\ Fault
    /\ End(p, FALSE)
    /\ UNCHANGED <<lease, status, config, telegram, stalled, history>>

(* The shutdown of the process cancels run. *)
Stop(p) ==
    /\ p \notin stalled
    /\ \/ proc[p].pc = "idle" /\ Goto(p, "dead")
       \/ Running(p) /\ End(p, TRUE)
    /\ UNCHANGED <<lease, status, config, telegram, stalled, faults, history>>

(* The release script, one step in Valkey: readiness and lease go together, *)
(* and only if the lease is still the process's own.                        *)
AfterRelease(p) == IF proc[p].stopping THEN "dead" ELSE "idle"

(* Mutant: the lease deleted whoever holds it. *)
ReleasedAlways(p) == lease' = Free /\ status' = [status EXCEPT ![slot[p]] = NotReady]

(* Mutant: the lease deleted and readiness left standing. *)
ReleasedLeaseOnly(p) ==
    /\ lease' = IF Owns(p) THEN Free ELSE lease
    /\ UNCHANGED status

Released(p) ==
    IF Owns(p)
    THEN lease' = Free /\ status' = [status EXCEPT ![slot[p]] = NotReady]
    ELSE UNCHANGED <<lease, status>>

Release(p) ==
    /\ Awake(p, "release")
    /\ Released(p)
    /\ Goto(p, AfterRelease(p))
    /\ UNCHANGED <<config, telegram, stalled, faults, history>>

(* Valkey fails it, or the shutdown cancels it. *)
ReleaseFails(p) ==
    /\ Awake(p, "release")
    /\ Fault
    /\ Goto(p, AfterRelease(p))
    /\ suspect' = suspect \cup {p}
    /\ UNCHANGED <<lease, status, config, telegram, stalled, settled>>

-----------------------------------------------------------------------------
(* The status store and the transport *)

(* MARK_FAILED_SCRIPT, one step in Valkey; a failure of Valkey is only      *)
(* logged.  A record of another route is left alone.                        *)
Marked(s, r) ==
    IF ReadyRoute(s) = r THEN [status EXCEPT ![s] = NotReady] ELSE status

MarkFailed(p, r) == status' \in {Marked(slot[p], r), status}

(* A client of the slot's workers sent a request over the published route   *)
(* and the request fails now.                                               *)
WorkerFails(s) ==
    /\ ReadyRoute(s) # NoRoute
    /\ status' = Marked(s, ReadyRoute(s))
    /\ UNCHANGED <<lease, proc, config, telegram, stalled, faults, history>>

-----------------------------------------------------------------------------
(* The loop of a receiver or monitor, up to the connection *)

(* ensure_owned.  A poller keeps a route it has, unless that was marked as  *)
(* failing meanwhile; a monitor always goes through connect.                *)
Check(p) ==
    /\ Awake(p, "check")
    /\ Owns(p)
    /\ \/ mode[p] = "polling" /\ proc[p].active # NoRoute /\ Goto(p, "poll")
       \/ mode[p] = "polling"
          /\ proc' = [proc EXCEPT ![p].pc = "connect", ![p].active = NoRoute]
       \/ mode[p] = "webhook" /\ Goto(p, "connect")
    /\ UNCHANGED <<lease, status, config, telegram, stalled, faults, history>>

(* getMe, then setWebhook or deleteWebhook unless this route did it last. *)
Registered(p) == [telegram EXCEPT !.webhook = (mode[p] = "webhook")]

AfterConnect(p, r) ==
    [proc[p] EXCEPT !.pc = IF mode[p] = "polling" THEN "poll" ELSE "owned",
                    !.active = r, !.registered = r]

Connect(p, r) ==
    /\ Awake(p, "connect")
    /\ proc' = [proc EXCEPT ![p] = AfterConnect(p, r)]
    /\ telegram' = IF proc[p].registered = r THEN telegram ELSE Registered(p)
    /\ UNCHANGED <<lease, status, config, stalled, faults, history>>

(* A transport error or the timeout of connect: the request may have had    *)
(* its effect.  The next candidate is tried.                                *)
TryNext(p, r) ==
    /\ Awake(p, "connect")
    /\ MarkFailed(p, r)
    /\ telegram' \in {telegram} \cup (IF proc[p].registered = r THEN {} ELSE {Registered(p)})
    /\ UNCHANGED <<lease, proc, config, stalled, faults, history>>

(* No candidate is left, a transport error of the caller; or a rate limit,  *)
(* which to a monitor is a failure like any other.                          *)
ConnectFails(p) ==
    /\ Awake(p, "connect")
    /\ \/ Goto(p, "failed")
       \/ mode[p] = "polling" /\ Goto(p, "limited")
    /\ UNCHANGED <<lease, status, config, telegram, stalled, faults, history>>

(* Telegram refuses: the token, the registration, another webhook or poll.  *)
(* A monitor catches it; a receiver ends with it.                           *)
Refuse(p) ==
    /\ proc[p].pc \in {"connect", "poll"} /\ p \notin stalled
    /\ IF mode[p] = "webhook" THEN Goto(p, "failed") ELSE End(p, FALSE)
    /\ UNCHANGED <<lease, status, config, telegram, stalled, faults, history>>

-----------------------------------------------------------------------------
(* Receiving *)

(* getUpdates: Telegram forgets what the offset confirms and returns what   *)
(* has arrived after it.  Offset 0 is no offset.                            *)
Confirmed(p) ==
    IF proc[p].offset > telegram.confirmed THEN proc[p].offset - 1 ELSE telegram.confirmed

Confirm(p) == telegram' = [telegram EXCEPT !.confirmed = Confirmed(p)]

Poll(p) ==
    /\ Awake(p, "poll")
    /\ ~telegram.webhook
    /\ Confirm(p)
    /\ \E last \in Confirmed(p)..MaxUpdates :
          proc' = [proc EXCEPT ![p].pc = "owned", ![p].next = Confirmed(p) + 1, ![p].last = last]
    /\ UNCHANGED <<lease, status, config, stalled, faults, history>>

(* A transport error, whose request Telegram may have seen; a rate limit. *)
PollFails(p) ==
    /\ Awake(p, "poll")
    /\ \/ Confirm(p) /\ ~telegram.webhook
       \/ UNCHANGED telegram
    /\ \E pc \in {"failed", "limited"} : Goto(p, pc)
    /\ UNCHANGED <<lease, status, config, stalled, faults, history>>

(* ensure_owned once connected (webhook) or answered (polling). *)
Owned(p) ==
    /\ Awake(p, "owned")
    /\ Owns(p)
    /\ Goto(p, "publish")
    /\ UNCHANGED <<lease, status, config, telegram, stalled, faults, history>>

(* publish_ready: unconditional, whoever owns the lease by then. *)
Publish(p) ==
    /\ Awake(p, "publish")
    /\ status' = [status EXCEPT ![slot[p]] = Ready(p, proc[p].active)]
    /\ Goto(p, IF mode[p] = "polling" THEN "dispatch" ELSE "backup")
    /\ UNCHANGED <<lease, config, telegram, stalled, faults, history>>

(* ensure_owned before each update: its handler begins. *)
Begin(p) ==
    /\ Awake(p, "dispatch")
    /\ ~BatchOver(p)
    /\ Owns(p)
    /\ proc' = [proc EXCEPT ![p].pc = "handle", ![p].taken = @ \cup {proc[p].next}]
    /\ UNCHANGED <<lease, status, config, telegram, stalled, faults, history>>

(* ensure_owned after the last update of the batch. *)
EndBatch(p) ==
    /\ Awake(p, "dispatch")
    /\ BatchOver(p)
    /\ Owns(p)
    /\ proc' = [proc EXCEPT ![p] = [@ EXCEPT !.pc = "backup", !.next = 1, !.last = 0]]
    /\ UNCHANGED <<lease, status, config, telegram, stalled, faults, history>>

(* Mutant: one more than is confirmed by it. *)
OffsetBeyond(p) == proc[p].next + 2

(* Mutant: a whole batch confirmed by its first update. *)
OffsetOfBatch(p) == proc[p].last + 1

(* The handler of the current update is over: the offset passes it whatever *)
(* came of it.  A transport error or rate limit drops the rest of the batch.*)
Offset(p) == proc[p].next + 1

(* Mutant: an update whose handler failed is asked for again. *)
SettledIfHandled(p, pc) ==
    IF pc = "dispatch"
    THEN [proc[p] EXCEPT !.pc = pc, !.offset = Offset(p), !.via = NoRoute, !.next = @ + 1]
    ELSE [proc[p] EXCEPT !.pc = pc, !.via = NoRoute, !.next = 1, !.last = 0]

Settled(p, pc) ==
    [proc[p] EXCEPT !.pc = pc, !.offset = Offset(p), !.via = NoRoute,
                    !.next = IF pc = "dispatch" THEN @ + 1 ELSE 1,
                    !.last = IF pc = "dispatch" THEN @ ELSE 0]

Settle(p, pc) ==
    /\ proc' = [proc EXCEPT ![p] = Settled(p, pc)]
    /\ settled' = settled \cup {proc[p].next}
    /\ UNCHANGED suspect

(* The handler answers through make_request, over the published route. *)
Reply(p) ==
    /\ Awake(p, "handle")
    /\ ReadyRoute(slot[p]) # NoRoute
    /\ proc' = [proc EXCEPT ![p].pc = "reply", ![p].via = ReadyRoute(slot[p])]
    /\ UNCHANGED <<lease, status, config, telegram, stalled, faults, history>>

(* Done, or failed with an error of its own, which is logged. *)
Handled(p) ==
    /\ proc[p].pc \in {"handle", "reply"} /\ p \notin stalled
    /\ Settle(p, "dispatch")
    /\ UNCHANGED <<lease, status, config, telegram, stalled, faults>>

(* No route is published, or it is cooling down. *)
ReplyBlocked(p) ==
    /\ Awake(p, "handle")
    /\ Settle(p, "failed")
    /\ UNCHANGED <<lease, status, config, telegram, stalled, faults>>

(* A transport error marks the route of the request, not the one published  *)
(* by now.                                                                  *)
ReplyFails(p) ==
    /\ Awake(p, "reply")
    /\ Settle(p, "failed")
    /\ MarkFailed(p, proc[p].via)
    /\ UNCHANGED <<lease, config, telegram, stalled, faults>>

ReplyLimited(p) ==
    /\ Awake(p, "reply")
    /\ Settle(p, "limited")
    /\ UNCHANGED <<lease, status, config, telegram, stalled, faults>>

(* check_backup: at most one other route is probed; the loop goes on. *)
Backup(p) ==
    /\ Awake(p, "backup")
    /\ Goto(p, "check")
    /\ \/ UNCHANGED status
       \/ \E r \in Routes \ {proc[p].active} : MarkFailed(p, r)
    /\ UNCHANGED <<lease, config, telegram, stalled, faults, history>>

-----------------------------------------------------------------------------
(* The except branches *)

(* ensure_owned; a receiver with a transport error then marks its route. *)
Forgotten(p, pc) ==
    [proc[p] EXCEPT !.pc = pc, !.registered = NoRoute,
                    !.active = IF mode[p] = "polling" THEN NoRoute ELSE @]

Recover(p) ==
    /\ proc[p].pc \in {"failed", "limited"} /\ p \notin stalled
    /\ Owns(p)
    /\ proc' = [proc EXCEPT ![p] =
                 IF proc[p].pc = "failed" /\ mode[p] = "polling" /\ proc[p].active # NoRoute
                 THEN [@ EXCEPT !.pc = "withdraw"]
                 ELSE Forgotten(p, "announce")]
    /\ UNCHANGED <<lease, status, config, telegram, stalled, faults, history>>

Withdraw(p) ==
    /\ Awake(p, "withdraw")
    /\ MarkFailed(p, proc[p].active)
    /\ proc' = [proc EXCEPT ![p] = Forgotten(p, "announce")]
    /\ UNCHANGED <<lease, config, telegram, stalled, faults, history>>

(* publish FAILED, then the wait for the next attempt. *)
Announce(p) ==
    /\ Awake(p, "announce")
    /\ status' = [status EXCEPT ![slot[p]] = NotReady]
    /\ Goto(p, "check")
    /\ UNCHANGED <<lease, config, telegram, stalled, faults, history>>

(* A monitor catches failures of Valkey too, those of publish FAILED included. *)
MonitorFails(p) ==
    /\ proc[p].pc \in {"check", "owned", "publish", "announce"} /\ p \notin stalled
    /\ mode[p] = "webhook"
    /\ Fault
    /\ Goto(p, IF proc[p].pc = "announce" THEN "check" ELSE "failed")
    /\ UNCHANGED <<lease, status, config, telegram, stalled, history>>

-----------------------------------------------------------------------------
(* The environment *)

Stall(p) ==
    /\ Holding(p) /\ p \notin stalled
    /\ Fault
    /\ stalled' = stalled \cup {p}
    /\ suspect' = suspect \cup {p}
    /\ UNCHANGED <<lease, status, proc, config, telegram, settled>>

Resume(p) ==
    /\ p \in stalled
    /\ stalled' = stalled \ {p}
    /\ UNCHANGED <<lease, status, proc, config, telegram, faults, history>>

Crash(p) ==
    /\ Holding(p)
    /\ Fault
    /\ proc' = [proc EXCEPT ![p] = Outside("dead", FALSE)]
    /\ stalled' = stalled \ {p}
    /\ suspect' = suspect \cup {p}
    /\ UNCHANGED <<lease, status, config, telegram, settled>>

(* The renewal task of a process that is not stalled runs several times in  *)
(* a tick, and a release takes a fraction of one.                           *)
Punctual(p) ==
    p \notin stalled /\ Owns(p) =>
        /\ Running(p) => lease.ttl = LeaseTtl
        /\ proc[p].pc # "release"

Aged(record, over) ==
    IF record.ttl > 1 THEN [record EXCEPT !.ttl = @ - 1] ELSE over

Tick ==
    /\ \A p \in Procs : Punctual(p)
    /\ lease' = Aged(lease, Free)
    /\ status' = [s \in Slots |-> Aged(status[s], NotReady)]
    /\ UNCHANGED <<proc, config, telegram, stalled, faults, history>>

-----------------------------------------------------------------------------
(* The specification *)

(* The processes of a slot share its settings. *)
Configured ==
    /\ mode \in [Procs -> Modes] /\ slot \in [Procs -> Slots]
    /\ \A p, q \in Procs : slot[p] = slot[q] => mode[p] = mode[q]

Init ==
    /\ lease = Free
    /\ status = [s \in Slots |-> NotReady]
    /\ proc = [p \in Procs |-> Outside("idle", FALSE)]
    /\ Configured
    /\ telegram \in [confirmed : {0}, webhook : BOOLEAN]
    /\ stalled = {} /\ faults = 0
    /\ suspect = {} /\ settled = {}

(* The lease of p's process. *)
Lease(p) ==
    Acquire(p) \/ AcquireUnheard(p) \/ Renew(p) \/ LoseLease(p)
    \/ LoseValkey(p) \/ Stop(p) \/ Release(p) \/ ReleaseFails(p)

(* Its connection. *)
Route(p) ==
    \/ Check(p) \/ ConnectFails(p) \/ Refuse(p) \/ Backup(p)
    \/ Recover(p) \/ Withdraw(p) \/ Announce(p) \/ MonitorFails(p)
    \/ \E r \in Routes : Connect(p, r) \/ TryNext(p, r)

(* Its updates. *)
Receive(p) ==
    Poll(p) \/ PollFails(p) \/ Owned(p) \/ Publish(p) \/ Begin(p) \/ EndBatch(p)
    \/ Handled(p) \/ Reply(p) \/ ReplyBlocked(p) \/ ReplyFails(p) \/ ReplyLimited(p)

Next ==
    \/ \E p \in Procs : Lease(p) \/ Route(p) \/ Receive(p)
    \/ \E p \in Procs : Stall(p) \/ Resume(p) \/ Crash(p)
    \/ \E s \in Slots : WorkerFails(s)
    \/ Tick

Spec == Init /\ [][Next]_vars

-----------------------------------------------------------------------------
(* Properties *)

MaybeRoute == Routes \cup {NoRoute}

Records == [route : MaybeRoute, ttl : 0..StatusTtl, by : Procs \cup {NoProc}]

Runtimes ==
    [pc : Inside \cup {"idle", "release", "dead"}, stopping : BOOLEAN,
     active : MaybeRoute, registered : MaybeRoute, via : MaybeRoute,
     offset : 0..MaxUpdates + 1, next : 1..MaxUpdates + 1, last : 0..MaxUpdates,
     taken : SUBSET Updates]

(* Every variable has its type, the ages of both Valkey records included. *)
TypeOK ==
    /\ lease \in [holder : Procs \cup {NoProc}, ttl : 0..LeaseTtl]
    /\ (lease.holder = NoProc) <=> (lease.ttl = 0)
    /\ status \in [Slots -> Records]
    /\ proc \in [Procs -> Runtimes]
    /\ mode \in [Procs -> Modes] /\ slot \in [Procs -> Slots]
    /\ telegram \in [confirmed : 0..MaxUpdates, webhook : BOOLEAN]
    /\ stalled \subseteq Procs /\ faults \in 0..MaxFaults
    /\ suspect \subseteq Procs /\ settled \subseteq Updates

(* While a process that never stalled connects, receives or monitors, the   *)
(* lease is its own: two processes do it at once only when one of them has  *)
(* been stalled.                                                            *)
OwnerUnlessStalled ==
    \A p \in Procs : Holding(p) /\ p \notin suspect => Owns(p)

(* A lease changes hands only through its holder's release or by running    *)
(* out: an expired owner cannot clear its successor's.                      *)
LeaseLeftToHolder ==
    [][\A p \in Procs : Owns(p) /\ lease'.holder # p =>
          lease' = Free /\ (proc[p].pc = "release" \/ lease.ttl = 1)]_vars

(* Ready means somebody is at work and can be: the process whose readiness a *)
(* slot shows is the owner, still releasing, or was stalled, killed or unable *)
(* to release; and the webhook is the one its mode needs, unless a stalled    *)
(* process woke up to change it.                                              *)
ReadyHonest ==
    \A s \in Slots : ReadyRoute(s) # NoRoute =>
        /\ Holding(status[s].by) \/ status[s].by \in suspect
        /\ suspect = {} => telegram.webhook = (mode[status[s].by] = "webhook")

(* What Telegram no longer redelivers has been through a handler. *)
ConfirmedSettled == 1..telegram.confirmed \subseteq settled

(* No update is handed to a handler while a receiver lives that took it     *)
(* before, be it the same one after a failure of the handler or of the      *)
(* route, or another process's - unless that one has been stalled.          *)
TakenOnce ==
    [][\A p, q \in Procs : Begin(p) /\ q \notin suspect =>
          proc[p].next \notin proc[q].taken]_vars
=============================================================================
