# Verification of the Personal Workspace API

TLA+ models of the parts of this service where a mistake hides between two requests, two processes
or two stores rather than in a line of code: the outboxes that send Telegram messages, the life of a
Telegram connection, the processes that compete for the bot's updates, the finance ledger and the
form that writes to it, files and the knowledge database, events and the calendar. Paths below are
relative to the repository's Python root (`src/`) or to its documentation (`docs/`).

| Question | Modules | Runs | Theorems in |
| --- | --- | --- | --- |
| Does a reminder reach a person once, in time, and only if still wanted? | `ReminderDelivery` | `reminder_*` | `ReminderDeliveryProofs` |
| Does a finance notification? | `FinanceDelivery`, refining `DeliveryContract` | `finance_delivery`, `finance_closing`, `finance_late_write` | `FinanceDeliveryProofs` |
| Who may become a participant of which Workspace? | `TelegramConnections` | `telegram_connections`, `connection_limit` | `TelegramConnectionsProofs` |
| Which process receives the bot's updates, and is each handled once? | `TelegramRuntime` | `telegram_runtime` | `TelegramRuntimeProofs` |
| Do the books add up, whatever overlaps, and do reports agree with them? | `FinanceLedger`, `FinanceStatistics` | `finance_books` | `FinanceEntryProofs`, `FinanceLedgerProofs` |
| Does a form in Telegram book once, and say what is true? | `FinanceEntry` | `finance_books` | `FinanceEntryProofs` |
| Is every file that is used there, and every other one taken away? | `WorkspaceFiles` | `files` | `WorkspaceFilesProofs` |
| Do people, dates, tags and relations stay sound, and lists in order? | `Knowledge` | `files` | `KnowledgeProofs` |
| Does the calendar show every occurrence, and save what it shows? | `Agenda`, `Recurrence` | `files` | `KnowledgeProofs` |

## 1. The system

A Litestar HTTP API, an aiogram Telegram bot and TaskIQ workers share PostgreSQL (state, outboxes),
Valkey (cache, leases, form drafts) and S3 (files). An external auth-api keeps accounts, their time
zones and the switches of the Telegram integration. Every HTTP request, bot update and task runs on
its own database session; no in-process lock protects anything, so two of anything may run at once,
in several processes.

| Component | State | Operations | Interacts with |
| --- | --- | --- | --- |
| Reminder notifications (`core/notifications`) | `reminder_delivery` rows | `plan_reminders` every minute, `send_reminders`, `prune` hourly | auth-api (zone, switch), connections, people and dates, Telegram |
| Finance notifications (`core/notifications/finance`) | `finance_event`, `finance_delivery` | one processing task: plan, claim, refresh, send, finish; prune | ledger (publishes events, is re-read), connections, Telegram |
| Telegram connections (`core/telegram`) | `telegram_invitation`, `telegram_connection` | invite, list, cancel, request (`/start`), approve, revoke, block, unblock, settings | auth-api, both outboxes |
| Telegram runtime (`infra/telegram`) | delivery lease and runtime status in Valkey, route and offset in memory | acquire, renew, release; connect, poll, fail over; dispatch | Telegram, proxies, the senders' readiness gate |
| Finance ledger (`core/finance`) | tracker and zone, months and budgets, categories, transactions with versions and revisions, rate sets | open, ensure and close months; budgets, currency, categories; create, edit, delete, restore, also in the previous month | outbox of events, exchange rates, auth-api (zone) |
| Finance statistics (`core/finance`) | none | reports over a window | ledger |
| Telegram finance form (`entrypoints/telegram/finance.py`) | draft in Valkey, isolation lock | steps of the form, confirm, replay, cancel | ledger, connections |
| Files (`core/files`, `core/resumes`) | rows and S3 objects, orphan marks | upload with deduplication, delete, sync usages, download, prune | S3, resumes |
| Knowledge files (`core/knowledge/files`) | rows, links, S3 objects | attach, replace a photo, rename, delete, read | S3, post-commit and rollback actions |
| Knowledge (`core/knowledge`) | items, people, dates, relations and their types, tags | save, delete, list, show | files, reminders, calendar |
| Events and calendar (`core/events`, `core/calendar`) | events | write, delete; occurrences of a window, overview of two months | knowledge, auth-api (zone) |
| Transactions (`infra/ioc/prodivers/database_provider.py`) | one session per request, queues of post-commit and rollback actions | commit, roll back, run actions | all |
| Cache warming, response cache, vault, important info, wiki links, resume export | rows or none | single-transaction CRUD, pure functions | - |

### What is hard

- **Leases outlived.** A run claims a delivery with a lease, renews nothing, and talks to auth-api
  and Telegram in between; a second run may take the delivery over at any point.
- **Reads that age.** The switch, the connection, the subscription and the source are read one after
  the other before the send; a request checks relations, tags and people in statements of their own
  before it writes; an edit starts from the page it was shown on.
- **A `now` that ages.** A reminder run keeps one `now` for its whole batch; a web request keeps the
  one of its start while it waits for the owner's lock, midnight included.
- **Crashes and lost answers**: between Telegram's acceptance and the record of it, between a commit
  and the form that is to say so, between a commit and the S3 objects to be cleaned after it.
- **Time**: expiry, retries, local midnight, months, zones that change while a row waits, wall
  clocks that a zone skips or repeats.
- **Constraints instead of locks**: one active connection per user, one open invitation per owner,
  limits that are counted without a lock, unique pairs of related people.
- **Two stores** (PostgreSQL and S3, PostgreSQL and Valkey) with no transaction over both.

`PROJECT.json` lists the hazards line by line, with the properties that cover each.

### What makes each component correct

- *Reminders*: a message repeats only after a named fault; attempts bound the calls; nothing before
  09:00 of the lead day; a refusal is honoured; every delivery is closed once its day is over.
- *Finance notifications*: the same, plus: the recheck before the send decides, both ways; retries
  keep Telegram's pause; and the whole outbox implements a small contract.
- *Connections*: one active connection per user over all Workspaces; a block holds; a token is used
  once; hourly and connection limits; a closed connection is never revived; no standstill.
- *Runtime*: only the lease's owner connects and receives, unless it has been stalled; a former
  owner clears nobody's lease; a slot is shown ready only for a process at work, with the webhook
  its mode needs; no update is confirmed before a handler had it, or handed to one twice by living
  receivers.
- *Ledger*: months follow each other, prices follow their rate sets, closed months stay closed,
  edits are serial, a limit that is passed is reported; reports agree with the months they are
  about.
- *Form*: one confirmation books once, into the current month, for someone who still has access;
  what the participant was told is true.
- *Files*: what is used is there; what is not is marked, pruned, or owed to a named failure.
- *Knowledge*: no reference dangles although every check is out of date when it is used; a request
  that met no other is never refused by a constraint; lists by latest change are right.
- *Calendar*: every occurrence once, in any window and zone; overview and calendar agree; saving an
  event as shown changes nothing.

## 2. Modules

**Common conventions.** Time is an integer tick and one clock serves all hosts. An action is one
database transaction, one awaited call, or the part of a request between two points at which another
one can be seen to come between; other processes run between two actions. History variables (marked
in each module) are read by no guard. Definitions under a comment that begins with *Mutant* are
plausible mistakes, used by nothing but the mutation checks listed in `PROJECT.json`; a property is
kept only if one of them breaks it.

    DeliveryContract <- FinanceDelivery          (refinement; FinanceDeliveryProofs)
    FinanceLedger <- FinanceStatistics <- FinanceEntry          (EXTENDS)
                             (FinanceEntryProofs <- FinanceLedgerProofs)
    WorkspaceFiles <- Knowledge <- Agenda, which also extends Recurrence
                                             (KnowledgeProofs, WorkspaceFilesProofs)

### ReminderDelivery

One owner, connections, items (people or memorable dates), and one row per (connection, item, date,
lead). `worker[w]` is an execution of `send_reminders` with its phases *run* (between claims),
*claimed*, *resolved* (recipient, zone and window compared), *current* (row still IN_PROGRESS with
its window), *allowed* (switch asked), *answered* (Telegram's answer not yet recorded); `planner` is
the `plan_reminders` run, which takes what `Sources` lists. The operations of
`infra/postgresql/storages/notifications.py` are operators with the storage's names and conditions:
`Claimable`, `Replannable`, `Marked`, `RetriedRow`, `DeferredRow`, `PrunedRow`.

Simplified: the page of recipients is one snapshot; the recipient and the zone are read in one step
(another process can still change either before the next); `SKIP LOCKED` is any choice among
claimable rows; the readiness gate of the bot is "a run may start or not"; local days have a fixed
length (no daylight saving); message texts are left out. A new connection of the same person is
another member of `Connections`, because the code never revives a closed row.

### FinanceDelivery and DeliveryContract

`Publish` is the outbox insert that `create_transaction` and `FinanceEventService` commit;
`StartRun` plans all unplanned events; `Claim` sweeps rows without attempts left and claims one;
`AskSwitch`, `ReadMonth`, `ReadTransaction`, `Refresh`, `Send`, `Finish` are the awaits of
`ProcessFinanceNotificationsUseCase.run` in order. The ledger is what the run reads of it: whether
the transaction was edited since (its version), whether a limit is still crossed, and the month that
`created_at` falls into in the tracker's zone of today. "Not found" and "found with another version"
lead to the same outcome and are one case.

`DeliveryContract` is what any outbox owes its recipients: a delivery opens once; while it is open
at most `MaxTries` tries are licensed; each licence allows one call to Telegram; closed or forgotten
deliveries license nothing and never reopen. `FinanceDelivery` instantiates it with a refinement
mapping (`Stage` reads the row; licences are claims) and is checked to implement it, takeovers,
crashes, sweeps and prunes included. Reminders do not implement it: the planner may reopen a
CANCELED or EXPIRED row, which is why they have their own, weaker properties and two findings.

### TelegramConnections

`session[s]` is one request at READ COMMITTED: its operation, what it has read, the rows it has
locked. A `SELECT ... FOR UPDATE` that meets a lock is disabled until the lock is gone;
`get_connection_for_user` takes its snapshot in one step (`FindLive`) and locks in another
(`LockExisting`, `LookForLive`), so rows that stop matching are dropped and rows that appear are
missed, as PostgreSQL does. The last write and the commit are one step: nobody reads an uncommitted
write, and one that would wait for it can as well come later. `Conflicts` is the pair of partial
unique indexes; a conflict is the `IntegrityError` the storage turns into `TelegramAccessError`.
`RevokeConnection`, `BlockConnection` and `UnblockConnection` are the endpoints over one
`change_connection_state`; `Listed` is the page of open invitations. auth-api's answer and the
redemption limiter may refuse anything at any time (`Abort`).

### TelegramRuntime

Backend processes and the Valkey keys they share. `proc[p].pc` is the await at which the process's
loop stands: *idle* (no lease), *check* (`ensure_owned` at the top of the loop), *connect*, *poll*
(getUpdates), *owned* and *publish* (readiness), *dispatch*, *handle*, *reply* (a request of the
handler is under way), *backup*, the except branch *failed*/*limited*, *withdraw*, *announce*, and
*release*. The receiver (`infra/telegram/polling.py`) and the monitor (`TelegramBotRuntime.monitor`)
share the loop and part by `mode[p]`. A process has its slot and mode for life; a restart is another
process, with another token. The two Lua scripts are single steps (`Released`, `Marked`), as are
single commands; `ensure_owned` and the command after it are two.

`lease.ttl` and `status[s].ttl` are what is left of the Valkey expiry, counted down by `Tick`, about
45 seconds each: 90 seconds of lease are two ticks. `Renew` is `keep_alive`, and `Punctual` keeps
the clock from overtaking a process that is not stalled: it renews every 15 seconds, and the socket
timeout of a command is a fraction of the rest. A stalled process (`Stall`, `Resume`) takes no step
at all, the renewals included, for any time. Transport errors, timeouts, rate limits, refusals and
shutdowns come at any time and any number; stalls, crashes and failures of Valkey share one budget,
`MaxFaults`.

Simplified: which routes cool down (any may be passed over, which includes every cooldown); the
backup cursor; the command menu; the local status that the health check reads; updates that arrive
through the webhook endpoint, which need no lease. Telegram keeps the confirmed update and whether a
webhook is set; it refuses getUpdates while one is.

### FinanceLedger

One tracker. A request fixes its `now` when it starts, waits for the owner's advisory lock
(`lock_owner` and its kin), and does everything between the lock and the commit in one step: nothing
of the owner's ledger changes in between. An operation is therefore two actions, what it checks and
fetches before the lock (the rate of the day among it) and its commit: `CreateTransaction`,
`UpdateTransaction`, `DeleteTransaction` and `RestoreTransaction`, each also for a month that is
named (`...Historical...`: the previous one; `for_transaction` refuses the rest), with
`CommitCreate`, `CommitUpdate` and `CommitDeletion`; `StartBudget` with `SetOpening`, `SetPlan`,
`CreateCategory`, `Archive`, `Restore` and `RemoveCategory`; `StartCurrency` with `CommitCurrency`.
An edit starts on a page (`OpenPage`), hence with the version that was shown. `EnsureMonth` is an
operation of its own, as in the code: it takes the account's zone over and creates every month up to
the current one (`Advanced`), with the balance and the plans carried over; all others need the month
of their `now` to be there, and only the form's context does the same. `Deliver` is the reader of a
published limit event.

Amounts are integers in units of 1/`Scale`; `Rounded` is half away from zero, the code's rounding. A
price takes the rate set of its moment, or the last one there is (`RefreshRates`, `Holidays`). Left
out: cross rates, names, positions, other owners, the lineage of categories. A tick is a day.

### FinanceStatistics

No state of its own: the facts of a window, its currencies, the breakdown by category, the timeline
(bucketed by day, week or month), the window before it, and the projected budget, each as the code
computes it, next to `MonthView`, what the month page computes by other code from the same rows.
`BooksAgree` compares the two in every reachable state of the ledger. Reports are in the currencies
of their months, and the conversion of a budget into another one is left out with its rate, as are
percentages, names and the hours of a day.

### FinanceEntry

The form in Telegram, over the ledger. An update's handler (`handler[h]`) is *free*; in its
*context*, once `telegram_context` has asked for access, taken the zone over, created the month and
committed (`Receive`); *pricing*, under the isolation lock of the conversation, while a confirmation
asks for its rate; and *saved* between the commit and the clearing of the draft in Valkey. The draft
expires (`DraftTtl`), the lock may time out under a handler that is still at work, a process may end
after its commit, Valkey may forget the draft; access may be withdrawn (`Revoke`) between any two
steps, and each request of the form asks for it again (`Allowed`). Any button that was ever shown
may be pressed, at any time and again; `live` tells whether it carries the present id and revision
of the form (`Matches`). Every screen, that of the confirmation too, has Cancel, and Back from the
second one on: so a form may be shown for confirmation, go back, be filled otherwise and be shown
again. `screens` keeps what each of its confirmation screens showed and `newest` the last one; a tap
on Confirm carries the screen it stands under (`seen`), and that is what the answer is compared
with: the participant who reads SAVED has that screen before the eyes. Of a tap that finds the form
saved already, the comparison is with the last one.

### WorkspaceFiles

Rows and objects of managed files, resumes' photos and knowledge files. A job is a request or a
prune run; its steps are its calls of storage, each of which may fail. `SELECT ... FOR UPDATE` waits
for a row; what a transaction has written is seen by others at its commit. `StartMedia` and
`StartPhoto` look for a duplicate (`FindDuplicate`, `FindNothing`), put the object and commit;
`SaveResume` and `DiscardResume` replace the usages a text holds; `StartErase` deletes; the prune
takes a batch of marked rows with `SKIP LOCKED`, and looks again at each before it removes anything.
`Attach`, `StartReplace`/`Replace`, `Detach` and `StartRemove`/`CommitRemove` are those of the
knowledge files. The post-commit and rollback actions (`Clean`, `RollBack`) each may fail;
`PutUnanswered` and `CommitUnanswered` take effect although the request saw an error, and a DELETE
that the prune is told has failed (`PruneFails`) may have removed the object, while its row stays;
`Crash` ends a job anywhere. `Streamed`, `Downloaded`, `Opened` and `Exported` are reads that meet a
row first and its object later.

`Tick` stands for most of the retention of orphan marks (at least a week, by the bound of
`orphan_retention` at `infra/config/settings.py:142`), so it happens only while no request is under
way; a mark is due once it is more than `Retention` ticks old.

### Knowledge

A save reads and checks (that the people, tags and types it names exist, that no pair repeats) in
statements of their own and writes afterwards; the writes and the commit are one step. This is
justified by what the code writes first: it updates its own row, so that two saves of one item
follow each other, and a foreign key or unique index makes any other conflicting writer wait until
it knows the outcome. `fresh` tells whether the request saw all others' changes. A save has one
change of each kind; an update of a relation that has been moved away is skipped without a word and
a deletion is by id only, as in the code. Pages are whole lists. Reads continue in steps: a page of
dates and then the people of each, a person's relatives and then their dates, and a reader whose row
has gone in between is failed as the code's `KeyError` fails it.

`View` is what `get_person` and `get_date` return of an item: its name (`named`, the moment it was
given), the items around it, its tags and files (`Ties`), and the names it shows of people,
relations and tags (`NamesShown`). A save keeps the name or gives another one, as
`scenario.naming` allows.

### Agenda and Recurrence

`Recurrence` is the pure part: occurrences of a series (daily, weekly, monthly, yearly, with an
end), of annual dates including February 29, over an abstract calendar of four years of three months
with a leap day, weeks of three days and days of four ticks; a zone has at most one change of its
offset, forwards or back, at any hour and by a quarter of a day at most (`ZoneFits`). It is checked
against plain definitions that enumerate every day. `Agenda` is events, the calendar of a window and
the overview of two months over people and dates of `Knowledge`; the zone is read before the event's
transaction, and calendars are read in steps like lists. Windows keep away from the calendar's first
days: near year 1 the code's subtraction of a duration would overflow `date`. Only events that have
room in the calendar where they are shown now are sent back (`Resendable`). Ids are not reused; a
birthday is a constant of its person.

## 3. Runs

| Run | Instance | Shows |
| --- | --- | --- |
| `reminder_delivery` | 1 key, 2 zones, 2 sender runs, 2 attempts, 1 settings change, 5 ticks | no repetition, early, refused or unaccounted message, with every failure |
| `reminder_closing` | 1 key, 1 run, batch of 2, 2 changes | `EventuallyClosed` |
| `reminder_attempts` | 1 run at a time, no changes | **violated**: at most `max_attempts` tries per day (finding 1) |
| `reminder_duplicates` | 2 runs, no changes | **violated**: completed keys stay deduplicated (finding 2) |
| `finance_delivery` | 1 event, 1 connection, 2 runs, 2 zones, 1 change, 4 ticks | the same, spacing of retries, and `ImplementsContract` |
| `finance_closing` | 1 event, 2 connections, 1 run, batch of 2 | `EventuallyClosed` |
| `finance_late_write` | 1 undisturbed run | **violated**: web creations reach all subscribers (finding 3) |
| `telegram_connections` | 2 owners, 2 users, 2 sessions, 3 invitations, 2 connections, limit 1, 3 ticks | all properties of connections |
| `connection_limit` | 1 owner, 2 users, 2 sessions | **violated**: the connection limit (finding 4) |
| `telegram_runtime` | 2 processes, 2 slots, both modes, 2 routes, 2 updates, lease of 2 ticks, 1 fault | all properties of the runtime |
| `finance_books` | 2 requests at a time or the form with 2 handlers, 13 scenarios | all properties of ledger, statistics and form |
| `files` | 2 requests at a time, 12 scenarios | all properties of files, knowledge and calendar |

The larger runs take one to four minutes with two workers and reach between 0.1 and 1.1 million
states.

**Scenarios.** `finance_books` and `files` compose many operations, and only those that touch the
same rows can disturb each other. Their MC modules therefore name groups of operations with bounds
of their own; the initial state chooses one. Of the ledger: editors of the same rows (*Edits*,
*Deletions*), midnight of the last day and zones that move back over it (*Late*), a budget whose
month ends (*Budget*), categories that go while their limits are passed (*Limits*), rates and a
change of currency (*Conversion*), a whole form (*Form*), its confirmation with every fault
(*Confirmation*) and tapped again (*Repeated*), one whose category goes while it is filled
(*Archived*), one that went back and is shown for confirmation a second time (*Changed*), one over
midnight (*Midnight*), and one in a month that a zone has come back to (*Returned*). Of the
workspace: photos of one resume, a photo shared by several, media, files of a person under deletion,
relations, types, people of a date, readers, tags, events of every shape, two writers of one event,
and the overview while its items go.

**Why the bounds suffice.** Deliveries share no state but the settings, so one key with two runs has
all the interference of claims, takeovers and records; batches and several rows matter to closing
(an abandoned batch), which has a run of its own. Two attempts are enough for a first, a retried and
a last one; a lease and a retry pause of one tick and an event or day of two or three ticks let a
lease end before, at and after the expiry. One or two settings changes put each refusal before and
after each read. Two zones put local midnight, 09:00 and the border of a month on both sides of the
clock. With two owners and two users every pair of rows is in one of the relations the indexes tell
apart; two sessions interleave every pair of operations, and deadlock needs no more because every
session locks at most two rows. Two processes are an owner and a standby, or an owner and a former
owner; two slots with a mode each give all configurations of a deployment (the processes of a slot
share a mode); two updates make a batch with a rest to drop; two routes tell the route of a request
from the one published since. One fault is enough for one takeover, and the failures without a bound
meet it at every point. In the ledger, months of two days put every moment next to a border; two
amounts and two rates tell an edit from a repetition; a stale edit needs one writer between page and
commit. In the workspace, a dangling reference needs a checker and a deleter, a leak an uploader and
a prune, and three people make a relation move from one pair to another. In the calendar, three
months of two or three days, a leap day and a duration longer than a day put every rule on each side
of each border; six zones (one without a change, three that skip a part of a day, one of them its
end, and two that repeat a part, on one day or on the same weekday a week later) send an event back
from a zone that agrees with its own at first and not afterwards. Symmetry is used in safety runs
only. `CHECK_DEADLOCK FALSE` stands in every configuration because behaviours end at `MaxTime`, with
the last counted request, or with the shutdown of the last process; `NoStandstill` states that
requests about connections never all wait for each other's locks (`SomeoneProceeds`), and that one
that waits for none can go on.

**Fairness.** The closing runs assume that time passes, that the prune task runs (TaskIQ schedules
it hourly) and, for reminders, that a planner run ends. Nothing is assumed of senders: they may hang
or die for ever, and do not run at all while the bot is not ready. That deliveries are closed
nevertheless is the point of the property. `OrphanPruned` assumes that a request that has begun
ends, by its own steps or by a rollback, and that the prune is scheduled; nothing of users and of
the clock. Calls of S3 and commits may fail; a bounded number of them fails (`faults`), and within
that neither S3 nor the other orphans of its batch keep an orphan for ever. The other properties
need no fairness.

## 4. Findings

1. *Reminder attempts* (`reminder_attempts`): a temporary failure within `retry_interval` of
   midnight marks the row EXPIRED; the planner, a minute later, sets EXPIRED rows of the day back to
   PENDING with no attempts. Until midnight the message is tried about once a minute, without the
   pause Telegram asked for.
2. *Reminder duplicates* (`reminder_duplicates`): the lease of each claim counts from the start of
   the batch and the `mark_*` updates check neither status nor lease, so a slow run is overtaken and
   both send.
3. *Late writes* (`finance_late_write`): the notification of a transaction entered for the previous
   month is always canceled, because the run looks for it in the month of `created_at`.
4. *Connection limit* (`connection_limit`): an approval in flight when the 24 hours end commits
   after a new request has stopped counting its row. `OwnerRowsLimited` shows that this is the only
   way.

Two smaller disagreements have no run. `docs/telegram-bot-architecture.md` (376-379) expects a
handled update to come again after a restart of the process only; the offset lives in the receiver
(`infra/telegram/polling.py:89`), so an error that ends the receiver has the same effect.
`docs/finance-tracker-architecture.md` §4.2 says that budgets, currencies and opening balances of
past months are locked; a web request that started before midnight and got the lock after it still
writes the month that was current at its start.

**Exceptions that properties name.** Some properties hold but for a case that the code really has,
and each names it, so that the run shows it to be the only one:

| Property | Exception |
| --- | --- |
| `ClosedBooks` | a request that keeps the `now` of its start over the end of a month (above), or whose month became the previous one again because the zone moved back; a late entry, one that names the previous month and was first entered after its end; and a Telegram form, which takes its time under the lock, only if the zone moved back, to a month that the next one already follows. An earlier version left the form out; the proof did not go through, and TLC then found the case (*Returned*) |
| `BooksAgree` | after the tracker's zone has moved: a moment may then lie in the window of another month than its transaction's, a report over the new window may miss the currency of a fact, or lack the name of its category (`KeyError`) |
| `OverrunTold` | an overrun that a step of the budget causes, since those publish nothing; a transaction edited before its event was read; an event whose month is not that of its `created_at` |
| `FormOutcomes` | a form whose commit was not followed by a clear in time (a crash, or the lock ran out): it may be answered CANCELED though it was saved, or SAVED for other data than the screen showed |
| `NoLeak` | an overlapping save of the same resume (`core/resumes/use_cases.py:82-98`), which frees the photo it has read and not the one it replaces (`overtaken`); objects that a failed request or a failed cleaning left behind (`stray`) |
| `UsedPresent` | an object deleted in a transaction that failed to commit (erase and prune delete before they commit), or cleaned for one that did commit after all (`lost`); an object whose DELETE the prune was told had failed, when it had not: the row stays marked, the next upload of the same content finds it and uses it (`lost` too); and a photo that a save once replaced without having seen it (`overtaken`): if its row bears an old mark, a prune run takes it, and a third save that has read it may meanwhile keep it on its resume. This one takes three jobs at once; it was met when the two conjuncts about photos turned out not to be inductive, and the proof shows that there is no other |
| `ResendKeepsAgenda` | an account that has moved to another zone since the event was written, if that zone does not show the first occurrence at the same wall times, each the same showing of it (first or second), and as long (`ClockShown`); and one whose zone puts the first occurrence off, when that is the last as well: the form is then refused, since the event would begin after its recurrence ends. An earlier version named only wall times that the zone skips; the proof did not go through, and with two more zones TLC found the others: an event written at the second showing of a repeated hour, sent back from a zone that repeats that hour on another day, and one that lasts over a change of the clock, whose length its occurrences fall back on where the new zone skips its end |
| `AgendaComplete` | the occurrence of the last day of a recurrence, in a zone whose clock skips its time at the end of that day (Nuuk and Scoresbysund do): it would begin on the day after, and `until`, which is compared with the day shown (`core/calendar/occurrences.py:75-88`), drops it (`PutOff`). Any other such occurrence is shown on the day after |
| `TouchedWhenChanged` | changes that a save did not see; and names (`OnlyNames`): of a tag or a type, which touch nothing, and of a person, who is touched but not the relatives and dates that show the name (`core/knowledge/people/use_cases.py:286-298` touches people of changed relations only). A date that gets another name or day does touch its people |

## 5. Proofs

TLAPS proves, for all values of the constants that satisfy the modules' assumptions:

- `ReminderDelivery`: `TypeCorrect`; `NeverEarlyCorrect`; `RefusalHonouredCorrect`;
  `SendsAccountedCorrect`. The second and third need what a run knows at each phase: from *resolved*
  on its window is the one computed for the zone it read, and a run with nothing changed since its
  claim has seen each refusal it has passed absent. The last counts, key by key (`Accounted`): the
  calls made, those a run is about to make and the messages accepted, against the attempts of the
  row, its lease and who holds it. It needs `RetentionAssumption`, that closed rows are kept long
  enough for no planner run to create a row again that has been pruned (90 days in
  `src/infra/config/constants.py`; two ticks would not do, as TLC shows), and `PlanDated`, that a
  planner run still at work has not fallen behind its date.
- `FinanceDelivery`: `TypeCorrect`; `ContractCorrect`, that it implements `DeliveryContract`;
  `DuplicateCorrect`, `RetrySpacedCorrect` and `RecheckCorrect`. `DeliveryInv` says that every run
  at work has a claim of its own (`Apart`: two runs on one delivery differ in their attempt), that
  an open row has as many attempts as claims, and that the calls made and those to come are not more
  than the claims (`Licensed`); from it each step maps to a step of the contract or to none.
  `CallInv` adds, for a delivery that no run outlived, that one run at most has its message in
  flight and an open row is that run's (`OneFlight`): a second one would hold the same attempt.
  Hence one message and no call before its due time. `KnowInv` is what a run has read at each phase
  and that it still is so while nothing changed.
- `TelegramConnections`: `TypeCorrect`; `OneActiveCorrect` (inductive together with the types: only
  `Approve` activates, and the index decides); `ClosedCorrect`. The last needs `LockInv`: the row
  locks of two sessions are disjoint, and from its locked read on an approval holds the lock of a
  row that is still pending. Without it the approval would overwrite a revocation that came in
  between. `InvitationsLimitedCorrect` and `OwnerRowsLimitedCorrect`: a session that counted the
  invitations of an hour still holds the open one locked or finds the index in its way (`HoldInv`,
  `OneLive`), so the counts of two sessions of one owner are never both out of date; a row is
  counted against the limit from the request that found room for it, or it is `late`.
  `SomeoneProceedsCorrect`: whatever the number of sessions, they do not all wait for each other.
  Only a session that blocks a revoked connection seeks rows while it holds one, and it seeks live
  ones; so whoever it may wait for later took its lock after that search (`Orderly`: in every set of
  sessions there is one that waits for no other of the set). With a search that is not limited to
  live rows two such sessions stop each other, as the mutant of `NoStandstill` shows.
- `TelegramRuntime`: `TypeCorrect`; `OwnerCorrect`, inductive once the stalled processes are known
  to be suspect: a tick leaves a lease of at least one tick to a process that has just renewed;
  `LeaseLeftCorrect`; `ConfirmedCorrect`, whose invariant adds that whatever lies before a
  receiver's offset, or before its place in a batch, has been through a handler, because that is
  what the next poll confirms; `TakenOnceCorrect` and `ReadyHonestCorrect`, from what a process
  knows at each await (`Local`): its batch begins at its offset, its route and its lease are those
  it announced, and a readiness that is shown is its own or its predecessor's on the way out.
- `FinanceLedger` with `FinanceEntry`: `RowsCorrect` (rows stay whole and their versions agree with
  what was written), `PricesCorrect` (whatever is booked or edited is priced by a rate set on
  record), `EditsSerialCorrect` and `EntryOnceCorrect`. The argument is a relation between the rows
  before and after a step: an operation leaves every row or writes one with the next version, and a
  row of the version that was read still holds what was read, but for a category taken away
  (`Reflects`). One form books once because its operation id finds the row that is there.
  `FormOutcomesCorrect` ties what a handler carries, what Valkey keeps and what was answered to the
  transaction of the form's operation id (`HandlerInv`, `TapInv`, `DraftInv`, `AnswerInv`): a draft
  that can still be confirmed has booked nothing, unless its clearing came too late, and what a
  handler carries is what the screen showed whose Confirm it was sent from.
- `FinanceLedger` and `FinanceStatistics` (`FinanceLedgerProofs`): `LedgerTypesCorrect`,
  `LedgerConsistentCorrect`, `OverrunToldCorrect`, `ClosedBooksCorrect` and `BooksAgreeCorrect`.
  Every step of the requests, the form and the clock does one of seven things to the books
  (`StepsBooks`: it opens months, starts the tracker, writes to a budget, enters or revises a row,
  delivers an event, or does none of these), and each property is shown of the seven. `LedgerInv`
  are the types, including what a request carries from its start to its commit. `GapInv`: the months
  have no gap, and no zone's month is more than one before the first of them; this needs
  `ZoneAssumption`, that zones lie less than a month apart (on earth, little more than a day).
  `PlacedInv`: every row has a line in its month, and lies in that month unless the zone has moved.
  `TellInv`: an event in the outbox is of its row's month, and its row is not deleted while it has
  the event's version; hence a passed limit stays announced until it is told or excused.
  `ClosedBooks` needs, of each of the seven, which months' sums it leaves alone. Recursive functions
  (`Advanced`, the points of a timeline) and sums over sets of rows are reasoned about without the
  library's induction theorems: the counterexamples in an interval, or in a family of subsets, have
  no least one (`Ascends`, `Shrinks`), and a sum does not depend on the order it is taken in.
- `WorkspaceFiles`, in every behaviour of the whole workspace (`AgendaSpec`): `UsedPresentCorrect`
  and `NoLeakCorrect`. `FilesInv` gives each row, photo, object and job its part. A row is marked
  according to what it belongs to (`MarkSound`) and its object is there unless the job that deletes
  it is at work (`RowSound`); an object without a row has an owner (`ObjectSound`); a file being
  created is known to nobody else (`NewSound`); a request that has read a photo without a lock can
  rely on it until it commits, because whatever unhooks the photo in between marks it with the
  present time and a prune run wants an old mark (`SeenSound`, `PruneSound`). Steps that commit
  nothing go through one lemma (`JobStep`), commits through another (`CommitStep`), each from what a
  step may do to jobs, rows, photos, links and objects.
- `Knowledge`: `LinksCorrect` and `LoneRequestCorrect`, and for the whole workspace
  `AgendaLinksCorrect` and `AgendaLoneRequestCorrect`. The invariant `Linked` holds because a commit
  applies the constraints the code's schema declares; that a request that met no other is served by
  them needs `Served`, what each operation has checked by each of its phases. `AgendaTypesCorrect`
  gives the tables, jobs and requests their ranges: a request has at each phase exactly the fields
  its later steps use (`Typed`, `Paced`). `TouchedCorrect` rests on `ReadSound`: what a fresh
  request has read is what the tables still hold (`Current`), so the items around what it changes
  are those it touches; and a view changes only with the item's own name, relations, dates or
  people, tags and files (`TiesParts`) and with the names it shows of them (`NamesParts`), each of
  which some step of the request puts down to it, but for the names that `OnlyNames` excepts.
- `Agenda` and `Recurrence`: `CalendarsAgreeCorrect`, `AgendaCompleteCorrect` and `ResendCorrect`,
  for every calendar of months and weeks of any length, all zones of `ZoneFits` and all events that
  the calendar has room for. They rest on three layers.
  - *Days.* The days of a month are an interval of the numbering (`MonthSpan`), and in as many days
    no more months or years begin (`MonthsPass`). From this an annual date falls on one day of a
    year or, in February, on none (`AnnualLacking`); the year that the overview picks from the month
    alone is the year its window has that month in.
  - *Times.* In a zone of `ZoneFits` `_resolve_local_time`, a round trip with a fallback, finds the
    moment that shows a wall time or the one after the gap (`Shows`), on the day it was asked for or
    by the next (`ShownDay`; the next, if the gap is at the end of a day), and two moments lie as
    far apart as their wall times but for a quarter of a day (`ShownApart`).
  - *Series.* The date of index i is i days, weeks, months or years later, clamped, and never on a
    date that is not of the pattern (`ShiftSound`); every date of the pattern has an index
    (`ShiftComplete`); later indices are later dates (`ShiftGrows`). An occurrence is a function of
    its day (`OccurrenceOn`) and occurrences begin in the order of their days
    (`OccurrencesOrdered`). The indices passed over at the start lie before the earliest date of the
    code (`CandidatesPassed`), and what begins before that date is over when the window opens
    (`EarlierOver`, where the days that the code allows for a changed clock are needed); after the
    loop's break all lies past the window or `until`; hence the occurrences found are those of the
    rule, each once (`ExpandedComplete`), but for one that is put off past `until` (`PutOff`).

  The invariants add what a request carries: what is stored or about to be fits the calendar
  (`RowsFit`), and while nothing that a request read has been overwritten, its calendar, its
  overview or the event it sends back is what it would read now (`CalendarsSound`,
  `OverviewsSound`). `ResendCorrect` compares two series index by index: with the clock of the first
  occurrence equal, the draft sent back opens and closes at the wall times of the old one on every
  day of the pattern.

Types are stated as exact ranges, so `TypeCorrect` also says that attempts never pass `max_attempts`
whatever is claimed, taken over and given back, and that no row is dated in the future.

TLC only: liveness under fairness and `ENABLED` are out of the prover's reach. That leaves
`EventuallyClosed` of both deliveries, `OrphanPruned`, and of `NoStandstill` the part that a session
that waits for no lock can execute its statement; its other part is `SomeoneProceedsCorrect`. Every
other property that a passing run checks is a theorem.

## 6. Plan

| Order | Subject | To do |
| --- | --- | --- |
| 1 | `TelegramRuntime` | a takeover after a crash as a liveness property |
| 2 | Ledger and delivery | one composition in place of what `FinanceDelivery` reads of the ledger |

## 7. Not modelled

HTTP parsing and formatting; texts of resumes and their export; the HTTP response cache, whose only
domain at this commit is the health check; cache warming, whose collector returns no target; vault,
important info and wiki links (one transaction each, or a pure rewriting of text); the parsing of
the exchange-rate feed and cross rates; settings and wiring; migrations and tooling. Of connections:
labels, and the Valkey counter that limits redemptions. Of the runtime: the command menu, the cached
status, the webhook endpoint, streamed downloads. Of knowledge: contacts, names, descriptions, order
and limits of pages. General media files can be uploaded and deleted but, in this code, are attached
to nothing.
