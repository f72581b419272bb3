---------------------------- MODULE FinanceLedger ----------------------------
(***************************************************************************)
(* The ledger of one owner: months and their budgets, categories,           *)
(* transactions with versions and revisions, rate sets, and the limit       *)
(* warnings that transactions publish.                                      *)
(*                                                                          *)
(* A request fixes its `now` when it begins.  What it does before it takes  *)
(* the owner's advisory lock (checks, the rate of the day) is one step;     *)
(* from the lock to the commit nothing of the owner changes under it, so    *)
(* that is the other step.  A request that does neither rolls back.  Data   *)
(* of other owners is scoped by tracker and is not modelled; names,         *)
(* positions, descriptions and the lineage of categories are left out.      *)
(***************************************************************************)
EXTENDS Integers, Sequences, FiniteSets, FiniteSetsExt

CONSTANTS
    Income, Expense,  \* stable categories of each kind that may come to exist
    Template,         \* the categories of the first month
    NoCategory,       \* the category of a transaction that has lost its own
    WholeMonth,       \* the limit scope that is not a category
    Requests,         \* web requests in progress at once
    MonthLength,      \* ticks in a local month; a tick is a day
    Amounts,          \* amounts of transactions, in minor units
    Plans,            \* planned amounts and opening balances
    RateValues,       \* roubles per dollar a rate set may state
    Holidays,         \* days for which the provider publishes nothing new
    Scale,            \* exact values are counted in units of 1/Scale
    Scenarios         \* bound: what a behaviour may do, and how often

Categories == Income \cup Expense
Currencies == {"RUB", "USD"}
NoPlan == -1

Operations == {"create", "edit", "delete", "currency", "opening", "plan",
               "archive", "restore", "remove", "category"}

ASSUME NameAssumption ==
    /\ Income \cap Expense = {} /\ Template \subseteq Categories /\ IsFiniteSet(Template)
    /\ NoCategory \notin Categories /\ WholeMonth \notin Categories

ASSUME MoneyAssumption ==
    /\ Amounts \subseteq Nat \ {0} /\ Plans \subseteq Nat
    /\ Scale \in Nat \ {0} /\ RateValues \subseteq Nat \ {0}
    /\ \A value \in RateValues : Scale % value = 0

ASSUME TimeAssumption == MonthLength \in Nat \ {0}

(* operations allowed and requests made; first and last tick; whether the     *)
(* tracker exists at the beginning; the days that transactions occur on,      *)
(* their amounts and currencies; zones of the account; rates the provider     *)
(* publishes, and whether they are also synchronized on their own; Telegram   *)
(* forms, the step that a form filled before is at, the events of their       *)
(* conversations, and faults.                                                 *)
ASSUME ScenarioAssumption ==
    Scenarios \subseteq [operations : SUBSET Operations, requests : Nat, start : Nat,
                         time : Nat, started : BOOLEAN, days : SUBSET Nat,
                         amounts : SUBSET Amounts, currencies : SUBSET Currencies,
                         zones : SUBSET Int, rates : SUBSET RateValues, refresh : BOOLEAN,
                         forms : Nat, step : {"date", "confirmation"},
                         events : Nat, faults : Nat]

(* Two zones lie less than two days apart, and a month is longer.             *)
ASSUME ZoneAssumption ==
    \A s \in Scenarios : \A one, other \in s.zones \cup {0} : one - other <= MonthLength

VARIABLES
    scenario,      \* which bound this behaviour is explored under
    left,          \* requests still to come
    clock,
    zone,          \* the tracker's zone: how far local time is ahead of the clock
    months,        \* finance_month and finance_month_category, by period
    stable,        \* finance_category
    transactions,  \* finance_transaction
    revisions,     \* finance_transaction_revision
    rateSets,      \* finance_exchange_rate_set, in the order of saving
    request,       \* the web requests in progress
    outbox,        \* limit events that have not been delivered
    told,          \* history: overruns a delivered message reported
    excused,       \* history: overruns nobody had to be told of
    moved          \* history: the tracker's zone has changed

ledger == <<months, stable, transactions, revisions, rateSets>>
warnings == <<outbox, told, excused>>
bounds == <<scenario, left>>
vars == <<bounds, clock, zone, moved, ledger, request, warnings>>

-----------------------------------------------------------------------------
(* Time and money *)

MonthOf(time, z) == (time + z) \div MonthLength

CurrentMonth == MonthOf(clock, zone)

RubPerUnit(rate, currency) == IF currency = "RUB" THEN 1 ELSE rate.usd

(* Amount.rounded: half away from zero, of a value in units of 1/Scale.       *)
Rounded(exact) ==
    IF exact >= 0 THEN (2 * exact + Scale) \div (2 * Scale)
                  ELSE -((Scale - 2 * exact) \div (2 * Scale))

Converted(amount, rate, from, to) ==
    Rounded(amount * RubPerUnit(rate, from) * (Scale \div RubPerUnit(rate, to)))

(* rate_for_date and latest_rate_before_date                                  *)
RateFor(day) ==
    LET there == {n \in DOMAIN rateSets : rateSets[n].on = day}
    IN  IF there = {} THEN {} ELSE {rateSets[Max(there)]}

LatestRate(day) ==
    LET earlier == {rateSets[n].on : n \in {k \in DOMAIN rateSets : rateSets[k].on <= day}}
    IN  IF earlier = {} THEN {} ELSE RateFor(Max(earlier))

(* The provider answers for the day, or for the one before a holiday.         *)
Published(day) == [on : {IF day \in Holidays THEN day - 1 ELSE day}, usd : scenario.rates]

(* resolve_rate_set_id: the set of the day, else the provider's, else, while  *)
(* the provider is unavailable, the latest one known.                         *)
Priced(day) ==
    IF RateFor(day) # {} THEN RateFor(day) ELSE Published(day) \cup LatestRate(day)

(* save_rate_set: a set that is already there stays where it is.              *)
Saved(rate) ==
    IF \E n \in DOMAIN rateSets : rateSets[n] = rate THEN rateSets
                                                     ELSE Append(rateSets, rate)

-----------------------------------------------------------------------------
(* The view of a month, of the months M and the transactions T *)

KindOf(category) == IF category \in Income THEN "income" ELSE "expense"

(* A transaction's value in a currency, by the rate set it was entered with.  *)
Value(t, currency) == t.rub * (Scale \div RubPerUnit(t.rate, currency))

Total(T, ids, currency) ==
    MapThenSumSet(LAMBDA i : Value(T[i], currency), ids)

Booked(T, m) == {i \in DOMAIN T : T[i].month = m /\ ~T[i].deleted}
OfKind(T, m, kind) == {i \in Booked(T, m) : T[i].kind = kind}

Actual(M, T, m, kind) == Rounded(Total(T, OfKind(T, m, kind), M[m].currency))

Closing(M, T, m) ==
    Rounded(M[m].opening * Scale + Total(T, OfKind(T, m, "income"), M[m].currency)
                                 - Total(T, OfKind(T, m, "expense"), M[m].currency))

(* planned_total: unknown as soon as one active category has no plan.         *)
PlannedExpense(M, m) ==
    LET active == {c \in DOMAIN M[m].lines \cap Expense : M[m].lines[c].accepting}
    IN  IF \E c \in active : M[m].lines[c].plan = NoPlan THEN NoPlan
        ELSE MapThenSumSet(LAMBDA c : M[m].lines[c].plan, active)

Scopes(M, m) == (DOMAIN M[m].lines \cap Expense) \cup {WholeMonth}

Planned(M, m, scope) ==
    IF scope = WholeMonth THEN PlannedExpense(M, m) ELSE M[m].lines[scope].plan

Spent(M, T, m, scope) ==
    IF scope = WholeMonth THEN Actual(M, T, m, "expense")
    ELSE Rounded(Total(T, {i \in Booked(T, m) : T[i].cat = scope}, M[m].currency))

Exceeded(M, T, m, scope) ==
    Planned(M, m, scope) # NoPlan /\ Spent(M, T, m, scope) > Planned(M, m, scope)

Overruns(M, T) ==
    UNION {{<<m, scope>> : scope \in {s \in Scopes(M, m) : Exceeded(M, T, m, s)}} :
            m \in DOMAIN M}

-----------------------------------------------------------------------------
(* Months come and go with the local date *)

WithMonth(M, m, month) == [p \in DOMAIN M \cup {m} |-> IF p = m THEN month ELSE M[p]]

InitialMonth(currency) ==
    [currency |-> currency, opening |-> 0, transferred |-> {},
     lines |-> [c \in Template |-> [plan |-> NoPlan, accepting |-> TRUE]]]

(* create_preceding_month: the zone has moved back before the first month.    *)
PrecedingMonth(next) ==
    [currency |-> next.currency, opening |-> 0, transferred |-> {},
     lines |-> [c \in DOMAIN next.lines |->
                   [plan |-> NoPlan, accepting |-> next.lines[c].accepting]]]

(* rollover and create_rollover_month                                         *)
FollowingMonth(M, m) ==
    LET closing == Closing(M, transactions, m)
        copied == {c \in DOMAIN M[m].lines :
                      M[m].lines[c].accepting /\ stable[c] # "archived"}
    IN  [currency |-> M[m].currency, opening |-> closing, transferred |-> {closing},
         lines |-> [c \in copied |-> [plan |-> M[m].lines[c].plan, accepting |-> TRUE]]]

Latest == Max(DOMAIN months)

(* FinanceMonthService.advance: skipped months are created in order.          *)
Advanced(current) ==
    LET rolled[m \in Latest..current] ==
            IF m = Latest THEN months
            ELSE WithMonth(rolled[m - 1], m, FollowingMonth(rolled[m - 1], m - 1))
    IN  IF Latest <= current THEN rolled[current]
        ELSE IF current \in DOMAIN months THEN months
        ELSE WithMonth(months, current, PrecedingMonth(months[Latest]))

(* sync_tracker_time_zone, then advance, under the tracker's lock             *)
Open(account) ==
    /\ zone' = account
    /\ moved' = (moved \/ account # zone)
    /\ months' = Advanced(MonthOf(clock, account))

(* ensure_month of a tracker that exists                                      *)
EnsureMonth ==
    /\ DOMAIN months # {}
    /\ \E account \in scenario.zones : Open(account)
    /\ UNCHANGED <<bounds, clock, stable, transactions, revisions, rateSets, request,
                   warnings>>

(* ensure_month of a new owner, whose language selects the currency           *)
FirstMonths(account, currency) ==
    [m \in {MonthOf(clock, account)} |-> InitialMonth(currency)]

FirstCategories == [c \in Categories |-> IF c \in Template THEN "active" ELSE "absent"]

InitializeTracker ==
    /\ DOMAIN months = {}
    /\ \E account \in scenario.zones, currency \in scenario.currencies :
         /\ zone' = account
         /\ months' = FirstMonths(account, currency)
    /\ stable' = FirstCategories
    /\ UNCHANGED <<bounds, clock, moved, transactions, revisions, rateSets, request,
                   warnings>>

-----------------------------------------------------------------------------
(* Requests *)

Idle == [op |-> "idle"]

Begin(w, op, record) ==
    /\ op \in scenario.operations
    /\ request' = [request EXCEPT ![w] = record]

Fresh(w) == request[w] = Idle /\ left > 0 /\ left' = left - 1

(* Nothing but the request changes before the lock.                           *)
Unlocked == UNCHANGED <<scenario, clock, zone, moved, ledger, warnings>>

(* The commit of a request; what it did to the ledger is stated beside it.    *)
Finish(w) ==
    /\ request' = [request EXCEPT ![w] = Idle]
    /\ UNCHANGED <<bounds, clock, zone, moved>>

(* The month that a request names beside its `now`.  A historical one may     *)
(* name any month; only one is worth naming here, since the current month is  *)
(* what the others work on and for_transaction refuses the rest.              *)
NoPeriod == {}
HistoricalPeriod == {CurrentMonth - 1}

(* for_transaction: the month a request of `now` works on                     *)
Period(now, period) == IF period = {} THEN MonthOf(now, zone) ELSE Max(period)

Found(now, period) ==
    LET current == MonthOf(now, zone)
    IN  /\ current \in DOMAIN months
        /\ Period(now, period) \in DOMAIN months \cap {current - 1, current}

(* A budget step publishes nothing, so an overrun it causes is not told.      *)
Silently ==
    LET over == Overruns(months', transactions')
        before == Overruns(months, transactions)
    IN  /\ told' = told \cap over
        /\ excused' = (excused \cup (over \ before)) \cap over
        /\ UNCHANGED outbox

(* Mutant: a limit spent to its last unit counts as crossed already.          *)
MutCrossed(m, after) ==
    {scope \in Scopes(months, m) :
        LET plan == Planned(months, m, scope)
        IN  /\ plan # NoPlan
            /\ Spent(months, transactions, m, scope) < plan
            /\ plan < Spent(months, after, m, scope)}

(* crossed_limits: scopes that went from within their plan to above it.       *)
Crossed(m, after) ==
    {scope \in Scopes(months, m) :
        LET plan == Planned(months, m, scope)
        IN  /\ plan # NoPlan
            /\ Spent(months, transactions, m, scope) <= plan
            /\ plan < Spent(months, after, m, scope)}

(* FinanceEventPayload.for_limit, in the event that carries it                *)
LimitEvent(m, scope, i, version, now) ==
    [month |-> m, scope |-> scope, tx |-> i, version |-> version, createdAt |-> now]

(* FinanceEventService.changed with the commit of the transaction it is for.  *)
Announce(m, i, now) ==
    LET over == Overruns(months, transactions')
    IN  /\ outbox' = outbox \cup
              {LimitEvent(m, scope, i, transactions'[i].version, now) :
                  scope \in Crossed(m, transactions')}
        /\ told' = told \cap over
        /\ excused' = excused \cap over

-----------------------------------------------------------------------------
(* Transactions *)

(* A category id is that of one month's snapshot.                             *)
Drafts == [month : DOMAIN months, cat : Categories, amount : scenario.amounts,
           currency : scenario.currencies, at : scenario.days]

Listed(draft, m) == draft.month = m /\ draft.cat \in DOMAIN months[m].lines

Accepting(draft, m) == Listed(draft, m) /\ months[m].lines[draft.cat].accepting

Rub(draft, rate) == draft.amount * RubPerUnit(rate, draft.currency)

Entered(draft, m, rate, now, form) ==
    [month |-> m, cat |-> draft.cat, kind |-> KindOf(draft.cat), amount |-> draft.amount,
     currency |-> draft.currency, rub |-> Rub(draft, rate), rate |-> rate, at |-> draft.at,
     form |-> form, version |-> 1, deleted |-> FALSE, createdAt |-> now]

(* A new row has the next number; `form` is the operation id of a Telegram    *)
(* form, and NoForm for the web.                                              *)
NoForm == 0

NextId == Cardinality(DOMAIN transactions) + 1

Record(draft, m, rate, now, form) ==
    /\ transactions' = [i \in DOMAIN transactions \cup {NextId} |->
                           IF i = NextId THEN Entered(draft, m, rate, now, form)
                                         ELSE transactions[i]]
    /\ revisions' = [i \in DOMAIN transactions \cup {NextId} |->
                        IF i = NextId THEN <<>> ELSE revisions[i]]
    /\ rateSets' = Saved(rate)
    /\ Announce(m, NextId, now)
    /\ UNCHANGED <<months, stable>>

(* What create_transaction checks, without the lock and again under it.       *)
Enterable(draft, m) == MonthOf(draft.at, zone) = m /\ Accepting(draft, m)

StartCreate(w, period) ==
    /\ Fresh(w)
    /\ \E draft \in Drafts :
         /\ Found(clock, period)
         /\ Enterable(draft, Period(clock, period))
         /\ \E rate \in Priced(draft.at + zone) :
              Begin(w, "create", [op |-> "create", period |-> period, draft |-> draft,
                                  rate |-> rate, now |-> clock])
    /\ Unlocked

CreateTransaction(w) == StartCreate(w, NoPeriod)
CreateHistoricalTransaction(w) == StartCreate(w, HistoricalPeriod)

CommitCreate(w) ==
    LET r == request[w]
        m == Period(r.now, r.period)
    IN  /\ r.op = "create"
        /\ Found(r.now, r.period)
        /\ Enterable(r.draft, m)
        /\ Record(r.draft, m, r.rate, r.now, NoForm)
        /\ Finish(w)

(* The months a user may look at, through one that is current.               *)
Viewable ==
    {m \in DOMAIN months : CurrentMonth \in DOMAIN months /\ m <= CurrentMonth}

(* The rows of a month's page, deleted ones included                          *)
Page(m) == {i \in DOMAIN transactions : transactions[i].month = m}

(* The editor opens a page and sees a transaction as it is now.               *)
OpenPage(w, m) ==
    /\ Fresh(w)
    /\ m \in Viewable
    /\ \E i \in Page(m), op \in {"edit", "delete"} :
         Begin(w, op, [op |-> "page", next |-> op, tx |-> i, seen |-> transactions[i]])
    /\ Unlocked

ListTransactions(w) == OpenPage(w, CurrentMonth)
ListHistoricalTransactions(w) == \E m \in Viewable \ {CurrentMonth} : OpenPage(w, m)

(* Mutant: the preceding month accepts writes to every entry of it. *)
MutWritable(t, m, now) == m \in {MonthOf(now, zone) - 1, MonthOf(now, zone)}

(* check_writable                                                             *)
Writable(t, m, now) ==
    LET current == MonthOf(now, zone)
    IN  m = current \/ (m + 1 = current /\ MonthOf(t.createdAt, zone) = current)

(* The transaction is of the month the request works on, and may be written.  *)
Editable(i, period, now) ==
    /\ Found(now, period)
    /\ transactions[i].month = Period(now, period)
    /\ Writable(transactions[i], Period(now, period), now)

(* has_monetary_change                                                        *)
Reprices(t, draft) ==
    t.amount # draft.amount \/ t.currency # draft.currency \/ t.at # draft.at

(* Mutant: the version the page was rendered with is not compared. *)
MutUpdatableVersion(t, version, draft, m) ==
    ~t.deleted /\ (draft.at = t.at \/ MonthOf(draft.at, zone) = m)

(* Mutant: an edit may take its transaction to any date. *)
MutUpdatableDate(t, version, draft, m) == t.version = version /\ ~t.deleted

(* check_updatable and validate_update                                        *)
Updatable(t, version, draft, m) ==
    /\ t.version = version /\ ~t.deleted
    /\ draft.at = t.at \/ MonthOf(draft.at, zone) = m

(* update_transaction before the lock: whether the amount is priced again is  *)
(* decided here.                                                              *)
StartUpdate(w, period) ==
    LET r == request[w]
        t == transactions[r.tx]
    IN  /\ r.op = "page" /\ r.next = "edit"
        /\ \E draft \in Drafts :
             /\ draft.month = t.month
             /\ Editable(r.tx, period, clock)
             /\ Updatable(t, r.seen.version, draft, t.month)
             /\ \E rates \in IF Reprices(t, draft)
                             THEN {{rate} : rate \in Priced(draft.at + zone)} ELSE {{}} :
                  Begin(w, "edit", [op |-> "edit", tx |-> r.tx, seen |-> r.seen,
                                    period |-> period, draft |-> draft, rates |-> rates,
                                    now |-> clock])
        /\ Unlocked /\ UNCHANGED left

UpdateTransaction(w) == StartUpdate(w, NoPeriod)
UpdateHistoricalTransaction(w) == StartUpdate(w, HistoricalPeriod)

(* The kept category need not accept transactions any more.                   *)
Chosen(draft, t) ==
    Listed(draft, t.month) /\ (Accepting(draft, t.month) \/ draft.cat = t.cat)

Revised(t, draft, rates) ==
    LET rate == IF rates = {} THEN t.rate ELSE CHOOSE r \in rates : TRUE
        rub == IF rates = {} THEN t.rub ELSE Rub(draft, rate)
    IN  [t EXCEPT !.cat = draft.cat, !.kind = KindOf(draft.cat), !.amount = draft.amount,
                  !.currency = draft.currency, !.rub = rub, !.rate = rate, !.at = draft.at,
                  !.version = t.version + 1]

(* The row is replaced and its previous state is kept as a revision.          *)
Replace(i, row, now) ==
    /\ transactions' = [transactions EXCEPT ![i] = row]
    /\ revisions' = [revisions EXCEPT ![i] = Append(@, transactions[i])]
    /\ Announce(row.month, i, now)
    /\ UNCHANGED <<months, stable>>

CommitUpdate(w) ==
    LET r == request[w]
        t == transactions[r.tx]
    IN  /\ r.op = "edit"
        /\ Editable(r.tx, r.period, r.now)
        /\ Updatable(t, r.seen.version, r.draft, t.month)
        /\ Chosen(r.draft, t)
        /\ Replace(r.tx, Revised(t, r.draft, r.rates), r.now)
        /\ rateSets' = IF r.rates = {} THEN rateSets ELSE Saved(CHOOSE s \in r.rates : TRUE)
        /\ Finish(w)

(* set_transaction_deleted has nothing to do before the lock.                 *)
StartDeletion(w, period, deleted) ==
    LET r == request[w]
    IN  /\ r.op = "page" /\ r.next = "delete" /\ r.seen.deleted # deleted
        /\ Begin(w, "delete", [op |-> "delete", tx |-> r.tx, seen |-> r.seen,
                               period |-> period, now |-> clock])
        /\ Unlocked /\ UNCHANGED left

DeleteTransaction(w) == StartDeletion(w, NoPeriod, TRUE)
RestoreTransaction(w) == StartDeletion(w, NoPeriod, FALSE)
DeleteHistoricalTransaction(w) == StartDeletion(w, HistoricalPeriod, TRUE)
RestoreHistoricalTransaction(w) == StartDeletion(w, HistoricalPeriod, FALSE)

CommitDeletion(w) ==
    LET r == request[w]
        t == transactions[r.tx]
    IN  /\ r.op = "delete"
        /\ Editable(r.tx, r.period, r.now)
        /\ t.version = r.seen.version /\ t.deleted = r.seen.deleted
        /\ Replace(r.tx, [t EXCEPT !.deleted = ~r.seen.deleted, !.version = t.version + 1],
                   r.now)
        /\ UNCHANGED rateSets
        /\ Finish(w)

-----------------------------------------------------------------------------
(* Budgets: requests that only work under the lock, on the month of their now *)

OpeningRequests == [op : {"opening"}, now : {clock}, amount : Plans]

CategoryRequests ==
    [op : {"category"}, now : {clock}, cat : Categories, plan : Plans \cup {NoPlan}]

(* A category id of a page of the current month                               *)
OnLine(op) == [op : {op}, now : {clock}, month : {CurrentMonth}, cat : Categories]

PlanRequests ==
    [op : {"plan"}, now : {clock}, month : {CurrentMonth}, cat : Categories,
     plan : Plans \cup {NoPlan}]
ArchiveRequests == OnLine("archive")
RestoreRequests == OnLine("restore")
RemoveRequests == OnLine("remove")

BudgetRequests ==
    UNION {OpeningRequests, CategoryRequests, PlanRequests, ArchiveRequests,
           RestoreRequests, RemoveRequests}

StartBudget(w) ==
    /\ Fresh(w)
    /\ CurrentMonth \in DOMAIN months
    /\ \E r \in BudgetRequests : Begin(w, r.op, r)
    /\ Unlocked

(* lock_month(now)                                                            *)
LockedMonth(w, op, m) ==
    /\ request[w].op = op
    /\ m = MonthOf(request[w].now, zone)
    /\ m \in DOMAIN months

(* The category id of the request is one of the locked month.                 *)
LockedLine(w, op, m) ==
    /\ LockedMonth(w, op, m)
    /\ request[w].month = m
    /\ request[w].cat \in DOMAIN months[m].lines

WithOpening(m, amount) == [months EXCEPT ![m].opening = amount]

(* update_opening_balance                                                     *)
SetOpening(w) ==
    \E m \in DOMAIN months :
        /\ LockedMonth(w, "opening", m)
        /\ months' = WithOpening(m, request[w].amount)
        /\ UNCHANGED <<stable, transactions, revisions, rateSets>>
        /\ Silently /\ Finish(w)

WithPlan(m, c, plan) == [months EXCEPT ![m].lines[c].plan = plan]

(* update_category                                                            *)
SetPlan(w) ==
    \E m \in DOMAIN months :
        /\ LockedLine(w, "plan", m)
        /\ months[m].lines[request[w].cat].accepting
        /\ months' = WithPlan(m, request[w].cat, request[w].plan)
        /\ UNCHANGED <<stable, transactions, revisions, rateSets>>
        /\ Silently /\ Finish(w)

WithAccepting(m, c, accepting) == [months EXCEPT ![m].lines[c].accepting = accepting]

(* set_category_archived                                                      *)
SetArchived(w, op, accepting) ==
    \E m \in DOMAIN months :
        /\ LockedLine(w, op, m)
        /\ months' = WithAccepting(m, request[w].cat, accepting)
        /\ stable' = [stable EXCEPT ![request[w].cat] =
                         IF accepting THEN "active" ELSE "archived"]
        /\ UNCHANGED <<transactions, revisions, rateSets>>
        /\ Silently /\ Finish(w)

Archive(w) == SetArchived(w, "archive", FALSE)
Restore(w) == SetArchived(w, "restore", TRUE)

(* delete_category: its snapshots in every month go, its transactions stay.   *)
WithoutCategory(c) ==
    [m \in DOMAIN months |->
        [months[m] EXCEPT !.lines = [k \in DOMAIN months[m].lines \ {c} |->
                                        months[m].lines[k]]]]

RemoveCategory(w) ==
    LET c == request[w].cat
    IN  \E m \in DOMAIN months :
            /\ LockedLine(w, "remove", m)
            /\ months' = WithoutCategory(c)
            /\ stable' = [stable EXCEPT ![c] = "deleted"]
            /\ transactions' = [i \in DOMAIN transactions |->
                   IF transactions[i].cat = c
                   THEN [transactions[i] EXCEPT !.cat = NoCategory] ELSE transactions[i]]
            /\ UNCHANGED <<revisions, rateSets>>
            /\ Silently /\ Finish(w)

WithCategory(m, c, plan) ==
    [months EXCEPT ![m].lines =
        [k \in DOMAIN @ \cup {c} |->
            IF k = c THEN [plan |-> plan, accepting |-> TRUE] ELSE @[k]]]

CreateCategory(w) ==
    LET c == request[w].cat
    IN  \E m \in DOMAIN months :
            /\ LockedMonth(w, "category", m)
            /\ stable[c] = "absent"
            /\ months' = WithCategory(m, c, request[w].plan)
            /\ stable' = [stable EXCEPT ![c] = "active"]
            /\ UNCHANGED <<transactions, revisions, rateSets>>
            /\ Silently /\ Finish(w)

(* change_currency: the rate is that of the local day, fetched without a lock.*)
CurrencyRequests(rate) ==
    [op : {"currency"}, now : {clock}, currency : Currencies, rate : {rate}]

StartCurrency(w) ==
    /\ Fresh(w)
    /\ CurrentMonth \in DOMAIN months
    /\ \E rate \in Priced(clock + zone) : \E r \in CurrencyRequests(rate) :
         /\ r.currency # months[CurrentMonth].currency
         /\ Begin(w, "currency", r)
    /\ Unlocked

ConvertedMonth(month, currency, rate) ==
    LET Convert(x) == Converted(x, rate, month.currency, currency)
    IN  [month EXCEPT !.currency = currency, !.opening = Convert(month.opening),
            !.lines = [c \in DOMAIN month.lines |->
                          [month.lines[c] EXCEPT !.plan =
                              IF month.lines[c].plan = NoPlan THEN NoPlan
                              ELSE Convert(month.lines[c].plan)]]]

WithCurrency(m, currency, rate) ==
    [months EXCEPT ![m] = ConvertedMonth(@, currency, rate)]

CommitCurrency(w) ==
    \E m \in DOMAIN months :
        /\ LockedMonth(w, "currency", m)
        /\ months' = IF months[m].currency = request[w].currency THEN months
                     ELSE WithCurrency(m, request[w].currency, request[w].rate)
        /\ rateSets' = Saved(request[w].rate)
        /\ UNCHANGED <<stable, transactions, revisions>>
        /\ Silently /\ Finish(w)

-----------------------------------------------------------------------------
(* What happens beside the requests *)

(* A check fails, the rate is unavailable or the client goes away: rollback.  *)
Fail(w) ==
    /\ request[w] # Idle
    /\ request' = [request EXCEPT ![w] = Idle]
    /\ UNCHANGED left
    /\ Unlocked

(* sync_finance_rates                                                         *)
RefreshRates ==
    /\ scenario.refresh
    /\ \E rate \in Published(clock) : rateSets' = Saved(rate)
    /\ UNCHANGED <<bounds, clock, zone, moved, months, stable, transactions, revisions,
                   request, warnings>>

(* A run of the finance notifications takes a limit event.  It looks for the  *)
(* transaction in the month of created_at and reports the overrun if the      *)
(* transaction is as the event saw it and the scope is still over its plan.   *)
Holds(e) ==
    LET t == transactions[e.tx]
        m == MonthOf(e.createdAt, zone)
    IN  /\ m \in DOMAIN months /\ t.month = m
        /\ ~t.deleted /\ t.version = e.version
        /\ m = e.month
        /\ e.scope \in Scopes(months, m) /\ Exceeded(months, transactions, m, e.scope)

(* What excuses silence: the transaction was edited since, or the event is    *)
(* about another month than that of created_at.                               *)
Superseded(e) ==
    \/ transactions[e.tx].version # e.version
    \/ MonthOf(e.createdAt, zone) # e.month

Deliver(e) ==
    LET overrun == {<<e.month, e.scope>>} \cap Overruns(months, transactions)
    IN  /\ e \in outbox
        /\ outbox' = outbox \ {e}
        /\ told' = IF Holds(e) THEN told \cup overrun ELSE told
        /\ excused' = IF Superseded(e) THEN excused \cup overrun ELSE excused
        /\ UNCHANGED <<bounds, clock, zone, moved, ledger, request>>

Tick ==
    /\ clock < scenario.time
    /\ clock' = clock + 1
    /\ UNCHANGED <<bounds, zone, moved, ledger, request, warnings>>

Init ==
    /\ scenario \in Scenarios
    /\ left = scenario.requests
    /\ clock = scenario.start /\ zone = 0 /\ moved = FALSE
    /\ \/ /\ ~scenario.started
          /\ months = [m \in {} |-> {}] /\ stable = [c \in Categories |-> "absent"]
       \/ /\ scenario.started
          /\ \E currency \in scenario.currencies : months = FirstMonths(zone, currency)
          /\ stable = FirstCategories
    /\ transactions = [i \in {} |-> {}]
    /\ revisions = [i \in {} |-> {}]
    /\ rateSets = <<>>
    /\ request = [w \in Requests |-> Idle]
    /\ outbox = {} /\ told = {} /\ excused = {}

Committed(w) ==
    \/ CommitCreate(w) \/ CommitUpdate(w) \/ CommitDeletion(w) \/ CommitCurrency(w)
    \/ SetOpening(w) \/ SetPlan(w) \/ Archive(w) \/ Restore(w)
    \/ RemoveCategory(w) \/ CreateCategory(w)

Started(w) ==
    \/ CreateTransaction(w) \/ CreateHistoricalTransaction(w)
    \/ ListTransactions(w) \/ ListHistoricalTransactions(w)
    \/ UpdateTransaction(w) \/ UpdateHistoricalTransaction(w)
    \/ DeleteTransaction(w) \/ DeleteHistoricalTransaction(w)
    \/ RestoreTransaction(w) \/ RestoreHistoricalTransaction(w)
    \/ StartCurrency(w) \/ StartBudget(w)

LedgerNext ==
    \/ EnsureMonth \/ InitializeTracker \/ RefreshRates \/ Tick
    \/ \E w \in Requests : Started(w) \/ Committed(w) \/ Fail(w)
    \/ \E e \in outbox : Deliver(e)

Spec == Init /\ [][LedgerNext]_vars

-----------------------------------------------------------------------------
(* Properties *)

(* The months of a tracker have no gap between them.                          *)
MonthsContiguous == \A m \in DOMAIN months : \A p \in m..Latest : p \in DOMAIN months

(* A transaction's category is one of its month's, of the transaction's kind. *)
NoDangling ==
    \A i \in DOMAIN transactions :
        LET t == transactions[i]
        IN  t.cat # NoCategory => /\ t.cat \in DOMAIN months[t.month].lines
                                  /\ t.kind = KindOf(t.cat)
                                  /\ stable[t.cat] \in {"active", "archived"}

(* The rouble value follows from the amount and the rate set of the row, and  *)
(* that set is on record.                                                     *)
PricingConsistent ==
    \A i \in DOMAIN transactions :
        LET t == transactions[i]
        IN  /\ t.rub = t.amount * RubPerUnit(t.rate, t.currency)
            /\ \E n \in DOMAIN rateSets : rateSets[n] = t.rate

(* A transaction occurred in its month, unless the zone has moved since.      *)
WithinMonth ==
    moved \/ \A i \in DOMAIN transactions :
                 MonthOf(transactions[i].at, zone) = transactions[i].month

(* The books agree with themselves after any sequence of requests, whatever   *)
(* they overtook: no gap between months, no transaction in a category that    *)
(* is gone, none priced apart from its rate set, and none outside its month.  *)
LedgerConsistent == MonthsContiguous /\ NoDangling /\ PricingConsistent /\ WithinMonth

(* An edit overwrites only what the editor has seen: the revision it leaves   *)
(* is the transaction on the editor's page, up to a category that has been    *)
(* deleted for good since (which does not count as a version).                *)
EditsSerial ==
    [][\A w \in Requests :
          LET r == request[w]
          IN  (r.op \in {"edit", "delete"} /\ request'[w] = Idle /\ revisions' # revisions) =>
                  LET last == revisions'[r.tx][Len(revisions'[r.tx])]
                  IN  [last EXCEPT !.cat = r.seen.cat] = r.seen
                      /\ last.cat \in {r.seen.cat, NoCategory}]_vars

(* The books of a month that another one follows stay as they were carried    *)
(* over: its currency, opening balance, plans and closing balance change only *)
(* by a late entry, one that names the month and was first entered after it,  *)
(* or by a request whose `now` was in that month (it began before midnight,   *)
(* or the zone has moved back), or, in that last case, by a Telegram form.    *)
ClosedBooks ==
    [][\A m \in DOMAIN months :
          (m + 1 \in DOMAIN months /\ m \in DOMAIN months')
          => \/ /\ months'[m].currency = months[m].currency
                /\ months'[m].opening = months[m].opening
                /\ \A c \in DOMAIN months[m].lines \cap DOMAIN months'[m].lines :
                       months'[m].lines[c].plan = months[m].lines[c].plan
                /\ Closing(months', transactions', m) = Closing(months, transactions, m)
             \/ \E w \in Requests :
                   /\ request[w] # Idle /\ request'[w] = Idle
                   /\ \/ MonthOf(request[w].now, zone) = m
                      \/ /\ request[w].op \in {"create", "edit", "delete"}
                         /\ request[w].period = {m}
                         /\ MonthOf(request[w].now, zone) = m + 1
                         /\ request[w].op # "create" =>
                               MonthOf(transactions[request[w].tx].createdAt, zone) = m + 1
             \/ /\ m = CurrentMonth
                /\ \E i \in DOMAIN transactions' \ DOMAIN transactions :
                      transactions'[i].form # NoForm]_vars

(* An expense limit that transactions have passed is reported, or its report  *)
(* is on the way, unless the report was superseded.                           *)
OverrunTold ==
    Overruns(months, transactions)
        \subseteq told \cup excused \cup {<<e.month, e.scope>> : e \in outbox}
=============================================================================
