-------------------------- MODULE FinanceStatistics --------------------------
(***************************************************************************)
(* The statistics of the ledger: windows of local days, the facts that fall *)
(* into them by the time they occurred, and the projection of a month's     *)
(* budget from these facts, which the month itself computes by month_id.    *)
(***************************************************************************)
EXTENDS FinanceLedger

CONSTANTS
    WeekLength,   \* days in a week
    YearLength,   \* months in a year
    LastDays      \* days of the rolling periods

ASSUME WindowAssumption ==
    /\ WeekLength \in Nat \ {0} /\ YearLength \in Nat \ {0}
    /\ LastDays \in Nat \ {0}

Periods == {"today", "thisWeek", "thisMonth", "thisYear", "last", "lastYear"}

Today == clock + zone

DaysOfYear == YearLength * MonthLength

(* The first day of the block of `length` days that holds the day.            *)
BlockStart(day, length) == day - (day % length)

(* FinanceStatisticsWindow.for_period: the window and the one before it, as   *)
(* local days, the last of them excluded.  The month of `period_start` is     *)
(* that of the day.                                                           *)
Window(period, day) ==
    LET Block(length) == [from |-> BlockStart(day, length),
                          to |-> BlockStart(day, length) + length]
        Rolling(length) == [from |-> day + 1 - length, to |-> day + 1]
    IN  CASE period = "today" -> [from |-> day, to |-> day + 1]
          [] period = "thisWeek" -> Block(WeekLength)
          [] period = "thisMonth" -> Block(MonthLength)
          [] period = "thisYear" -> Block(DaysOfYear)
          [] period = "last" -> Rolling(LastDays)
          [] period = "lastYear" -> Rolling(DaysOfYear)

PreviousWindow(period, day) ==
    LET window == Window(period, day)
    IN  [from |-> window.from - (window.to - window.from), to |-> window.from]

-----------------------------------------------------------------------------
(* Facts *)

(* Currencies a report is asked in; "month" is that of the month, or of each. *)
Asked == Currencies \cup {"month"}

(* statistics_source with FinanceStatisticsWindow.contains                    *)
Facts(window) ==
    {i \in DOMAIN transactions :
        /\ ~transactions[i].deleted
        /\ window.from <= transactions[i].at + zone
        /\ transactions[i].at + zone < window.to}

(* The currencies that have a report of their own; m is the month shown.      *)
ReportedCurrencies(period, day, m, asked) ==
    LET first == MonthOf(PreviousWindow(period, day).from, 0)
        end == Window(period, day).to
    IN  IF asked # "month" THEN {asked}
        ELSE IF period = "thisMonth" THEN {months[m].currency}
        ELSE {months[p].currency : p \in {q \in DOMAIN months :
                                             first <= q /\ q * MonthLength < end}}

(* compose_result: the facts of one report                                    *)
Reported(window, period, asked, currency) ==
    {i \in Facts(window) : \/ asked # "month" \/ period = "thisMonth"
                           \/ months[transactions[i].month].currency = currency}

(* The name of a fact's category is the latest before the end of its window.  *)
Named(i, window) ==
    \E p \in DOMAIN months : /\ p * MonthLength < window.to
                             /\ transactions[i].cat \in DOMAIN months[p].lines

-----------------------------------------------------------------------------
(* Reports *)

OfCategory(ids, c) == {i \in ids : transactions[i].cat = c}
OfKindIn(ids, kind) == {i \in ids : transactions[i].kind = kind}

Sum(ids, currency) == Total(transactions, ids, currency)

(* Where a point that begins on a day ends: with its local day or month, or   *)
(* with the window.  (The hours of "today" are below a tick.)                 *)
PointEnd(day, window, period) ==
    LET end == IF period \in {"thisYear", "lastYear"} THEN (day \div MonthLength + 1) * MonthLength
               ELSE day + 1
    IN  Min({end, window.to})

Timeline(ids, window, period, currency) ==
    LET start[n \in Nat] ==
            IF n = 0 THEN window.from ELSE PointEnd(start[n - 1], window, period)
        Point(from, to) ==
            [from |-> from, to |-> to,
             amount |-> Rounded(Sum({i \in ids : /\ from <= transactions[i].at + zone
                                                 /\ transactions[i].at + zone < to}, currency))]
    IN  {Point(start[n], PointEnd(start[n], window, period)) :
            n \in {k \in 0..(window.to - window.from) : start[k] < window.to}}

(* FinanceStatisticsService.breakdown                                         *)
Breakdown(period, day, kind, asked, currency) ==
    LET window == Window(period, day)
        current == OfKindIn(Reported(window, period, asked, currency), kind)
        before == OfKindIn(Reported(PreviousWindow(period, day), period, asked, currency), kind)
    IN  [actual |-> Rounded(Sum(current, currency)),
         previous |-> Rounded(Sum(before, currency)),
         timeline |-> Timeline(current, window, period, currency),
         categories |-> [c \in {transactions[i].cat : i \in current} |->
                            Rounded(Sum(OfCategory(current, c), currency))]]

(* statistics_projection: the month from the facts of its window, not its own;*)
(* in its own currency, so that its budget needs no rate.                     *)
Projection(m, window, currency) ==
    LET month == months[m]
        facts == Facts(window)
    IN  [income |-> Rounded(Sum(OfKindIn(facts, "income"), currency)),
         expense |-> Rounded(Sum(OfKindIn(facts, "expense"), currency)),
         closing |-> Rounded(month.opening * Scale + Sum(OfKindIn(facts, "income"), currency)
                                                   - Sum(OfKindIn(facts, "expense"), currency)),
         plan |-> [c \in DOMAIN month.lines |-> month.lines[c].plan],
         spent |-> [c \in DOMAIN month.lines |-> Rounded(Sum(OfCategory(facts, c), currency))]]

MonthView(m) ==
    [income |-> Actual(months, transactions, m, "income"),
     expense |-> Actual(months, transactions, m, "expense"),
     closing |-> Closing(months, transactions, m),
     plan |-> [c \in DOMAIN months[m].lines |-> months[m].lines[c].plan],
     spent |-> [c \in DOMAIN months[m].lines |->
                   Rounded(Sum(OfCategory(Booked(transactions, m), c), months[m].currency))]]

(* FinanceStatisticsService.compose: of the month m, on a day of it for the   *)
(* period "thisMonth" and today for the others.  Only that period has a       *)
(* budget beside its figures.                                                 *)
Report(period, day, m, asked, currency) ==
    LET window == Window(period, day)
        income == Breakdown(period, day, "income", asked, currency)
        expense == Breakdown(period, day, "expense", asked, currency)
        uncategorized == OfCategory(Reported(window, period, asked, currency), NoCategory)
    IN  [income |-> income, expense |-> expense,
         net |-> income.actual - expense.actual,
         uncategorized |-> [kind \in {"income", "expense"} |->
                               Rounded(Sum(OfKindIn(uncategorized, kind), currency))],
         monthly |-> IF period = "thisMonth" THEN {Projection(m, window, currency)} ELSE {}]

-----------------------------------------------------------------------------
(* Properties *)

(* The report of a month shows what the month itself shows, although one goes *)
(* by the time of the transactions and the other by their month: its budget   *)
(* and balance, its net, each category and what has none.                     *)
ProjectionAgrees ==
    moved \/ \A m \in DOMAIN months :
        LET day == m * MonthLength
            view == MonthView(m)
            report == Report("thisMonth", day, m, "month", months[m].currency)
            Shares(b) == [c \in DOMAIN view.spent \cap DOMAIN b.categories |-> b.categories[c]]
        IN  /\ report.monthly = {view}
            /\ report.net = view.income - view.expense
            /\ \A b \in {report.income, report.expense} :
                  /\ \A c \in DOMAIN Shares(b) : b.categories[c] = view.spent[c]
                  /\ DOMAIN b.categories \subseteq DOMAIN view.spent \cup {NoCategory}
            /\ \A c \in DOMAIN view.spent :
                  view.spent[c] # 0 => c \in DOMAIN report.income.categories
                                              \cup DOMAIN report.expense.categories

(* Reports in the currencies of their months leave nothing out: each currency *)
(* a fact has is reported, though reports go by months and facts by time, and *)
(* each category has a name.                                                  *)
ReportsComplete ==
    CurrentMonth \in DOMAIN months =>
        \A period \in Periods \ {"thisMonth"} :
            LET window == Window(period, Today)
                reports == ReportedCurrencies(period, Today, CurrentMonth, "month")
            IN  moved \/ \A i \in Facts(window) :
                    /\ \E currency \in reports :
                          i \in Reported(window, period, "month", currency)
                    /\ transactions[i].cat = NoCategory \/ Named(i, window)

(* The points of a timeline tile its window, and but for its ends they begin  *)
(* with the local days or months.                                             *)
TimelineTiles ==
    \A period \in Periods :
        LET window == Window(period, Today)
            points == Timeline({}, window, period, "RUB")
            long == period \in {"thisYear", "lastYear"}
        IN  /\ \A day \in window.from..(window.to - 1) :
                  Cardinality({p \in points : p.from <= day /\ day < p.to}) = 1
            /\ {p.from : p \in points}
                  = {window.from} \cup {day \in window.from..(window.to - 1) :
                                           long => day % MonthLength = 0}

(* What a report calls the previous period is the window that the report of   *)
(* that period had, so a change is measured against a figure once shown.      *)
PreviousAgrees ==
    \A period \in Periods :
        LET previous == PreviousWindow(period, Today)
        IN  previous = Window(period, previous.to - 1)

(* The books agree with themselves and the statistics with the books.         *)
BooksAgree ==
    /\ LedgerConsistent
    /\ ProjectionAgrees /\ ReportsComplete /\ PreviousAgrees /\ TimelineTiles
=============================================================================
