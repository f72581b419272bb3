------------------------------ MODULE Recurrence ------------------------------
(***************************************************************************)
(* When an event takes place: its recurrence, expanded over a window of days *)
(* as the calendar shows it, and the days of annual dates.                   *)
(*                                                                           *)
(* Days are numbered from 0; Years gives the calendar, a year being the      *)
(* lengths of its months.  Wall times and instants are counted in ticks.  A  *)
(* zone changes its offset once, at the instant z.at, so it may skip wall    *)
(* times or show them twice.  Titles, descriptions and names are left out.   *)
(***************************************************************************)
EXTENDS Integers, FiniteSets, Sequences, Functions

CONSTANTS
    Years,   \* bound: the years of the calendar
    Week,    \* days of a week
    Ticks    \* of a day

ASSUME CalendarAssumption ==
    /\ {Week, Ticks} \subseteq Nat \ {0}
    /\ Years \in Seq(Seq(Nat \ {0})) /\ Years # <<>>
    /\ \A x, y \in DOMAIN Years : Len(Years[x]) = Len(Years[y]) /\ Len(Years[x]) > 2

-----------------------------------------------------------------------------
(* Days *)

Nowhere == -1   \* a day after the last one

Months == Len(Years[1])

AllDays ==
    UNION {{<<y, m, d>> : d \in 1..Years[y][m]} : y \in DOMAIN Years, m \in 1..Months}

Earlier(s, t) ==
    \/ s[1] < t[1]
    \/ s[1] = t[1] /\ s[2] < t[2]
    \/ s[1] = t[1] /\ s[2] = t[2] /\ s[3] < t[3]

NumberOf == [t \in AllDays |-> Cardinality({s \in AllDays : Earlier(s, t)})]
LastDay == Cardinality(AllDays) - 1
DayAt == [n \in 0..LastDay |-> CHOOSE t \in AllDays : NumberOf[t] = n]

YearOf(n) == DayAt[n][1]
MonthOf(n) == DayAt[n][2]

Smaller(a, b) == IF a <= b THEN a ELSE b
Larger(a, b) == IF a >= b THEN a ELSE b

(* The day d of a month, or its last one.                                     *)
Clamped(y, m, d) ==
    IF y \in DOMAIN Years THEN NumberOf[<<y, m, Smaller(d, Years[y][m])>>] ELSE Nowhere

-----------------------------------------------------------------------------
(* Zones *)

Local(z, t) == t + (IF t < z.at THEN z.before ELSE z.after)

(* Bound: the clock is changed by a quarter of a day at most, at any hour.    *)
ZoneFits(z) ==
    /\ {z.at, z.before, z.after} \subseteq Int
    /\ 4 * (z.after - z.before) <= Ticks /\ 4 * (z.before - z.after) <= Ticks

(* The instant of a wall time: one that is shown twice is told apart by its   *)
(* fold, a skipped one is read with the offset before (fold 0) or after.      *)
Utc(z, wall, fold) ==
    LET turn == z.at + (IF fold = 0 THEN Larger(z.before, z.after) ELSE Smaller(z.before, z.after))
    IN  wall - (IF wall < turn THEN z.before ELSE z.after)

FoldOf(z, t) == IF t >= z.at /\ Utc(z, Local(z, t), 0) # t THEN 1 ELSE 0

(* _resolve_local_time: a skipped wall time becomes the next one shown.       *)
Resolve(z, wall, fold) ==
    LET candidate == Utc(z, wall, fold)
        forward == {u \in {Utc(z, wall, 0), Utc(z, wall, 1)} : Local(z, u) > wall}
    IN  IF Local(z, candidate) = wall THEN candidate
        ELSE CHOOSE u \in forward : \A v \in forward : Local(z, u) <= Local(z, v)

Midnight(z, day) == Utc(z, day * Ticks, 0)

DateIn(z, t) == Local(z, t) \div Ticks

-----------------------------------------------------------------------------
(* Events: an interval of days, or of instants, that recurs in its own zone   *)

Frequencies == {"none", "daily", "weekly", "monthly", "yearly"}
Endless == -1   \* until_date of an event that goes on

FirstDay(e) == IF e.allDay THEN e.start ELSE DateIn(e.anchor, e.start)
FinalDay(e) == IF e.allDay THEN e.end ELSE DateIn(e.anchor, e.end)

(* Bound: an interval that the calendar has room for.                         *)
EventFits(e) ==
    /\ e.allDay \in BOOLEAN /\ e.freq \in Frequencies /\ ZoneFits(e.anchor)
    /\ {e.start, e.end, e.until} \subseteq Int /\ e.start < e.end
    /\ FirstDay(e) \in 0..LastDay /\ FinalDay(e) <= LastDay

(* EventDraft                                                                 *)
ValidEvent(e) ==
    /\ e.start < e.end
    /\ e.freq = "none" => e.until = Endless
    /\ e.until # Endless => e.until >= FirstDay(e)

(* _shift_date, Nowhere once the calendar has ended                           *)
Shifted(e, n, i) ==
    LET day == DayAt[n]
        month == day[1] * Months + day[2] - 1 + i
        to == CASE e.freq = "daily" -> n + i
                [] e.freq = "weekly" -> n + Week * i
                [] e.freq = "monthly" -> Clamped(month \div Months, (month % Months) + 1, day[3])
                [] e.freq = "yearly" -> Clamped(day[1] + i, day[2], day[3])
    IN  IF to \in 0..LastDay THEN to ELSE Nowhere

(* The occurrence of a timed event on a day: the wall clock of its zone, put  *)
(* into the zone of the reader.                                               *)
Timed(e, day, z) ==
    LET opens == Local(e.anchor, e.start)
        closes == Local(e.anchor, e.end)
        wall == day * Ticks + (opens % Ticks)
        start == Resolve(z, wall, FoldOf(e.anchor, e.start))
        end == Resolve(z, wall + (closes - opens), FoldOf(e.anchor, e.end))
    IN  [start |-> start, end |-> IF end <= start THEN start + (e.end - e.start) ELSE end]

Itself(e) == [start |-> e.start, end |-> e.end]

NoOccurrence == [start |-> Nowhere]

(* occurrence_at                                                              *)
OccurrenceAt(e, i, z) ==
    LET day == Shifted(e, FirstDay(e), i)
        last == day + FinalDay(e) - FirstDay(e)
    IN  IF e.freq = "none" \/ (i = 0 /\ z = e.anchor) THEN Itself(e)
        ELSE IF day = Nowhere \/ last > LastDay THEN NoOccurrence
        ELSE IF e.allDay THEN [start |-> day, end |-> day + (e.end - e.start)]
        ELSE Timed(e, day, z)

(* Mutant: the length of the event is not taken off. *)
MutEarliest(e, from) == from - 1

(* The day from which an occurrence may reach into a window.                  *)
Earliest(e, from) == from - Larger(1, FinalDay(e) - FirstDay(e) + 2)

(* first_candidate_index                                                      *)
FirstCandidate(e, from) ==
    LET early == Earliest(e, from)
        first == FirstDay(e)
        years == YearOf(early) - YearOf(first)
        months == MonthOf(early) - MonthOf(first)
        index == CASE e.freq = "daily" -> early - first
                   [] e.freq = "weekly" -> (early - first) \div Week
                   [] e.freq = "monthly" -> years * Months + months - 1
                   [] e.freq = "yearly" -> years - 1
                   [] OTHER -> 0
    IN  Larger(0, index)

(* Where a window [from, to) of days begins and ends for an event.            *)
Bound(e, z, day) == IF e.allDay THEN day ELSE Midnight(z, day)

Overlaps(e, o, window, z) ==
    o.start < Bound(e, z, window.to) /\ o.end > Bound(e, z, window.from)

(* What ends the loop of add_event at an occurrence.                          *)
Past(e, o, window, z) ==
    \/ o = NoOccurrence
    \/ o.start >= Bound(e, z, window.to)
    \/ e.until # Endless /\ (IF e.allDay THEN o.start ELSE DateIn(z, o.start)) > e.until

(* add_event: the occurrences it lists, by their index                        *)
Expanded(e, window, z) ==
    LET first == FirstCandidate(e, DateIn(z, Midnight(z, window.from)))
        at == [i \in first..(IF e.freq = "none" THEN first ELSE LastDay + 1) |->
                  OccurrenceAt(e, i, z)]
        stops == {i \in DOMAIN at : Past(e, at[i], window, z)}
    IN  [i \in {k \in DOMAIN at : (\A j \in stops : k < j) /\ Overlaps(e, at[k], window, z)} |->
            at[i]]

-----------------------------------------------------------------------------
(* Annual dates: a month and a day of it, which a year may lack               *)

February == 2

Placed(a, y) == a.day <= Years[y][a.month]

YearsOf(window) == YearOf(window.from)..YearOf(window.to)

(* add_annual                                                                 *)
AnnualDays(a, window) ==
    {NumberOf[<<y, a.month, a.day>>] : y \in {x \in YearsOf(window) : Placed(a, x)}}
        \cap window.from..(window.to - 1)

Unplaced(a, window) ==
    \E y \in YearsOf(window) :
        /\ ~Placed(a, y)
        /\ window.from < NumberOf[<<y, February + 1, 1>>]
        /\ window.to > NumberOf[<<y, February, 1>>]

(* CalendarWindowSelection                                                    *)
Following(m) == (m % Months) + 1

MonthsShown(reference, both) ==
    {MonthOf(reference)} \cup (IF both THEN {Following(MonthOf(reference))} ELSE {})

(* Mutant: January of an overview of December is the one that is over. *)
MutYearFor(reference, m) == YearOf(reference)

YearFor(reference, m) ==
    IF MonthOf(reference) = Months /\ m = 1 THEN YearOf(reference) + 1 ELSE YearOf(reference)

-----------------------------------------------------------------------------
(* What the expansion is to be, day by day *)

(* The instant at which z shows a wall time, or would had it not skipped it.  *)
Shows(z, wall, fold) ==
    LET shown == {t \in {wall - z.before, wall - z.after} : Local(z, t) = wall}
    IN  IF shown = {} THEN wall - z.before
        ELSE CHOOSE t \in shown : \A u \in shown : IF fold = 0 THEN t <= u ELSE t >= u

LastOf(n) == Years[YearOf(n)][MonthOf(n)]
SameDay(e, d) == DayAt[d][3] = Smaller(DayAt[FirstDay(e)][3], LastOf(d))

Recurs(e, d) ==
    /\ d >= FirstDay(e) /\ (e.until # Endless => d <= e.until)
    /\ d + FinalDay(e) - FirstDay(e) <= LastDay
    /\ CASE e.freq = "daily" -> TRUE
         [] e.freq = "weekly" -> (d - FirstDay(e)) % Week = 0
         [] e.freq = "monthly" -> SameDay(e, d)
         [] e.freq = "yearly" -> SameDay(e, d) /\ MonthOf(d) = MonthOf(FirstDay(e))

(* The occurrence of e on the day d.                                          *)
OnDay(e, d, z) ==
    LET opens == Local(e.anchor, e.start)
        closes == Local(e.anchor, e.end)
        wall == d * Ticks + opens - FirstDay(e) * Ticks
        start == Shows(z, wall, FoldOf(e.anchor, e.start))
        end == Shows(z, wall + (closes - opens), FoldOf(e.anchor, e.end))
    IN  IF e.allDay THEN [start |-> d, end |-> d + (e.end - e.start)]
        ELSE [start |-> start, end |-> IF end > start THEN end ELSE start + (e.end - e.start)]

(* The recurrence ends with the day d, and the clock of z skips the end of d:  *)
(* the last occurrence would begin on the day after.                          *)
PutOff(e, d, z) ==
    ~e.allDay /\ d = e.until /\ DateIn(z, OnDay(e, d, z).start) # d

Expected(e, window, z) ==
    {o \in (IF e.freq = "none" THEN {Itself(e)}
            ELSE {OnDay(e, d, z) : d \in {n \in 0..LastDay : Recurs(e, n) /\ ~PutOff(e, n, z)}}) :
        Overlaps(e, o, window, z)}
=============================================================================
