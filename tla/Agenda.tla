-------------------------------- MODULE Agenda --------------------------------
(***************************************************************************)
(* Events and the calendar, which shows them next to the birthdays and dates *)
(* of the knowledge database.  An event keeps the account's zone of the      *)
(* request that wrote it; the calendar is shown in the zone the account has  *)
(* when it is asked for.  The day of a date and the birthday of a person are *)
(* constants here.                                                           *)
(***************************************************************************)
EXTENDS Knowledge, Recurrence

CONSTANTS
    Events,      \* bound: ids of events
    Annual,      \* item: its month and day, for the items that have one
    Zones,       \* the time zones an account may have
    HomeZone,    \* its zone at first
    Drafts,      \* bound: the events users write, without their zone
    Windows,     \* bound: the windows [from, to) of days that are asked for
    References   \* bound: the days overviews are asked for

(* A draft, as it is written in a zone.                                       *)
Anchored(draft, z) ==
    [anchor |-> z, allDay |-> draft.allDay, start |-> draft.start, end |-> draft.end,
     freq |-> draft.freq, until |-> draft.until]

(* Bound: an event that the calendar, and every window of it, has room for.   *)
Fits(e) ==
    EventFits(e) /\ FirstDay(e) < LastDay /\ \A v \in Windows : Earliest(e, v.from) >= 0

ASSUME AgendaAssumption ==
    /\ HomeZone \in Zones /\ \A s \in Scenarios : s.drafts \subseteq Drafts
    /\ Dates \subseteq DOMAIN Annual /\ DOMAIN Annual \subseteq Items
    /\ \A i \in DOMAIN Annual :
          /\ Annual[i].month \in 1..Months /\ Annual[i].day \in Nat \ {0}
          /\ \E y \in DOMAIN Years : Placed(Annual[i], y)
          /\ Annual[i].month # February => \A y \in DOMAIN Years : Placed(Annual[i], y)
    /\ \A v \in Windows : {v.from, v.to} \subseteq 3..LastDay /\ v.from < v.to
    /\ References \subseteq 0..LastDay /\ \A r \in References : YearOf(r) < Len(Years)
    /\ \A z \in Zones : ZoneFits(z)
    /\ Drafts \subseteq [allDay : BOOLEAN, start : Int, end : Int, freq : Frequencies, until : Int]
    /\ \A e \in Drafts, z \in Zones : Fits(Anchored(e, z))

VARIABLES
    events,   \* event: its row
    zone      \* the account's time zone, kept by another service

agenda == <<events, zone>>
agendaVars == <<allVars, agenda>>

Unwritten == [freq |-> "unwritten"]
Erased == [freq |-> "erased"]
Written == {e \in Events : events[e].freq \in Frequencies}

-----------------------------------------------------------------------------
(* Events *)

(* Mutant: the interval is shown as it is stored. *)
MutResponse(e) == [e EXCEPT !.anchor = zone]

(* EventResponseSchema: the first occurrence, as the account's zone has it.   *)
Response(e) ==
    LET first == OccurrenceAt(e, 0, zone)
    IN  [e EXCEPT !.start = first.start, !.end = first.end, !.anchor = zone]

(* Bound: the events the calendar has room for where they are shown now.      *)
Resendable == {e \in Written : Fits(Response(events[e]))}

(* The account's zone is read before the transaction of the event begins.     *)
AskEvent(w) ==
    LET drafts == {Anchored(d, zone) : d \in scenario.drafts}
    IN  \E what \in ([op : {"event"}, zone : {zone}, change : {"create"}, row : drafts]
                     \cup [op : {"event"}, zone : {zone}, change : {"update"}, event : Written, row : drafts]
                     \cup {[op |-> "event", zone |-> zone, change |-> "resend", event |-> e,
                            row |-> Response(events[e])] : e \in Resendable}
                     \cup [op : {"event"}, zone : {zone}, change : {"delete"}, event : Written]) :
            Reads(w, "event") /\ Asks(w, what) /\ UNCHANGED agenda

(* create_event, update_event and delete_event, in their transactions         *)
WriteEvent(w) ==
    LET j == asked[w]
    IN  /\ Writes(w, "event")
        /\ CASE j.change = "create" ->
                    /\ ValidEvent(j.row)
                    /\ \E e \in Events :
                          events[e] = Unwritten /\ events' = [events EXCEPT ![e] = j.row]
             [] j.change \in {"update", "resend"} ->
                    /\ ValidEvent(j.row) /\ j.event \in Written
                    /\ events' = [events EXCEPT ![j.event] = j.row]
             [] j.change = "delete" ->
                    j.event \in Written /\ events' = [events EXCEPT ![j.event] = Erased]
        /\ UNCHANGED <<items, knowledge, zone>>

-----------------------------------------------------------------------------
(* The calendar *)

(* The items a calendar of these months shows: dates with their people, and   *)
(* birthdays.                                                                 *)
BirthdaysIn(months) == {p \in items \cap People \cap DOMAIN Annual : Annual[p].month \in months}
DatesIn(months) == {d \in items \cap Dates \cap DOMAIN Annual : Annual[d].month \in months}
Marked(months) == BirthdaysIn(months) \cup DatesIn(months)
Sources(months) ==
    Marked(months) \cup UNION {PeopleOf(d) : d \in DatesIn(months)}

(* get_occurrences                                                            *)
Occurrences(window) ==
    [op |-> "list", page |-> Sources(1..Months), window |-> window, zone |-> zone,
     entries |-> [e \in Written |-> Expanded(events[e], window, zone)],
     annual |-> [i \in Marked(1..Months) |-> AnnualDays(Annual[i], window)],
     unplaced |-> {i \in Marked(1..Months) : Unplaced(Annual[i], window)}]

(* get_calendar: the year of each entry                                       *)
Overview(reference, both) ==
    LET months == MonthsShown(reference, both)
    IN  [op |-> "list", page |-> Sources(months), reference |-> reference, both |-> both,
         years |-> [i \in Marked(months) |-> YearFor(reference, Annual[i].month)]]

(* The names of the items are read last, as for a list: ShowList.             *)
AskCalendar(w) ==
    \E window \in Windows :
        /\ Reads(w, "calendar")
        /\ Asks(w, Occurrences(window))
        /\ UNCHANGED agenda

AskOverview(w) ==
    \E reference \in References, both \in BOOLEAN :
        Reads(w, "overview") /\ Asks(w, Overview(reference, both)) /\ UNCHANGED agenda

(* External: the user moves the account to another zone; only requests still  *)
(* to come would see it.                                                      *)
ChangeZone ==
    /\ scenario.drafts # {} /\ left > 0
    /\ zone' \in Zones \ {zone}
    /\ UNCHANGED <<allVars, events>>

-----------------------------------------------------------------------------
AgendaInit ==
    /\ KnowledgeInit
    /\ LET Possible == {Anchored(d, z) : z \in Zones, d \in scenario.drafts}
       IN  events \in [Events -> {Unwritten} \cup {e \in Possible : ValidEvent(e)}]
    /\ zone = HomeZone

AgendaNext ==
    \/ KnowledgeNext /\ UNCHANGED agenda
    \/ \E w \in Jobs : AskEvent(w) \/ WriteEvent(w) \/ AskCalendar(w) \/ AskOverview(w)
    \/ ChangeZone

AgendaSpec == AgendaInit /\ [][AgendaNext]_agendaVars /\ KnowledgeFairness

-----------------------------------------------------------------------------
(* Properties *)

AgendaTypeOK ==
    /\ KnowledgeTypeOK
    /\ zone \in Zones
    /\ \A e \in Events : events[e] \in {Unwritten, Erased} \/ ValidEvent(events[e])

Calendars == {w \in fresh : asked[w].op = "list" /\ "window" \in DOMAIN asked[w]}

(* A calendar lists every occurrence that reaches into its window, once, and  *)
(* no other, although it starts its search at an index computed from the      *)
(* event and ends it at the first occurrence past the window: whatever the    *)
(* frequency, months too short for the day, wall times the reader's zone      *)
(* skips or repeats, the last day of the recurrence and of the calendar.  But *)
(* the occurrence of the recurrence's last day is left out where the reader's *)
(* zone skips its time at the end of that day, and the next is a day later.   *)
(* An annual date is listed on its days, or as unplaced when the window shows *)
(* a February without it.                                                     *)
AgendaComplete ==
    \A w \in Calendars :
        LET j == asked[w]
            days == j.window.from..(j.window.to - 1)
            DaysOf(a) == {n \in days : MonthOf(n) = a.month /\ DayAt[n][3] = a.day}
            Lacks(a) == {n \in days : MonthOf(n) = a.month /\ a.day > LastOf(n)}
        IN  /\ \A e \in Written :
                  LET expected == Expected(events[e], j.window, j.zone)
                  IN  /\ Range(j.entries[e]) = expected
                      /\ Cardinality(DOMAIN j.entries[e]) = Cardinality(expected)
            /\ \A i \in items \cap DOMAIN Annual :
                  /\ j.annual[i] = DaysOf(Annual[i])
                  /\ i \in j.unplaced <=> Lacks(Annual[i]) # {}

(* The overview of a month, or of it and the next, agrees with the calendar   *)
(* of the same days: each of its entries is listed there in the year the      *)
(* overview gives it, or as unplaced, and nothing else is.                    *)
CalendarsAgree ==
    \A w \in fresh : asked[w].op = "list" /\ "reference" \in DOMAIN asked[w] =>
        LET j == asked[w]
            first == NumberOf[<<YearOf(j.reference), MonthOf(j.reference), 1>>]
            shown == LastOf(first)
            length == IF j.both /\ first + shown <= LastDay THEN shown + LastOf(first + shown) ELSE shown
            window == [from |-> first, to |-> first + length]
        IN  \A i \in items \cap DOMAIN Annual :
                LET day == AnnualDays(Annual[i], window)
                IN  IF i \in DOMAIN j.years
                    THEN /\ \A n \in day : YearOf(n) = j.years[i]
                         /\ day = {} <=> Unplaced(Annual[i], window)
                    ELSE day = {} /\ ~Unplaced(Annual[i], window)

(* The reader's zone has the clock of e's first occurrence: the same wall     *)
(* times, told from their repetitions alike, and as far apart.                *)
ClockShown(e, z) ==
    LET first == OccurrenceAt(e, 0, z)
        Clock(v, t) == <<Local(v, t), FoldOf(v, t)>>
    IN  e.allDay \/ e.freq = "none"
        \/ /\ Clock(z, first.start) = Clock(e.anchor, e.start)
           /\ Clock(z, first.end) = Clock(e.anchor, e.end)
           /\ first.end - first.start = e.end - e.start

(* Saving an event as it is shown leaves the calendar as it is, although its  *)
(* anchor becomes the zone the account has now, whatever zone it was written  *)
(* in; unless that zone does not have the clock of the first occurrence, or   *)
(* has it once where the other had it twice, which the save then gives to all *)
(* the others.  It is refused only if the first occurrence is the last as     *)
(* well, and that zone puts it off past the end of the recurrence.            *)
ResendKeepsAgenda ==
    \A w \in fresh : asked[w].op = "event" /\ asked[w].change = "resend" =>
        LET j == asked[w]
            e == events[j.event]
        IN  /\ ValidEvent(j.row) \/ PutOff(e, FirstDay(e), j.zone)
            /\ ClockShown(e, j.zone) =>
                  \A v \in Windows :
                      Range(Expanded(j.row, v, j.zone)) = Range(Expanded(e, v, j.zone))
=============================================================================
