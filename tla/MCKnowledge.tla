----------------------------- MODULE MCKnowledge -----------------------------
(* Small instances of the workspace's files and knowledge database, one for   *)
(* each group of operations that meet on the same rows.                       *)
EXTENDS Agenda, TLC

None == [x \in {} |-> x]

Base == [operations |-> {}, resumes |-> {}, contents |-> {}, items |-> {}, requests |-> 3,
         files |-> 0, time |-> 0, faults |-> 0, changes |-> 1, naming |-> BOOLEAN,
         relations |-> <<>>,
         dated |-> {}, tagging |-> {}, tags |-> None, types |-> {}, kinds |-> {}, drafts |-> {}]

(* Managed files: two requests for the photo of one resume, one photo that    *)
(* several resumes share, and media that are uploaded again and deleted.      *)
Managed == [Base EXCEPT !.contents = Contents, !.files = 2, !.time = 2, !.faults = 1]

Photos == [Managed EXCEPT !.operations = {"photo", "save", "discard", "prune"},
                          !.resumes = {CHOOSE r \in Resumes : TRUE}]

Shared == [Managed EXCEPT !.operations = {"photo", "save", "prune"},
                          !.resumes = Resumes, !.contents = {CHOOSE c \in Contents : TRUE},
                          !.requests = 4, !.faults = 0]

Media == [Managed EXCEPT !.operations = {"media", "erase", "prune"}]

(* Three people, of whom two are related, a date and one free name for a tag. *)
p1 == CHOOSE p \in People : TRUE
p2 == CHOOSE p \in People \ {p1} : TRUE
p3 == CHOOSE p \in People \ {p1, p2} : TRUE
d1 == CHOOSE d \in Dates : TRUE
k1 == CHOOSE k \in Types : TRUE
t1 == CHOOSE t \in Tags : TRUE
n1 == CHOOSE n \in Names : TRUE

Kin == <<[from |-> p1, to |-> p2, type |-> k1]>>

(* Files of a person and the photo, while the person is deleted.              *)
Portraits == [Base EXCEPT !.operations = {"attach", "replace", "title", "detach", "remove"},
                          !.items = {p1}, !.files = 3, !.faults = 1]

(* Relations between three people, two changes in one save, which keeps names.*)
Kinship == [Base EXCEPT !.operations = {"person", "remove"}, !.items = People,
                        !.types = {k1}, !.kinds = {k1}, !.relations = Kin,
                        !.requests = 2, !.changes = 2, !.naming = {FALSE}]

(* Relationship types come and go, and every save gives another name.         *)
Kinds == [Base EXCEPT !.operations = {"person", "type", "retype", "untype"},
                      !.items = {p1, p2}, !.types = {k1}, !.kinds = Types,
                      !.naming = {TRUE}]

(* People of a date, which every save gives another name.                     *)
Days == [Base EXCEPT !.operations = {"date", "create", "remove"},
                     !.items = {p1, p2, d1}, !.dated = {<<d1, p1>>}, !.naming = {TRUE}]

(* Pages, references and a person are read while items come and go.           *)
Visits == [Base EXCEPT !.operations = {"list", "show", "create", "remove"},
                       !.items = {p1, p2, d1}, !.types = {k1}, !.relations = Kin,
                       !.dated = {<<d1, p1>>}, !.tags = [t \in {t1} |-> n1],
                       !.tagging = {<<p2, t1>>, <<d1, t1>>}]

(* Tags are made, renamed, given and dropped.                                 *)
Labels == [Base EXCEPT !.operations = {"tag", "rename", "untag", "date"},
                       !.items = {d1}, !.tags = [t \in {t1} |-> n1]]

(* Four years of three months, the second of which has a day more in a leap   *)
(* year; days 0..7, 8..16, 17..24 and 25..32.                                 *)
MCYears == <<<<3, 2, 3>>, <<3, 3, 3>>, <<3, 2, 3>>, <<3, 2, 3>>>>

(* Two birthdays, one of them on the leap day, and a date at the end of a year.*)
MCAnnual == p1 :> [month |-> 2, day |-> 3] @@ p2 :> [month |-> 1, day |-> 1]
                @@ d1 :> [month |-> 3, day |-> 2]

(* A zone that never changes, one that skips the first quarter of day 13, one *)
(* that skips its last, one that shows its third twice, and two that skip the *)
(* third, and show it twice, a week later.                                    *)
Fixed == [before |-> 0, after |-> 0, at |-> 0]
Skips == [before |-> 0, after |-> 1, at |-> 52]
SkipsEnd == [before |-> 0, after |-> 1, at |-> 55]
Repeats == [before |-> 1, after |-> 0, at |-> 54]
SkipsLater == [before |-> 0, after |-> 1, at |-> 66]
RepeatsLater == [before |-> 1, after |-> 0, at |-> 66]
MCZones == {Fixed, Skips, SkipsEnd, Repeats, SkipsLater, RepeatsLater}

AllDay(first, last, freq, until) ==
    [allDay |-> TRUE, start |-> first, end |-> last, freq |-> freq, until |-> until]
Clocked(first, last, freq, until) ==
    [allDay |-> FALSE, start |-> first, end |-> last, freq |-> freq, until |-> until]

MCDrafts ==
    {AllDay(6, 8, "none", Endless), AllDay(6, 9, "daily", 14), AllDay(7, 8, "weekly", Endless),
     AllDay(10, 11, "monthly", Endless), AllDay(13, 14, "yearly", Endless),
     Clocked(28, 29, "daily", Endless), Clocked(31, 36, "daily", 13),
     Clocked(43, 46, "monthly", Endless), Clocked(30, 31, "weekly", 6), Clocked(53, 55, "none", Endless),
     Clocked(52, 53, "daily", Endless), Clocked(53, 55, "weekly", Endless),
     Clocked(54, 57, "weekly", Endless), Clocked(55, 57, "yearly", 13)}

MCWindows ==
    {[from |-> v[1], to |-> v[2]] : v \in {<<8, 9>>, <<13, 14>>, <<9, 14>>, <<14, 22>>, <<12, 25>>, <<28, 32>>}}

MCReferences == {5, 11, 16, 18, 23}

(* Events and the calendar: of every event there may be, and of two requests  *)
(* that meet on one.                                                          *)
Planner == [Base EXCEPT !.operations = {"event", "calendar"}, !.drafts = MCDrafts, !.requests = 1]

Rewrites == [Base EXCEPT !.operations = {"event"}, !.requests = 2,
                         !.drafts = {CHOOSE d \in MCDrafts : d.freq = "weekly" /\ d.allDay}]

Overviews == [Base EXCEPT !.operations = {"calendar", "overview", "remove", "create"},
                          !.items = {p1, p2, d1}, !.dated = {<<d1, p1>>}, !.requests = 2]

MCScenarios ==
    {Photos, Shared, Media, Portraits, Kinship, Kinds, Days, Visits, Labels, Planner, Rewrites, Overviews}
=============================================================================
