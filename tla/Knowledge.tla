------------------------------- MODULE Knowledge -------------------------------
(***************************************************************************)
(* The knowledge database: people and memorable dates with their tags, the  *)
(* typed relations between people, the people of a date and the files of     *)
(* both, whose steps are those of WorkspaceFiles.                            *)
(*                                                                           *)
(* A request reads what it needs in several statements without locks, checks *)
(* it, and then writes in one transaction.  The first write is an update of  *)
(* its own row and every other one meets a foreign key, a unique index or a  *)
(* row lock of whoever it collides with, so the writes are one step; what    *)
(* was read may be out of date by then.  An item and its details are one row *)
(* each and come and go together.  Contacts, birthdays, descriptions and     *)
(* notes are left out, and a name, which others show, is the moment at which *)
(* it was given; tags are told apart by theirs.                              *)
(***************************************************************************)
EXTENDS WorkspaceFiles

CONSTANTS
    Dates,   \* the items that are memorable dates
    Types,   \* relationship types
    Tags,
    Names    \* of tags, as lower() compares them

(* Tables in which nothing refers to what is gone and nothing is tied twice:  *)
(* items I, relations R, people of dates D, tagging G, tags T and types K.    *)
Sound(I, R, D, G, T, K) ==
    /\ \A r, s \in DOMAIN R :
          r # s => \/ R[r].type # R[s].type
                   \/ {R[r].from, R[r].to} # {R[s].from, R[s].to}
    /\ \A r \in DOMAIN R :
          {R[r].from, R[r].to} \subseteq I /\ R[r].from # R[r].to /\ R[r].type \in K
    /\ \A pair \in D : {pair[1], pair[2]} \subseteq I
    /\ \A pair \in G : pair[1] \in I /\ pair[2] \in DOMAIN T
    /\ \A t, u \in DOMAIN T : T[t] = T[u] => t = u

ASSUME KnowledgeAssumption ==
    /\ Items = People \cup Dates /\ People \cap Dates = {}
    /\ \A s \in Scenarios :
          /\ s.changes \in Nat /\ s.naming \subseteq BOOLEAN
          /\ s.relations \in Seq([from : People, to : People, type : Types])
          /\ s.dated \subseteq Dates \X People /\ s.tagging \subseteq Items \X Tags
          /\ s.tags \in [DOMAIN s.tags -> Names] /\ DOMAIN s.tags \subseteq Tags
          /\ s.types \subseteq Types
          /\ Sound(s.items, s.relations, s.dated, s.tagging, s.tags, s.types)

ASSUME NamesAssumption == Names \cap {Absent, Gone} = {}

VARIABLES
    relations,  \* id: a relation of one person to another
    tied,       \* relations created so far; also the id of the last one
    dated,      \* pairs of a date and a person
    tagging,    \* pairs of an item and a tag
    tags,       \* tag: its name
    types,      \* relationship types that exist
    typed,      \* relationship types created so far
    symmetric,  \* types whose relations read the same from both people
    renamed,    \* file: when it was given its name, if not the one it came with
    named,      \* item: when it was given its name, or a date its day; 0: as it came
    touched,    \* item: its updated_at, counted in requests
    asked,      \* job: what its request was given and has read
    fresh       \* jobs whose request no commit has overtaken since it read

knowledge == <<relations, tied, dated, tagging, tags, types, typed, symmetric, renamed, named, touched>>
requests == <<asked, fresh>>
allVars == <<vars, knowledge, requests>>

Files == <<created, rows, objects, photo, links, history>>

-----------------------------------------------------------------------------
(* Requests.  The moment one began is the `now` it writes.                    *)
Moment == scenario.requests - left

Nothing == [op |-> "none"]

Asks(w, what) ==
    asked' = [asked EXCEPT ![w] = what] /\ fresh' = fresh \cup {w}

(* A step that commits nothing in the knowledge database.                     *)
Quietly(w) ==
    /\ IF job'[w].op \in {"idle", "clean"}
       THEN asked' = [asked EXCEPT ![w] = Nothing] /\ fresh' = fresh \ {w}
       ELSE UNCHANGED requests
    /\ UNCHANGED knowledge

(* A commit overtakes every request in progress.                              *)
Overtakes(w) == asked' = [asked EXCEPT ![w] = Nothing] /\ fresh' = {}

(* touch_items: an update of the rows that are there.                         *)
Touched(S, now) == [i \in Items |-> IF i \in S \cap items THEN now ELSE touched[i]]

Reads(w, op) ==
    /\ Request(w, op)
    /\ Becomes(w, [op |-> "other", phase |-> "commit", locks |-> {}])
    /\ UNCHANGED <<Files, items, knowledge>>

Writes(w, op) ==
    /\ In(w, {"other"}, "commit") /\ asked[w].op = op
    /\ Ends(w) /\ Overtakes(w)
    /\ Later /\ UNCHANGED Files

-----------------------------------------------------------------------------
(* Relations between people *)

Involves(relation, p) == p \in {relation.from, relation.to}
Other(relation, p) == IF relation.from = p THEN relation.to ELSE relation.from

RelationsOf(p) == {r \in DOMAIN relations : Involves(relations[r], p)}
DatesOf(p) == {d \in Dates : <<d, p>> \in dated}
PeopleOf(d) == {p \in People : <<d, p>> \in dated}

(* Mutant: the index is on source and target as they are stored. *)
MutPair(relation) == <<relation.from, relation.to, relation.type>>

(* person_relationships_author_pair_type_uniq: the direction does not count.  *)
Pair(relation) == <<{relation.from, relation.to}, relation.type>>

PairsUnique(R) == \A r, s \in DOMAIN R : Pair(R[r]) = Pair(R[s]) => r = s

(* What a person's form says of a relation, as its row.                       *)
Directed(p, change) ==
    IF change.forward THEN [from |-> p, to |-> change.other, type |-> change.type]
                      ELSE [from |-> change.other, to |-> p, type |-> change.type]

(* The changes a form may ask for, whatever there is.                         *)
Changes(op) ==
    LET ids == IF op = "create" THEN {0} ELSE DOMAIN relations
    IN  IF op = "delete" THEN [op : {op}, id : ids]
        ELSE [op : {op}, id : ids, other : People, type : scenario.kinds, forward : BOOLEAN]

Of(form, op) == {c \in form : c.op = op}
Named(form) == Of(form, "create") \cup Of(form, "update")
Mutated(form) == {c.id : c \in Of(form, "update") \cup Of(form, "delete")}

(* Mutant: the types of the changes are not looked up. *)
MutValid(p, c) ==
    /\ c.op \in {"update", "delete"} => c.id \in RelationsOf(p)
    /\ c.op \in {"create", "update"} => c.other \in (items \cap People) \ {p}

(* validate_relationship_changes, of each change                              *)
Valid(p, c) ==
    /\ c.op \in {"update", "delete"} => c.id \in RelationsOf(p)
    /\ c.op \in {"create", "update"} =>
          c.other \in (items \cap People) \ {p} /\ c.type \in types

AtMostOne(op, p) == {{}} \cup {{c} : c \in {x \in Changes(op) : Valid(p, x)}}

(* The forms that pass, with one change of each kind at most.                 *)
Forms(p) ==
    {form \in {c \cup u \cup d : c \in AtMostOne("create", p), u \in AtMostOne("update", p),
                              d \in AtMostOne("delete", p)} :
        /\ Cardinality(form) <= scenario.changes
        /\ \A c, d \in Named(form) : Pair(Directed(p, c)) = Pair(Directed(p, d)) => c = d}

(* Mutant: the people a changed relation used to lead to are not kept. *)
MutNeighbours(p, form) == {}

(* The people at the other ends of the relations that will change.            *)
Neighbours(p, form) == {Other(relations[r], p) : r \in Mutated(form)}

TagsPresent == {t \in Tags : tags[t] \in Names}

(* The name a form gives: a new one, or the one the item has.                 *)
Given(i, another) == IF another THEN Moment' ELSE named[i]

(* update_person up to its first write; unknown tags are refused by then.     *)
StartPerson(w) ==
    /\ Reads(w, "person")
    /\ \E p \in items \cap People, labels \in SUBSET TagsPresent :
       \E form \in Forms(p), another \in scenario.naming :
          Asks(w, [op |-> "person", now |-> Moment', item |-> p, name |-> Given(p, another),
                   labels |-> labels, form |-> form, near |-> Neighbours(p, form)])

(* create_relationships                                                       *)
WithCreated(j) ==
    [r \in DOMAIN relations \cup {tied + 1 : c \in Of(j.form, "create")} |->
        IF r \in DOMAIN relations THEN relations[r]
        ELSE Directed(j.item, CHOOSE c \in Of(j.form, "create") : TRUE)]

(* update_relationships: a row that is no longer this person's is passed over.*)
WithUpdated(j) ==
    LET R == WithCreated(j)
        Asked(r) == {u \in Of(j.form, "update") : u.id = r /\ Involves(R[r], j.item)}
    IN  [r \in DOMAIN R |->
            IF Asked(r) = {} THEN R[r] ELSE Directed(j.item, CHOOSE u \in Asked(r) : TRUE)]

(* The unique index and the foreign keys are checked after each statement, so *)
(* a relation to be deleted is in the way of the one that is to replace it.   *)
PersonConflicts(j) ==
    \/ ~PairsUnique(WithCreated(j)) \/ ~PairsUnique(WithUpdated(j))
    \/ \E r \in DOMAIN WithUpdated(j) :
          ~({WithUpdated(j)[r].from, WithUpdated(j)[r].to} \subseteq items)

(* replace_item_tags                                                          *)
Retagged(j) ==
    {pair \in tagging : pair[1] # j.item} \cup {<<j.item, t>> : t \in j.labels}

(* update_item: the tags are looked up again and the row must be there.       *)
UpdatesItem(w, op) ==
    /\ Writes(w, op)
    /\ asked[w].item \in items /\ asked[w].labels \subseteq TagsPresent
    /\ tagging' = Retagged(asked[w])
    /\ named' = [named EXCEPT ![asked[w].item] = asked[w].name]

(* delete_relationships: of what is left of them.                             *)
WithDeleted(j) == Without(WithUpdated(j), {c.id : c \in Of(j.form, "delete")})

SavePerson(w) ==
    LET j == asked[w]
    IN  /\ UpdatesItem(w, "person")
        /\ {c.type : c \in Named(j.form)} \subseteq types
        /\ ~PersonConflicts(j)
        /\ relations' = WithDeleted(j)
        /\ tied' = tied + Cardinality(Of(j.form, "create"))
        /\ touched' = Touched({j.item} \cup {c.other : c \in Named(j.form)} \cup j.near, j.now)
        /\ UNCHANGED <<items, dated, tags, types, typed, symmetric, renamed>>

-----------------------------------------------------------------------------
(* Memorable dates *)

StartDate(w) ==
    \E d \in items \cap Dates, labels \in SUBSET TagsPresent :
    \E people \in SUBSET (items \cap People), another \in scenario.naming :
        /\ Reads(w, "date")
        /\ Asks(w, [op |-> "date", now |-> Moment', item |-> d, name |-> Given(d, another),
                    labels |-> labels, people |-> people, near |-> PeopleOf(d)])

(* replace_person_links                                                       *)
Relinked(j) ==
    {pair \in dated : pair[1] # j.item} \cup {<<j.item, p>> : p \in j.people}

SaveDate(w) ==
    LET j == asked[w]
    IN  /\ UpdatesItem(w, "date")
        /\ j.people \subseteq items
        /\ dated' = Relinked(j)
        /\ touched' = Touched({j.item} \cup j.near \cup j.people, j.now)
        /\ UNCHANGED <<items, relations, tied, tags, types, typed, symmetric, renamed>>

-----------------------------------------------------------------------------
(* Any item *)

(* create_item                                                                *)
NewItem(w, kind) ==
    /\ Request(w, "create")
    /\ \E i \in kind :
          /\ touched[i] = Absent
          /\ items' = items \cup {i} /\ touched' = [touched EXCEPT ![i] = Moment']
    /\ Overtakes(w)
    /\ UNCHANGED <<Files, job, relations, tied, dated, tagging, tags, types, typed, symmetric, renamed, named>>

(* Nothing else is read for a new item.                                       *)
CreatePerson(w) == NewItem(w, People)

CreateDate(w) == NewItem(w, Dates)

(* The items that show the one to be deleted are read with its files.         *)
StartDelete(w, i, around) ==
    /\ StartRemove(w, i)
    /\ Asks(w, [op |-> "remove", now |-> Moment', item |-> i, near |-> around,
                files |-> FilesOf(i)])
    /\ UNCHANGED knowledge

Relatives(p) == {Other(relations[r], p) : r \in RelationsOf(p)}

DeletePerson(w) == \E p \in People : StartDelete(w, p, Relatives(p) \cup DatesOf(p))

DeleteDate(w) == \E d \in Dates : StartDelete(w, d, PeopleOf(d))

(* What the deletion of an item leaves, by the foreign keys that cascade.     *)
RelationsWithout(i) == Without(relations, RelationsOf(i))

DatedWithout(i) == {pair \in dated : i \notin {pair[1], pair[2]}}

TaggingWithout(i) == {pair \in tagging : pair[1] # i}

(* delete_item, and touch_items of those around it                            *)
Delete(w) ==
    LET i == job[w].item
    IN  /\ CommitRemove(w) /\ Overtakes(w)
        /\ relations' = RelationsWithout(i)
        /\ dated' = DatedWithout(i) /\ tagging' = TaggingWithout(i)
        /\ touched' = [Touched(asked[w].near, asked[w].now) EXCEPT ![i] = Gone]
        /\ UNCHANGED <<tied, tags, types, typed, symmetric, renamed, named>>

-----------------------------------------------------------------------------
(* Reading: what is found first names what is read next, and a request fails  *)
(* when some of that has gone in between.                                     *)

(* The items that have every tag of a filter.                                 *)
WithTags(labels) == {i \in items : \A t \in labels : <<i, t>> \in tagging}

PersonPage(labels) == WithTags(labels) \cap People

(* Of one person, if the filter says so.                                      *)
DatePage(labels, about) ==
    {d \in WithTags(labels) \cap Dates : about \subseteq PeopleOf(d)}

(* list_people: the page is chosen first and filled in later.                 *)
StartPeople(w) ==
    \E labels \in SUBSET TagsPresent :
        Reads(w, "list") /\ Asks(w, [op |-> "list", page |-> PersonPage(labels)])

(* list_date_references_for_person                                            *)
StartReferences(w) ==
    \E p \in items \cap People :
        Reads(w, "list") /\ Asks(w, [op |-> "list", page |-> DatesOf(p)])

(* list_dates: its page, and then the people of the page.                     *)
StartDates(w) ==
    \E labels \in SUBSET TagsPresent :
    \E about \in {{}} \cup {{p} : p \in items \cap People} :
        Reads(w, "list") /\ Asks(w, [op |-> "dates", page |-> DatePage(labels, about)])

(* A part of the answer is there, and the rows it leads to are found.         *)
Continues(w, op, page) ==
    /\ In(w, {"other"}, "commit") /\ asked[w].op = op
    /\ asked[w].page \subseteq items
    /\ asked' = [asked EXCEPT ![w] = [op |-> "list", page |-> page]]
    /\ Later /\ UNCHANGED <<Files, items, job, knowledge, fresh>>

FillDates(w) ==
    Continues(w, "dates", UNION {PeopleOf(d) : d \in asked[w].page})

(* get_person: its relatives, and then its dates.                             *)
StartShow(w) ==
    \E p \in items \cap People :
        /\ Reads(w, "show")
        /\ Asks(w, [op |-> "relatives", item |-> p,
                    page |-> Relatives(p)])

(* list_related_dates                                                         *)
FillPerson(w) == Continues(w, "relatives", DatesOf(asked[w].item))

ShowList(w) ==
    /\ In(w, {"other"}, "commit") /\ asked[w].op = "list"
    /\ asked[w].page \subseteq items
    /\ Ends(w) /\ Quietly(w)
    /\ Later /\ UNCHANGED <<Files, items>>

-----------------------------------------------------------------------------
(* Tags and relationship types *)

Bearers(name) == {t \in Tags : tags[t] = name}

(* create_tag                                                                 *)
StartTag(w) ==
    \E name \in Names :
        /\ Bearers(name) = {} /\ \E t \in Tags : tags[t] = Absent
        /\ Reads(w, "tag") /\ Asks(w, [op |-> "tag", name |-> name])

AddTag(w) ==
    /\ Writes(w, "tag")
    /\ Bearers(asked[w].name) = {}
    /\ \E t \in Tags : tags[t] = Absent /\ tags' = [tags EXCEPT ![t] = asked[w].name]
    /\ UNCHANGED <<items, relations, tied, dated, tagging, types, typed, symmetric, renamed, named, touched>>

(* update_tag                                                                 *)
StartRename(w) ==
    \E t \in TagsPresent, name \in Names :
        /\ Bearers(name) \subseteq {t}
        /\ Reads(w, "rename") /\ Asks(w, [op |-> "rename", tag |-> t, name |-> name])

Rename(w) ==
    LET j == asked[w]
    IN  /\ Writes(w, "rename")
        /\ j.tag \in TagsPresent /\ Bearers(j.name) \subseteq {j.tag}
        /\ tags' = [tags EXCEPT ![j.tag] = j.name]
        /\ UNCHANGED <<items, relations, tied, dated, tagging, types, typed, symmetric, renamed, named, touched>>

TagUsed(t) == \E pair \in tagging : pair[2] = t
TypeUsed(k) == \E r \in DOMAIN relations : relations[r].type = k

(* delete_tag                                                                 *)
StartUntag(w) ==
    \E t \in TagsPresent : ~TagUsed(t) /\ Reads(w, "untag") /\ Asks(w, [op |-> "untag", tag |-> t])

Untag(w) ==
    /\ Writes(w, "untag")
    /\ asked[w].tag \in TagsPresent /\ ~TagUsed(asked[w].tag)
    /\ tags' = [tags EXCEPT ![asked[w].tag] = Gone]
    /\ UNCHANGED <<items, relations, tied, dated, tagging, types, typed, symmetric, renamed, named, touched>>

(* create_relationship_type: their names need not differ.                     *)
CreateType(w) ==
    /\ Request(w, "type")
    /\ \E k \in Types \ typed :
          /\ types' = types \cup {k} /\ typed' = typed \cup {k}
          /\ symmetric' \in {symmetric, symmetric \cup {k}}
    /\ Overtakes(w)
    /\ UNCHANGED <<Files, items, job, relations, tied, dated, tagging, tags, renamed, named, touched>>

(* update_relationship_type: the people who are related by it are not touched.*)
StartRetype(w) ==
    \E k \in types, same \in BOOLEAN :
        Reads(w, "retype") /\ Asks(w, [op |-> "retype", type |-> k, same |-> same])

Retype(w) ==
    LET j == asked[w]
    IN  /\ Writes(w, "retype")
        /\ j.type \in types
        /\ symmetric' = IF j.same THEN symmetric \cup {j.type} ELSE symmetric \ {j.type}
        /\ UNCHANGED <<items, relations, tied, dated, tagging, tags, types, typed, renamed, named, touched>>

(* delete_relationship_type                                                   *)
StartUntype(w) ==
    \E k \in types : ~TypeUsed(k) /\ Reads(w, "untype") /\ Asks(w, [op |-> "untype", type |-> k])

Untype(w) ==
    /\ Writes(w, "untype")
    /\ asked[w].type \in types /\ ~TypeUsed(asked[w].type)
    /\ types' = types \ {asked[w].type} /\ symmetric' = symmetric \ {asked[w].type}
    /\ UNCHANGED <<items, relations, tied, dated, tagging, tags, typed, renamed, named, touched>>

-----------------------------------------------------------------------------
(* The steps of files, and what they do to updated_at *)

StartFile(w) ==
    \/ Starts(w) /\ Quietly(w)
    \/ /\ Attach(w) \/ StartReplace(w)
       /\ Asks(w, [op |-> "file", now |-> Moment']) /\ UNCHANGED knowledge

Prunes(w) == StartPrune(w) /\ Quietly(w)

(* The item is touched at the end of the transaction.                         *)
Attached(w) ==
    /\ Overtakes(w)
    /\ touched' = Touched({job[w].item}, asked[w].now)
    /\ UNCHANGED <<relations, tied, dated, tagging, tags, types, typed, symmetric, renamed, named>>

Detached(w) ==
    /\ Detach(w) /\ Overtakes(w)
    /\ touched' = Touched({links[f].item : f \in job'[w].doomed}, Moment')
    /\ UNCHANGED <<relations, tied, dated, tagging, tags, types, typed, symmetric, renamed, named>>

(* rename_attachment                                                          *)
StartTitle(w) ==
    \E f \in DOMAIN links :
        /\ links[f].kind = "file"
        /\ Reads(w, "title")
        /\ Asks(w, [op |-> "title", now |-> Moment', file |-> f, item |-> links[f].item])

(* update_file_name                                                           *)
Retitled(f, now) == WithRow(renamed, f, now)

(* The row is the one that its link still leads to.                           *)
Title(w) ==
    LET j == asked[w]
    IN  /\ Writes(w, "title")
        /\ j.file \in DOMAIN links /\ ~Locked(j.file)
        /\ renamed' = Retitled(j.file, j.now)
        /\ touched' = Touched({j.item}, j.now)
        /\ UNCHANGED <<items, relations, tied, dated, tagging, tags, types, typed, symmetric, named>>

-----------------------------------------------------------------------------
KnowledgeInit ==
    /\ Init
    /\ relations = scenario.relations /\ tied = Len(relations)
    /\ dated = scenario.dated /\ tagging = scenario.tagging
    /\ tags = [t \in Tags |-> IF t \in DOMAIN scenario.tags THEN scenario.tags[t] ELSE Absent]
    /\ types = scenario.types /\ typed = types /\ symmetric = {}
    /\ renamed = [f \in {} |-> 0] /\ named = [i \in Items |-> 0]
    /\ touched = [i \in Items |-> IF i \in items THEN 0 ELSE Absent]
    /\ asked = [w \in Jobs |-> Nothing] /\ fresh = {}

Serves(w) ==
    \/ SavePerson(w) \/ SaveDate(w) \/ Delete(w)
    \/ FillDates(w) \/ FillPerson(w) \/ ShowList(w)
    \/ AddTag(w) \/ Rename(w) \/ Untag(w) \/ Retype(w) \/ Untype(w) \/ Title(w)

KnowledgeStarts(w) ==
    \/ StartPerson(w) \/ StartDate(w) \/ CreatePerson(w) \/ CreateDate(w)
    \/ DeletePerson(w) \/ DeleteDate(w)
    \/ StartPeople(w) \/ StartReferences(w) \/ StartDates(w) \/ StartShow(w)
    \/ StartTag(w) \/ StartRename(w) \/ StartUntag(w)
    \/ CreateType(w) \/ StartRetype(w) \/ StartUntype(w) \/ StartTitle(w)

Advances(w) ==
    \/ Works(w) /\ Quietly(w)
    \/ CommitAttach(w) /\ Attached(w)
    \/ Serves(w)

KnowledgeNext ==
    \/ Tick /\ UNCHANGED <<knowledge, requests>>
    \/ (\E r \in Resumes : CreateResume(r)) /\ UNCHANGED <<knowledge, requests>>
    \/ \E w \in Jobs :
          \/ StartFile(w) \/ Detached(w) \/ Prunes(w) \/ KnowledgeStarts(w)
          \/ Advances(w)
          \/ Breaks(w) /\ Quietly(w)
          \/ CommitUnanswered(w) /\ Attached(w)

(* Requests end, by their own steps or by a rollback, and the schedule starts *)
(* prune runs again and again; nothing makes users come or S3 fail.           *)
KnowledgeFairness ==
    /\ \A w \in Jobs : WF_allVars(Advances(w))
    /\ WF_allVars(\E w \in Jobs : Prunes(w))

KnowledgeSpec == KnowledgeInit /\ [][KnowledgeNext]_allVars /\ KnowledgeFairness

-----------------------------------------------------------------------------
(* Properties *)

(* The tables of the knowledge database hold what they can hold, and a        *)
(* request is known while it is in progress.                                  *)
KnowledgeTypeOK ==
    /\ TypeOK
    /\ DOMAIN relations \subseteq 1..tied
    /\ \A r \in DOMAIN relations :
          relations[r] \in [from : People, to : People, type : Types]
    /\ dated \subseteq Dates \X People /\ tagging \subseteq Items \X Tags
    /\ tags \in [Tags -> Names \cup {Absent, Gone}]
    /\ types \subseteq typed /\ typed \subseteq Types /\ symmetric \subseteq types
    /\ DOMAIN renamed \subseteq 1..created /\ \A f \in DOMAIN renamed : renamed[f] \in 1..Moment
    /\ named \in [Items -> 0..Moment] /\ touched \in [Items -> {Absent, Gone} \cup 0..Moment]
    /\ items = {i \in Items : touched[i] >= 0}
    /\ \A w \in Jobs : asked[w].op # "none" => job[w] # Idle
    /\ fresh \subseteq {w \in Jobs : asked[w].op # "none"}

(* Nothing refers to what is gone and nothing is tied twice: a relation is of *)
(* an existing type between two existing people, who are related by a type    *)
(* once whichever of them it starts from; tags and people of dates exist; no  *)
(* two tags share a name.  Every check of this is made before the write and   *)
(* out of date by then.                                                       *)
LinksSound ==
    Sound(items, relations, dated, tagging, [t \in TagsPresent |-> tags[t]], types)

(* What a request finds that its answers have no place for: a constraint that *)
(* fails it, a row that is missing.                                           *)
Refused(j) ==
    \/ j.op \in {"person", "date"} /\ ~(j.item \in items /\ j.labels \subseteq TagsPresent)
    \/ j.op = "person" /\ \E c \in Named(j.form) : c.type \notin types \/ c.other \notin items
    \/ j.op = "date" /\ ~(j.people \subseteq items)
    \/ j.op = "remove" /\ ~(j.item \in items /\ FilesOf(j.item) = j.files)
    \/ j.op \in {"list", "dates", "relatives"} /\ ~(j.page \subseteq items)
    \/ j.op = "title" /\ j.file \notin DOMAIN links
    \/ j.op \in {"rename", "untag"} /\ j.tag \notin TagsPresent
    \/ j.op = "untag" /\ TagUsed(j.tag)
    \/ j.op \in {"retype", "untype"} /\ j.type \notin types
    \/ j.op = "untype" /\ TypeUsed(j.type)

(* The checks before the writes are complete: a request that no other commit  *)
(* has overtaken since them is served, or told of a conflict if two people    *)
(* are related already, but never ends on a constraint.                       *)
LoneRequestServed == \A w \in fresh : ~Refused(asked[w])

(* How a relation reads for one of its people.                                *)
Label(relation, p) ==
    IF relation.type \in symmetric \/ relation.from = p THEN "forward" ELSE "reverse"

FileView(i) ==
    {<<f, IF f \in DOMAIN renamed THEN renamed[f] ELSE 0>> : f \in FilesOf(i)}

(* The relations of a person, and its dates with the name and day of each.    *)
PersonTies(p) ==
    <<{<<r, relations[r]>> : r \in RelationsOf(p)}, {<<d, named[d]>> : d \in DatesOf(p)}>>

(* What an item is and what it is tied to: its name, the items around it, its *)
(* tags and files.                                                            *)
Ties(i) ==
    <<named[i], IF i \in People THEN PersonTies(i) ELSE PeopleOf(i),
      {pair \in tagging : pair[1] = i}, FileView(i)>>

(* The people an item shows by name: relatives, or those of a date.           *)
Companions(i) == IF i \in People THEN Relatives(i) ELSE PeopleOf(i)

(* The names it shows of people, relations and tags.                          *)
NamesShown(i) ==
    <<{<<p, named[p]>> : p \in Companions(i)},
      IF i \in People THEN {<<r, Label(relations[r], i)>> : r \in RelationsOf(i)} ELSE {},
      {<<pair[2], tags[pair[2]]>> : pair \in {x \in tagging : x[1] = i}}>>

(* get_person, get_date: what a reader of an item sees.                       *)
View(i) == <<Ties(i), NamesShown(i)>>

(* A step after which an item shows another name of what it is tied to, and   *)
(* nothing else: of a tag, a relationship type, or a person who bears the     *)
(* moment.                                                                    *)
OnlyNames(w, i) ==
    /\ Ties(i)' = Ties(i)
    /\ \/ asked[w].op \in {"rename", "retype"}
       \/ \E p \in Companions(i) : named'[p] # named[p] /\ touched'[p] = asked[w].now

(* Lists by latest change are right: whenever what an item shows changes, by  *)
(* a save of its own, of a person related to it, of a date it belongs to, by  *)
(* a deletion, a file or its new name, it bears the moment of that request.   *)
(* A date that gets another name or day touches its people, but a person who  *)
(* gets another name touches neither relatives nor dates, and a tag or a type *)
(* that does touches nothing: what shows them keeps its place.  And a request *)
(* that another commit overtook between its reads and its writes is apart.    *)
TouchedWhenChanged ==
    [][\A w \in Jobs :
          job'[w] # job[w] =>
              LET now == IF job[w] = Idle THEN Moment' ELSE asked[w].now
                  alone == job[w] = Idle \/ w \in fresh
              IN  \A i \in items \cap items' :
                      (alone /\ View(i)' # View(i)) =>
                          (OnlyNames(w, i) \/ touched'[i] = now)]_allVars
=============================================================================
