---------------------------- MODULE KnowledgeProofs ----------------------------
(***************************************************************************)
(* Proofs about the knowledge database, for every number of requests at once *)
(* and whatever the tables hold to begin with; first by itself, and then as  *)
(* every step of the workspace uses it, those of files, events and the       *)
(* calendar among them: what its tables hold, what requests have read of     *)
(* them, and what an item shows next to its updated_at. Then about the       *)
(* calendar itself: its days and months, the occurrences of a repeating      *)
(* event, and what the two overviews made of them say to each other and to   *)
(* the recurrence rule.                                                      *)
(***************************************************************************)
EXTENDS WorkspaceFilesProofs, FiniteSetTheorems, WellFoundedInduction

-----------------------------------------------------------------------------
(* Steps of files that leave items and links alone: all but the commit of an  *)
(* attachment, and of a deletion, which the knowledge database counts as its  *)
(* own.                                                                       *)

LEMMA StartsLeaveLinks ==
    ASSUME NEW w \in Jobs, Starts(w) \/ Attach(w) \/ StartReplace(w) \/ StartPrune(w)
    PROVE  items' = items /\ links' = links
<1>1. CASE StartMedia(w) \/ StartPhoto(w)
  BY <1>1 DEF StartMedia, StartPhoto, database
<1>2. CASE StartErase(w)
  BY <1>2 DEF StartErase, database
<1>3. CASE SaveResume(w) \/ DiscardResume(w)
  BY <1>3 DEF SaveResume, DiscardResume, ResumeRequest, database
<1>4. CASE Attach(w)
  BY <1>4 DEF Attach, Flushed, database
<1>5. CASE StartReplace(w)
  BY <1>5 DEF StartReplace, database
<1>6. CASE StartPrune(w)
  BY <1>6 DEF StartPrune, database
<1> QED
  BY <1>1, <1>2, <1>3, <1>4, <1>5, <1>6 DEF Starts

LEMMA WorksLeaveLinks ==
    ASSUME NEW w \in Jobs, Works(w)
    PROVE  items' = items /\ links' = links
<1>1. CASE RollBack(w)
  BY <1>1 DEF RollBack, database
<1>2. CASE AwaitDuplicate(w) \/ FindDuplicate(w) \/ FindNothing(w)
            \/ PutMedia(w) \/ PutPhoto(w) \/ PutPrivate(w)
  BY <1>2 DEF AwaitDuplicate, FindDuplicate, FindNothing, PutMedia, PutPhoto, PutPrivate,
              PutObject, database
<1>3. CASE CommitMedia(w) \/ CommitPhoto(w) \/ CommitErase(w) \/ CommitResume(w)
  BY <1>3 DEF CommitMedia, CommitPhoto, CommitErase, CommitResume
<1>4. CASE PruneUsed(w) \/ PruneObject(w) \/ PrunePhotos(w)
  BY <1>4 DEF PruneUsed, PruneObject, PrunePhotos, Settle, database
<1>5. CASE CommitPrune(w)
  BY <1>5 DEF CommitPrune
<1>6. CASE Replace(w)
  BY <1>6 DEF Replace, Flushed, database
<1>7. CASE Clean(w)
  BY <1>7 DEF Clean, database
<1> QED
  BY <1>1, <1>2, <1>3, <1>4, <1>5, <1>6, <1>7 DEF Works

LEMMA BreaksLeaveLinks ==
    ASSUME NEW w \in Jobs, Breaks(w)
    PROVE  items' = items /\ links' = links
<1>1. CASE PruneFails(w)
  BY <1>1 DEF PruneFails, Settle, database
<1>2. CASE PutUnanswered(w)
  BY <1>2 DEF PutUnanswered, database
<1>3. CASE Crash(w)
  BY <1>3 DEF Crash, database
<1> QED
  BY <1>1, <1>2, <1>3 DEF Breaks

-----------------------------------------------------------------------------
(* Requests that no commit has overtaken *)

Served ==
    /\ DOMAIN asked = Jobs /\ fresh \subseteq Jobs
    /\ LoneRequestServed

(* What a request would be refused for does not change with these tables.     *)
LEMMA RefusalsRest ==
    ASSUME NEW v \in Jobs, ~Refused(asked[v]), asked'[v] = asked[v],
           items' = items, links' = links, UNCHANGED knowledge
    PROVE  ~Refused(asked[v])'
<1>1. TagsPresent' = TagsPresent
  BY DEF TagsPresent, knowledge
<1>2. \A i : FilesOf(i)' = FilesOf(i)
  BY DEF FilesOf
<1>3. \A t : TagUsed(t)' = TagUsed(t)
  BY DEF TagUsed, knowledge
<1>4. \A k : TypeUsed(k)' = TypeUsed(k)
  BY DEF TypeUsed, knowledge
<1>5. types' = types
  BY DEF knowledge
<1> QED
  BY <1>1, <1>5 DEF Refused, FilesOf, TagUsed, TypeUsed, knowledge

LEMMA QuietServes ==
    ASSUME Served, NEW w \in Jobs, Quietly(w), items' = items, links' = links
    PROVE  Served'
<1>1. /\ DOMAIN asked' = Jobs /\ fresh' \subseteq fresh
      /\ \A v \in fresh' : asked'[v] = asked[v]
  BY DEF Quietly, Served, requests
<1>2. ASSUME NEW v \in fresh'
      PROVE  ~Refused(asked[v])'
  <2>1. v \in Jobs /\ ~Refused(asked[v]) /\ asked'[v] = asked[v]
    BY <1>1, <1>2 DEF Served, LoneRequestServed
  <2> QED
    BY <2>1, RefusalsRest DEF Quietly
<1> QED
  BY <1>1, <1>2 DEF Served, LoneRequestServed

LEMMA AskServes ==
    ASSUME Served, NEW w \in Jobs, NEW what, Asks(w, what), ~Refused(what),
           items' = items, links' = links, UNCHANGED knowledge
    PROVE  Served'
<1>1. /\ DOMAIN asked' = Jobs /\ fresh' = fresh \cup {w} /\ asked'[w] = what
      /\ \A v \in Jobs : v # w => asked'[v] = asked[v]
  BY DEF Asks, Served
<1>2. ASSUME NEW v \in fresh'
      PROVE  ~Refused(asked[v])'
  <2>1. CASE v = w
    BY <1>1, <2>1 DEF Refused, FilesOf, TagUsed, TypeUsed, TagsPresent, knowledge
  <2>2. CASE v # w
    <3>1. v \in Jobs /\ ~Refused(asked[v]) /\ asked'[v] = asked[v]
      BY <1>1, <1>2, <2>2 DEF Served, LoneRequestServed
    <3> QED
      BY <3>1, RefusalsRest
  <2> QED
    BY <2>1, <2>2
<1> QED
  BY <1>1, <1>2 DEF Served, LoneRequestServed

(* A commit leaves no request that it has not overtaken.                      *)
LEMMA OvertakingServes ==
    ASSUME Served, NEW w \in Jobs, Overtakes(w)
    PROVE  Served'
  BY DEF Served, Overtakes, LoneRequestServed

(* The forms that pass name people and types that exist, and never the person. *)
LEMMA FormsValid ==
    ASSUME NEW p, NEW form \in Forms(p)
    PROVE  \A c \in Named(form) :
               /\ c.type \in types /\ c.other \in items
               /\ c.other \in People /\ c.other # p
<1>1. PICK a \in AtMostOne("create", p), b \in AtMostOne("update", p), d \in AtMostOne("delete", p) :
          form = a \cup b \cup d
  BY DEF Forms
<1>2. \A c \in a \cup b \cup d : Valid(p, c)
  BY DEF AtMostOne
<1> QED
  BY <1>1, <1>2 DEF Named, Of, Valid

LEMMA RestServes ==
    ASSUME Served, items' = items, links' = links, UNCHANGED knowledge, UNCHANGED requests
    PROVE  Served'
<1>1. asked' = asked /\ fresh' = fresh
  BY DEF requests
<1>2. \A v \in fresh : v \in Jobs /\ ~Refused(asked[v])
  BY DEF Served, LoneRequestServed
<1>3. \A v \in fresh : ~Refused(asked[v])'
  BY <1>1, <1>2, RefusalsRest
<1> QED
  BY <1>1, <1>3 DEF Served, LoneRequestServed

(* What a request asks for has been read just now, so it is not refused.      *)
LEMMA StartsServe ==
    ASSUME Served, LinksSound, NEW w \in Jobs, KnowledgeStarts(w)
    PROVE  Served'
<1> USE DEF Reads, Files
<1>1. CASE StartPerson(w)
  <2>1. PICK p \in items \cap People, labels \in SUBSET TagsPresent :
             \E form \in Forms(p), another \in scenario.naming :
           /\ Reads(w, "person")
           /\ Asks(w, [op |-> "person", now |-> Moment', item |-> p,
                       name |-> Given(p, another), labels |-> labels, form |-> form, near |-> Neighbours(p, form)])
    BY <1>1 DEF StartPerson
  <2>2. PICK form \in Forms(p), another \in scenario.naming :
           /\ Reads(w, "person")
           /\ Asks(w, [op |-> "person", now |-> Moment', item |-> p,
                       name |-> Given(p, another), labels |-> labels, form |-> form, near |-> Neighbours(p, form)])
    BY <2>1
  <2>3. \A c \in Named(form) : c.type \in types /\ c.other \in items
    BY FormsValid
  <2> DEFINE what == [op |-> "person", now |-> Moment', item |-> p,
                      name |-> Given(p, another), labels |-> labels, form |-> form, near |-> Neighbours(p, form)]
  <2>4. ~Refused(what)
    BY <2>3 DEF Refused
  <2>5. Asks(w, what) /\ items' = items /\ links' = links /\ UNCHANGED knowledge
    BY <2>2
  <2> HIDE DEF what
  <2> QED
    BY <2>4, <2>5, AskServes
<1>2. CASE StartDate(w)
  <2>1. PICK d \in items \cap Dates, labels \in SUBSET TagsPresent,
             people \in SUBSET (items \cap People), another \in scenario.naming :
           /\ Reads(w, "date")
           /\ Asks(w, [op |-> "date", now |-> Moment', item |-> d,
                       name |-> Given(d, another), labels |-> labels, people |-> people, near |-> PeopleOf(d)])
    BY <1>2 DEF StartDate
  <2> DEFINE what == [op |-> "date", now |-> Moment', item |-> d,
                      name |-> Given(d, another), labels |-> labels, people |-> people, near |-> PeopleOf(d)]
  <2>2. ~Refused(what)
    BY DEF Refused
  <2>3. Asks(w, what) /\ items' = items /\ links' = links /\ UNCHANGED knowledge
    BY <2>1
  <2> HIDE DEF what
  <2> QED
    BY <2>2, <2>3, AskServes
<1>3. CASE CreatePerson(w) \/ CreateDate(w)
  BY <1>3, OvertakingServes DEF CreatePerson, CreateDate, NewItem
<1>4. CASE DeletePerson(w) \/ DeleteDate(w)
  <2>1. PICK i, near : StartDelete(w, i, near)
    BY <1>4 DEF DeletePerson, DeleteDate
  <2> DEFINE what == [op |-> "remove", now |-> Moment', item |-> i, near |-> near,
                      files |-> FilesOf(i)]
  <2>2. Asks(w, what) /\ i \in items /\ items' = items /\ links' = links /\ UNCHANGED knowledge
    BY <2>1 DEF StartDelete, StartRemove, database
  <2>3. ~Refused(what)
    BY <2>2 DEF Refused
  <2> HIDE DEF what
  <2> QED
    BY <2>2, <2>3, AskServes
<1>5. CASE StartPeople(w)
  <2>1. PICK labels \in SUBSET TagsPresent :
           Reads(w, "list") /\ Asks(w, [op |-> "list", page |-> PersonPage(labels)])
    BY <1>5 DEF StartPeople
  <2> DEFINE what == [op |-> "list", page |-> PersonPage(labels)]
  <2>2. ~Refused(what)
    BY DEF Refused, PersonPage, WithTags
  <2>3. Asks(w, what) /\ items' = items /\ links' = links /\ UNCHANGED knowledge
    BY <2>1
  <2> HIDE DEF what
  <2> QED
    BY <2>2, <2>3, AskServes
<1>11. CASE StartReferences(w)
  <2>1. PICK p \in items \cap People :
           Reads(w, "list") /\ Asks(w, [op |-> "list", page |-> DatesOf(p)])
    BY <1>11 DEF StartReferences
  <2> DEFINE what == [op |-> "list", page |-> DatesOf(p)]
  <2>2. ~Refused(what)
    BY DEF Refused, DatesOf, LinksSound, Sound
  <2>3. Asks(w, what) /\ items' = items /\ links' = links /\ UNCHANGED knowledge
    BY <2>1
  <2> HIDE DEF what
  <2> QED
    BY <2>2, <2>3, AskServes
<1>12. CASE StartDates(w)
  <2>1. PICK labels \in SUBSET TagsPresent,
             about \in {{}} \cup {{p} : p \in items \cap People} :
           Reads(w, "list") /\ Asks(w, [op |-> "dates", page |-> DatePage(labels, about)])
    BY <1>12 DEF StartDates
  <2> DEFINE what == [op |-> "dates", page |-> DatePage(labels, about)]
  <2>2. ~Refused(what)
    BY DEF Refused, DatePage, WithTags
  <2>3. Asks(w, what) /\ items' = items /\ links' = links /\ UNCHANGED knowledge
    BY <2>1
  <2> HIDE DEF what
  <2> QED
    BY <2>2, <2>3, AskServes
<1>13. CASE StartShow(w)
  <2>1. PICK p \in items \cap People :
           /\ Reads(w, "show")
           /\ Asks(w, [op |-> "relatives", item |-> p,
                       page |-> Relatives(p)])
    BY <1>13 DEF StartShow
  <2> DEFINE what == [op |-> "relatives", item |-> p,
                      page |-> Relatives(p)]
  <2>2. ~Refused(what)
    BY DEF Refused, Relatives, RelationsOf, Involves, Other, LinksSound, Sound
  <2>3. Asks(w, what) /\ items' = items /\ links' = links /\ UNCHANGED knowledge
    BY <2>1
  <2> HIDE DEF what
  <2> QED
    BY <2>2, <2>3, AskServes
<1>14. CASE StartRetype(w)
  <2>1. PICK k \in types, same \in BOOLEAN :
           Reads(w, "retype") /\ Asks(w, [op |-> "retype", type |-> k, same |-> same])
    BY <1>14 DEF StartRetype
  <2> DEFINE what == [op |-> "retype", type |-> k, same |-> same]
  <2>2. ~Refused(what)
    BY DEF Refused
  <2>3. Asks(w, what) /\ items' = items /\ links' = links /\ UNCHANGED knowledge
    BY <2>1
  <2> HIDE DEF what
  <2> QED
    BY <2>2, <2>3, AskServes
<1>15. CASE StartTitle(w)
  <2>1. PICK f \in DOMAIN links :
           /\ Reads(w, "title")
           /\ Asks(w, [op |-> "title", now |-> Moment', file |-> f, item |-> links[f].item])
    BY <1>15 DEF StartTitle
  <2> DEFINE what == [op |-> "title", now |-> Moment', file |-> f, item |-> links[f].item]
  <2>2. ~Refused(what)
    BY DEF Refused
  <2>3. Asks(w, what) /\ items' = items /\ links' = links /\ UNCHANGED knowledge
    BY <2>1
  <2> HIDE DEF what
  <2> QED
    BY <2>2, <2>3, AskServes
<1>6. CASE StartTag(w)
  <2>1. PICK name \in Names : Reads(w, "tag") /\ Asks(w, [op |-> "tag", name |-> name])
    BY <1>6 DEF StartTag
  <2> DEFINE what == [op |-> "tag", name |-> name]
  <2>2. ~Refused(what)
    BY DEF Refused
  <2>3. Asks(w, what) /\ items' = items /\ links' = links /\ UNCHANGED knowledge
    BY <2>1
  <2> HIDE DEF what
  <2> QED
    BY <2>2, <2>3, AskServes
<1>7. CASE StartRename(w)
  <2>1. PICK t \in TagsPresent, name \in Names :
           Reads(w, "rename") /\ Asks(w, [op |-> "rename", tag |-> t, name |-> name])
    BY <1>7 DEF StartRename
  <2> DEFINE what == [op |-> "rename", tag |-> t, name |-> name]
  <2>2. ~Refused(what)
    BY DEF Refused
  <2>3. Asks(w, what) /\ items' = items /\ links' = links /\ UNCHANGED knowledge
    BY <2>1
  <2> HIDE DEF what
  <2> QED
    BY <2>2, <2>3, AskServes
<1>8. CASE StartUntag(w)
  <2>1. PICK t \in TagsPresent :
           ~TagUsed(t) /\ Reads(w, "untag") /\ Asks(w, [op |-> "untag", tag |-> t])
    BY <1>8 DEF StartUntag
  <2> DEFINE what == [op |-> "untag", tag |-> t]
  <2>2. ~Refused(what)
    BY <2>1 DEF Refused
  <2>3. Asks(w, what) /\ items' = items /\ links' = links /\ UNCHANGED knowledge
    BY <2>1
  <2> HIDE DEF what
  <2> QED
    BY <2>2, <2>3, AskServes
<1>9. CASE CreateType(w)
  BY <1>9, OvertakingServes DEF CreateType
<1>10. CASE StartUntype(w)
  <2>1. PICK k \in types :
           ~TypeUsed(k) /\ Reads(w, "untype") /\ Asks(w, [op |-> "untype", type |-> k])
    BY <1>10 DEF StartUntype
  <2> DEFINE what == [op |-> "untype", type |-> k]
  <2>2. ~Refused(what)
    BY <2>1 DEF Refused
  <2>3. Asks(w, what) /\ items' = items /\ links' = links /\ UNCHANGED knowledge
    BY <2>1
  <2> HIDE DEF what
  <2> QED
    BY <2>2, <2>3, AskServes
<1> QED
  BY <1>1, <1>2, <1>3, <1>4, <1>5, <1>6, <1>7, <1>8, <1>9, <1>10, <1>11, <1>12, <1>13,
     <1>14, <1>15 DEF KnowledgeStarts

LEMMA FileStartsServe ==
    ASSUME Served, NEW w \in Jobs, StartFile(w)
    PROVE  Served'
<1>1. CASE Starts(w) /\ Quietly(w)
  BY <1>1, StartsLeaveLinks, QuietServes
<1>2. CASE /\ Attach(w) \/ StartReplace(w)
           /\ Asks(w, [op |-> "file", now |-> Moment']) /\ UNCHANGED knowledge
  <2> DEFINE what == [op |-> "file", now |-> Moment']
  <2>1. ~Refused(what)
    BY DEF Refused
  <2>2. Asks(w, what) /\ items' = items /\ links' = links /\ UNCHANGED knowledge
    BY <1>2, StartsLeaveLinks
  <2> HIDE DEF what
  <2> QED
    BY <2>1, <2>2, AskServes
<1> QED
  BY <1>1, <1>2 DEF StartFile

(* A request that reads on asks for what is there at that moment.              *)
LEMMA ContinuingServes ==
    ASSUME Served, LinksSound, NEW w \in Jobs, FillDates(w) \/ FillPerson(w)
    PROVE  Served'
<1>1. PICK page \in SUBSET items :
         /\ asked' = [asked EXCEPT ![w] = [op |-> "list", page |-> page]]
         /\ fresh' = fresh /\ items' = items /\ links' = links /\ UNCHANGED knowledge
  <2>1. CASE FillDates(w)
    <3>1. \A d, p : p \in PeopleOf(d) => p \in items
      BY DEF PeopleOf, LinksSound, Sound
    <3>2. UNION {PeopleOf(d) : d \in asked[w].page} \subseteq items
      BY <3>1
    <3> QED
      BY <2>1, <3>2 DEF FillDates, Continues, Files
  <2>2. CASE FillPerson(w)
    <3>1. DatesOf(asked[w].item) \subseteq items
      BY DEF DatesOf, LinksSound, Sound
    <3> QED
      BY <2>2, <3>1 DEF FillPerson, Continues, Files
  <2> QED
    BY <2>1, <2>2
<1>2. ASSUME NEW v \in fresh'
      PROVE  ~Refused(asked[v])'
  <2>1. CASE v = w
    BY <1>1, <2>1 DEF Served, Refused
  <2>2. CASE v # w
    <3>1. v \in Jobs /\ ~Refused(asked[v]) /\ asked'[v] = asked[v]
      BY <1>1, <1>2, <2>2 DEF Served, LoneRequestServed
    <3> QED
      BY <1>1, <3>1, RefusalsRest
  <2> QED
    BY <2>1, <2>2
<1> QED
  BY <1>1, <1>2 DEF Served, LoneRequestServed

LEMMA ServingServes ==
    ASSUME Served, LinksSound, NEW w \in Jobs, Serves(w)
    PROVE  Served'
<1>1. CASE ShowList(w)
  BY <1>1, QuietServes DEF ShowList, Files
<1>2. CASE FillDates(w) \/ FillPerson(w)
  BY <1>2, ContinuingServes
<1>3. CASE ~ShowList(w) /\ ~FillDates(w) /\ ~FillPerson(w)
  <2>1. Overtakes(w)
    BY <1>3 DEF Serves, SavePerson, SaveDate, UpdatesItem, Delete, AddTag, Rename, Untag, Retype, Untype, Title, Writes
  <2> QED
    BY <2>1, OvertakingServes
<1> QED
  BY <1>1, <1>2, <1>3

LEMMA ServedStep ==
    ASSUME Served, LinksSound, [KnowledgeNext]_allVars
    PROVE  Served'
<1>1. CASE UNCHANGED allVars
  <2>1. items' = items /\ links' = links /\ UNCHANGED knowledge /\ UNCHANGED requests
    BY <1>1 DEF allVars, vars, database
  <2> QED
    BY <2>1, RestServes
<1>2. CASE \/ Tick /\ UNCHANGED <<knowledge, requests>>
           \/ (\E r \in Resumes : CreateResume(r)) /\ UNCHANGED <<knowledge, requests>>
  <2>1. items' = items /\ links' = links /\ UNCHANGED knowledge /\ UNCHANGED requests
    BY <1>2 DEF Tick, CreateResume, database
  <2> QED
    BY <2>1, RestServes
<1>3. ASSUME NEW w \in Jobs,
             \/ StartFile(w) \/ Detached(w) \/ Prunes(w) \/ KnowledgeStarts(w)
             \/ Advances(w)
             \/ Breaks(w) /\ Quietly(w)
             \/ CommitUnanswered(w) /\ Attached(w)
      PROVE  Served'
  <2>1. CASE StartFile(w)
    BY <2>1, FileStartsServe
  <2>2. CASE Prunes(w)
    BY <2>2, StartsLeaveLinks, QuietServes DEF Prunes
  <2>3. CASE KnowledgeStarts(w)
    BY <2>3, StartsServe
  <2>4. CASE Detached(w) \/ Attached(w)
    BY <2>4, OvertakingServes DEF Detached, Attached
  <2>5. CASE Works(w) /\ Quietly(w)
    BY <2>5, WorksLeaveLinks, QuietServes
  <2>6. CASE Serves(w)
    BY <2>6, ServingServes
  <2>7. CASE Breaks(w) /\ Quietly(w)
    BY <2>7, BreaksLeaveLinks, QuietServes
  <2> QED
    BY <1>3, <2>1, <2>2, <2>3, <2>4, <2>5, <2>6, <2>7 DEF Advances
<1> QED
  BY <1>1, <1>2, <1>3 DEF KnowledgeNext

-----------------------------------------------------------------------------
(* Links *)

(* A request in progress ties no person to itself and gives tags real names.  *)
Proper(j) ==
    /\ j.op = "person" => \A c \in Named(j.form) : c.other # j.item
    /\ j.op \in {"tag", "rename"} => j.name \in Names

Linked ==
    /\ DOMAIN asked = Jobs /\ DOMAIN tags = Tags
    /\ LinksSound
    /\ \A w \in Jobs : Proper(asked[w])

LEMMA QuietLinks ==
    ASSUME Linked, NEW w \in Jobs, items' = items, UNCHANGED knowledge,
           Quietly(w) \/ UNCHANGED requests
    PROVE  Linked'
<1>1. /\ DOMAIN asked' = Jobs
      /\ \A v \in Jobs : asked'[v] = asked[v] \/ asked'[v] = Nothing
  BY DEF Linked, Quietly, requests
<1>2. \A v \in Jobs : Proper(asked'[v])
  <2>1. Proper(Nothing)
    BY DEF Proper, Nothing
  <2> QED
    BY <1>1, <2>1 DEF Linked
<1>3. LinksSound'
  BY DEF Linked, LinksSound, knowledge, TagsPresent
<1>4. DOMAIN tags' = Tags
  BY DEF Linked, knowledge
<1> QED
  BY <1>1, <1>2, <1>3, <1>4 DEF Linked, Proper

LEMMA AskLinks ==
    ASSUME Linked, NEW w \in Jobs, NEW what, Asks(w, what), items' = items,
           UNCHANGED knowledge, Proper(what)
    PROVE  Linked'
<1>1. /\ DOMAIN asked' = Jobs /\ asked'[w] = what
      /\ \A v \in Jobs : v # w => asked'[v] = asked[v]
  BY DEF Linked, Asks
<1>2. \A v \in Jobs : Proper(asked'[v])
  BY <1>1 DEF Linked
<1>3. LinksSound'
  BY DEF Linked, LinksSound, knowledge, TagsPresent
<1>4. DOMAIN tags' = Tags
  BY DEF Linked, knowledge
<1> QED
  BY <1>1, <1>2, <1>3, <1>4 DEF Linked, Proper

LEMMA CommitLinks ==
    ASSUME Linked, NEW w \in Jobs, Overtakes(w), LinksSound', DOMAIN tags' = DOMAIN tags
    PROVE  Linked'
<1>1. /\ DOMAIN asked' = Jobs
      /\ \A v \in Jobs : asked'[v] = asked[v] \/ asked'[v] = Nothing
  BY DEF Linked, Overtakes
<1>2. \A v \in Jobs : Proper(asked'[v])
  <2>1. Proper(Nothing)
    BY DEF Proper, Nothing
  <2> QED
    BY <1>1, <2>1 DEF Linked
<1> QED
  BY <1>1, <1>2 DEF Linked, Proper

(* The relations a save leaves are those there were, or lead from its person  *)
(* to one its form names.                                                     *)
LEMMA SavedRelations ==
    ASSUME NEW j, NEW r \in DOMAIN WithUpdated(j)
    PROVE  \/ r \in DOMAIN relations /\ WithUpdated(j)[r] = relations[r]
           \/ \E c \in Named(j.form) : WithUpdated(j)[r] = Directed(j.item, c)
<1> DEFINE R == WithCreated(j)
           A == {u \in Of(j.form, "update") : u.id = r /\ Involves(R[r], j.item)}
<1>1. r \in DOMAIN R
  BY DEF WithUpdated
<1>2. \/ r \in DOMAIN relations /\ R[r] = relations[r]
      \/ \E c \in Named(j.form) : R[r] = Directed(j.item, c)
  <2>1. CASE r \in DOMAIN relations
    BY <1>1, <2>1 DEF WithCreated
  <2>2. CASE r \notin DOMAIN relations
    <3>1. Of(j.form, "create") # {}
      BY <1>1, <2>2 DEF WithCreated
    <3>2. PICK c \in Of(j.form, "create") : c = CHOOSE d \in Of(j.form, "create") : TRUE
      BY <3>1
    <3> QED
      BY <1>1, <2>2, <3>2 DEF WithCreated, Named
  <2> QED
    BY <2>1, <2>2
<1>3. WithUpdated(j)[r] = IF A = {} THEN R[r] ELSE Directed(j.item, CHOOSE u \in A : TRUE)
  BY <1>1 DEF WithUpdated
<1>4. CASE A = {}
  BY <1>2, <1>3, <1>4
<1>5. CASE A # {}
  <2>1. (CHOOSE u \in A : TRUE) \in A
    BY <1>5
  <2>2. (CHOOSE u \in A : TRUE) \in Named(j.form)
    BY <2>1 DEF Named
  <2> HIDE DEF A
  <2> QED
    BY <1>3, <1>5, <2>2
<1> QED
  BY <1>4, <1>5

LEMMA SavePersonLinks ==
    ASSUME Linked, NEW w \in Jobs, SavePerson(w)
    PROVE  Linked'
<1> DEFINE j == asked[w]
           R == WithUpdated(j)
<1>1. /\ Overtakes(w) /\ j.op = "person" /\ j.item \in items /\ j.labels \subseteq TagsPresent
      /\ {c.type : c \in Named(j.form)} \subseteq types /\ ~PersonConflicts(j)
      /\ tagging' = Retagged(j)
      /\ relations' = Without(R, {c.id : c \in Of(j.form, "delete")})
      /\ UNCHANGED <<items, dated, tags, types>>
  BY DEF SavePerson, UpdatesItem, WithDeleted, Writes
<1>2. /\ DOMAIN relations' \subseteq DOMAIN R
      /\ \A r \in DOMAIN relations' : relations'[r] = R[r]
  <2> HIDE DEF R
  <2> QED
    BY <1>1 DEF Without
<1>3. \A r, s \in DOMAIN R :
          r # s => R[r].type # R[s].type \/ {R[r].from, R[r].to} # {R[s].from, R[s].to}
  <2>1. PairsUnique(R)
    BY <1>1 DEF PersonConflicts
  <2> HIDE DEF R
  <2> QED
    BY <2>1 DEF PairsUnique, Pair
<1>4. \A r \in DOMAIN R : {R[r].from, R[r].to} \subseteq items
  BY <1>1 DEF PersonConflicts
<1>5. ASSUME NEW r \in DOMAIN R
      PROVE  R[r].from # R[r].to /\ R[r].type \in types
  <2>1. CASE r \in DOMAIN relations /\ R[r] = relations[r]
    BY <2>1 DEF Linked, LinksSound, Sound
  <2>2. CASE \E c \in Named(j.form) : R[r] = Directed(j.item, c)
    <3>1. PICK c \in Named(j.form) : R[r] = Directed(j.item, c)
      BY <2>2
    <3>2. c.other # j.item /\ c.type \in types
      BY <1>1 DEF Linked, Proper
    <3>3. Directed(j.item, c).from # Directed(j.item, c).to /\ Directed(j.item, c).type = c.type
      BY <3>2 DEF Directed
    <3> QED
      BY <3>1, <3>2, <3>3
  <2> QED
    BY <2>1, <2>2, SavedRelations
<1>6. TagsPresent' = TagsPresent
  BY <1>1 DEF TagsPresent
<1>7. \A pair \in tagging' : pair[1] \in items /\ pair[2] \in TagsPresent
  BY <1>1 DEF Retagged, Linked, LinksSound, Sound
<1>8. UNCHANGED <<items, dated, tags, types>> /\ Overtakes(w)
  BY <1>1
<1> HIDE DEF R, j
<1>9. /\ \A r, s \in DOMAIN relations' :
            r # s => \/ relations'[r].type # relations'[s].type
                     \/ {relations'[r].from, relations'[r].to} # {relations'[s].from, relations'[s].to}
      /\ \A r \in DOMAIN relations' :
            /\ {relations'[r].from, relations'[r].to} \subseteq items
            /\ relations'[r].from # relations'[r].to /\ relations'[r].type \in types
  BY <1>2, <1>3, <1>4, <1>5
<1>10. LinksSound'
  BY <1>6, <1>7, <1>8, <1>9 DEF Linked, LinksSound, Sound
<1> QED
  BY <1>8, <1>10, CommitLinks

LEMMA SaveDateLinks ==
    ASSUME Linked, NEW w \in Jobs, SaveDate(w)
    PROVE  Linked'
<1> DEFINE j == asked[w]
<1>1. /\ Overtakes(w) /\ j.item \in items /\ j.labels \subseteq TagsPresent /\ j.people \subseteq items
      /\ dated' = {pair \in dated : pair[1] # j.item} \cup {<<j.item, p>> : p \in j.people}
      /\ tagging' = Retagged(j)
      /\ UNCHANGED <<items, relations, tags, types>>
  BY DEF SaveDate, UpdatesItem, Relinked, Writes
<1>2. TagsPresent' = TagsPresent
  BY <1>1 DEF TagsPresent
<1>3. \A pair \in tagging' : pair[1] \in items /\ pair[2] \in TagsPresent
  BY <1>1 DEF Retagged, Linked, LinksSound, Sound
<1>4. \A pair \in dated' : {pair[1], pair[2]} \subseteq items
  BY <1>1 DEF Linked, LinksSound, Sound
<1> HIDE DEF j
<1>5. LinksSound'
  BY <1>1, <1>2, <1>3, <1>4 DEF Linked, LinksSound, Sound
<1> QED
  BY <1>1, <1>5, CommitLinks

LEMMA DeleteLinks ==
    ASSUME Linked, NEW w \in Jobs, Delete(w)
    PROVE  Linked'
<1> DEFINE i == job[w].item
<1>1. /\ Overtakes(w) /\ items' = items \ {i}
      /\ relations' = Without(relations, RelationsOf(i))
      /\ dated' = {pair \in dated : i \notin {pair[1], pair[2]}}
      /\ tagging' = {pair \in tagging : pair[1] # i}
      /\ UNCHANGED <<tags, types>>
  BY DEF Delete, RelationsWithout, DatedWithout, TaggingWithout, CommitRemove
<1> HIDE DEF i
<1>2. TagsPresent' = TagsPresent
  BY <1>1 DEF TagsPresent
<1>3. \A r \in DOMAIN relations' :
          /\ r \in DOMAIN relations /\ relations'[r] = relations[r]
          /\ i \notin {relations[r].from, relations[r].to}
  BY <1>1 DEF Without, RelationsOf, Involves
<1>4. LinksSound'
  BY SMTT(30), <1>1, <1>2, <1>3 DEF Linked, LinksSound, Sound
<1> QED
  BY <1>1, <1>4, CommitLinks

(* Tags and types: a name that is free, and no deletion of what is used.      *)
LEMMA TagLinks ==
    ASSUME Linked, NEW w \in Jobs, AddTag(w) \/ Rename(w) \/ Untag(w)
    PROVE  Linked'
<1>1. Overtakes(w) /\ DOMAIN tags = Tags
      /\ UNCHANGED <<items, relations, dated, tagging, types>>
  BY DEF AddTag, Rename, Untag, Writes, Linked
<1>5. AddTag(w) \/ Rename(w) => asked[w].name \in Names
  BY DEF AddTag, Rename, Writes, Linked, Proper
<1>2. ASSUME NEW t \in TagsPresent, NEW pair \in tagging, pair[2] = t
      PROVE  t \in TagsPresent'
  <2>1. CASE AddTag(w)
    <3>1. PICK u \in Tags : tags[u] = Absent /\ tags' = [tags EXCEPT ![u] = asked[w].name]
      BY <2>1 DEF AddTag
    <3> QED
      BY <1>1, <3>1, NamesAssumption DEF TagsPresent
  <2>2. CASE Rename(w)
    BY <1>1, <1>5, <2>2, NamesAssumption DEF Rename, TagsPresent
  <2>3. CASE Untag(w)
    BY <1>1, <1>2, <2>3 DEF Untag, TagUsed, TagsPresent
  <2> QED
    BY <2>1, <2>2, <2>3
<1>3. ASSUME NEW t \in TagsPresent', NEW u \in TagsPresent', tags'[t] = tags'[u]
      PROVE  t = u
  <2>0. \A x, y \in TagsPresent : tags[x] = tags[y] => x = y
    BY DEF Linked, LinksSound, Sound
  <2>1. CASE AddTag(w)
    <3>1. PICK v \in Tags : tags' = [tags EXCEPT ![v] = asked[w].name]
      BY <2>1 DEF AddTag
    <3>2. \A x \in Tags : tags[x] # asked[w].name
      BY <2>1 DEF AddTag, Bearers
    <3> QED
      BY <1>1, <1>3, <2>0, <3>1, <3>2 DEF TagsPresent
  <2>2. CASE Rename(w)
    <3>1. tags' = [tags EXCEPT ![asked[w].tag] = asked[w].name]
      BY <2>2 DEF Rename
    <3>2. \A x \in Tags : tags[x] = asked[w].name => x = asked[w].tag
      BY <2>2 DEF Rename, Bearers
    <3> QED
      BY <1>1, <1>3, <2>0, <3>1, <3>2 DEF TagsPresent
  <2>3. CASE Untag(w)
    <3>1. tags' = [tags EXCEPT ![asked[w].tag] = Gone]
      BY <2>3 DEF Untag
    <3> QED
      BY <1>1, <1>3, <2>0, <3>1, NamesAssumption DEF TagsPresent
  <2> QED
    BY <2>1, <2>2, <2>3
<1>4. LinksSound'
  BY <1>1, <1>2, <1>3 DEF Linked, LinksSound, Sound
<1>6. DOMAIN tags' = DOMAIN tags
  BY DEF AddTag, Rename, Untag
<1> QED
  BY <1>1, <1>4, <1>6, CommitLinks

LEMMA TypeLinks ==
    ASSUME Linked, NEW w \in Jobs, CreateType(w) \/ Untype(w) \/ Retype(w) \/ Title(w) \/ CreatePerson(w) \/ CreateDate(w)
    PROVE  Linked'
<1>1. /\ Overtakes(w) /\ UNCHANGED <<relations, dated, tagging, tags>>
      /\ items \subseteq items'
  BY DEF CreateType, Untype, Retype, Title, CreatePerson, CreateDate, NewItem, Writes
<1>2. \A r \in DOMAIN relations : relations[r].type \in types'
  <2>1. \A r \in DOMAIN relations : relations[r].type \in types
    BY DEF Linked, LinksSound, Sound
  <2>2. CASE CreateType(w) \/ Retype(w) \/ Title(w) \/ CreatePerson(w) \/ CreateDate(w)
    BY <2>1, <2>2 DEF CreateType, Retype, Title, CreatePerson, CreateDate, NewItem
  <2>3. CASE Untype(w)
    BY <2>1, <2>3 DEF Untype, TypeUsed
  <2> QED
    BY <2>2, <2>3
<1>3. TagsPresent' = TagsPresent
  BY <1>1 DEF TagsPresent
<1>4. LinksSound'
  BY <1>1, <1>2, <1>3 DEF Linked, LinksSound, Sound
<1> QED
  BY <1>1, <1>4, CommitLinks

LEMMA StartsLink ==
    ASSUME Linked, NEW w \in Jobs, KnowledgeStarts(w)
    PROVE  Linked'
<1> USE DEF Reads, Files
<1>1. CASE StartPerson(w)
  <2>1. PICK p \in items \cap People, labels \in SUBSET TagsPresent :
             \E form \in Forms(p), another \in scenario.naming :
           /\ Reads(w, "person")
           /\ Asks(w, [op |-> "person", now |-> Moment', item |-> p,
                       name |-> Given(p, another), labels |-> labels, form |-> form, near |-> Neighbours(p, form)])
    BY <1>1 DEF StartPerson
  <2>2. PICK form \in Forms(p), another \in scenario.naming :
           /\ Reads(w, "person")
           /\ Asks(w, [op |-> "person", now |-> Moment', item |-> p,
                       name |-> Given(p, another), labels |-> labels, form |-> form, near |-> Neighbours(p, form)])
    BY <2>1
  <2> DEFINE what == [op |-> "person", now |-> Moment', item |-> p,
                      name |-> Given(p, another), labels |-> labels, form |-> form, near |-> Neighbours(p, form)]
  <2>3. Proper(what)
    BY FormsValid DEF Proper
  <2>4. Asks(w, what) /\ items' = items /\ UNCHANGED knowledge
    BY <2>2
  <2> HIDE DEF what
  <2> QED
    BY <2>3, <2>4, AskLinks
<1>2. CASE StartTag(w)
  <2>1. PICK name \in Names : Reads(w, "tag") /\ Asks(w, [op |-> "tag", name |-> name])
    BY <1>2 DEF StartTag
  <2> DEFINE what == [op |-> "tag", name |-> name]
  <2>2. Proper(what)
    BY DEF Proper
  <2>3. Asks(w, what) /\ items' = items /\ UNCHANGED knowledge
    BY <2>1
  <2> HIDE DEF what
  <2> QED
    BY <2>2, <2>3, AskLinks
<1>3. CASE StartRename(w)
  <2>1. PICK t \in TagsPresent, name \in Names :
           Reads(w, "rename") /\ Asks(w, [op |-> "rename", tag |-> t, name |-> name])
    BY <1>3 DEF StartRename
  <2> DEFINE what == [op |-> "rename", tag |-> t, name |-> name]
  <2>2. Proper(what)
    BY DEF Proper
  <2>3. Asks(w, what) /\ items' = items /\ UNCHANGED knowledge
    BY <2>1
  <2> HIDE DEF what
  <2> QED
    BY <2>2, <2>3, AskLinks
<1>4. CASE \/ StartDate(w) \/ DeletePerson(w) \/ DeleteDate(w)
           \/ StartPeople(w) \/ StartReferences(w) \/ StartDates(w) \/ StartShow(w)
           \/ StartUntag(w) \/ StartRetype(w) \/ StartUntype(w) \/ StartTitle(w)
  <2>1. \E what : Asks(w, what) /\ what.op # "person" /\ what.op # "tag" /\ what.op # "rename"
    <3>1. CASE StartDate(w)
      BY <3>1 DEF StartDate
    <3>2. CASE DeletePerson(w)
      BY <3>2 DEF DeletePerson, StartDelete
    <3>3. CASE DeleteDate(w)
      BY <3>3 DEF DeleteDate, StartDelete
    <3>4. CASE StartPeople(w)
      BY <3>4 DEF StartPeople
    <3>5. CASE StartReferences(w)
      BY <3>5 DEF StartReferences
    <3>6. CASE StartDates(w)
      <4>1. PICK page : Asks(w, [op |-> "dates", page |-> page])
        BY <3>6 DEF StartDates
      <4> QED
        BY <4>1
    <3>7. CASE StartShow(w)
      <4>1. PICK p : Asks(w, [op |-> "relatives", item |-> p, page |-> Relatives(p)])
        BY <3>7 DEF StartShow
      <4> QED
        BY <4>1
    <3>8. CASE StartUntag(w)
      BY <3>8 DEF StartUntag
    <3>9. CASE StartRetype(w)
      BY <3>9 DEF StartRetype
    <3>10. CASE StartUntype(w)
      BY <3>10 DEF StartUntype
    <3>11. CASE StartTitle(w)
      BY <3>11 DEF StartTitle
    <3> QED
      BY <1>4, <3>1, <3>2, <3>3, <3>4, <3>5, <3>6, <3>7, <3>8, <3>9, <3>10, <3>11
  <2>2. items' = items /\ UNCHANGED knowledge
    BY <1>4 DEF StartDate, DeletePerson, DeleteDate, StartDelete, StartRemove, StartPeople,
                StartReferences, StartDates, StartShow, StartUntag, StartRetype, StartUntype,
                StartTitle, database
  <2>3. PICK what : Asks(w, what) /\ what.op # "person" /\ what.op # "tag" /\ what.op # "rename"
    BY <2>1
  <2>4. Proper(what)
    BY <2>3 DEF Proper
  <2> QED
    BY <2>2, <2>3, <2>4, AskLinks
<1>5. CASE CreatePerson(w) \/ CreateDate(w) \/ CreateType(w)
  BY <1>5, TypeLinks
<1> QED
  BY <1>1, <1>2, <1>3, <1>4, <1>5 DEF KnowledgeStarts

LEMMA FileStartsLink ==
    ASSUME Linked, NEW w \in Jobs, StartFile(w)
    PROVE  Linked'
<1>1. CASE Starts(w) /\ Quietly(w)
  BY <1>1, StartsLeaveLinks, QuietLinks DEF Quietly
<1>2. CASE /\ Attach(w) \/ StartReplace(w)
           /\ Asks(w, [op |-> "file", now |-> Moment']) /\ UNCHANGED knowledge
  <2> DEFINE what == [op |-> "file", now |-> Moment']
  <2>1. Proper(what)
    BY DEF Proper
  <2>2. Asks(w, what) /\ items' = items /\ UNCHANGED knowledge
    BY <1>2, StartsLeaveLinks
  <2> HIDE DEF what
  <2> QED
    BY <2>1, <2>2, AskLinks
<1> QED
  BY <1>1, <1>2 DEF StartFile

(* The commits of files touch items and leave the rest alone.                 *)
LEMMA AttachedLinks ==
    ASSUME Linked, NEW w \in Jobs,
           Detached(w) \/ ((CommitAttach(w) \/ CommitUnanswered(w)) /\ Attached(w))
    PROVE  Linked'
<1>1. /\ Overtakes(w) /\ items' = items
      /\ UNCHANGED <<relations, tied, dated, tagging, tags, types, typed>>
  BY DEF Detached, Detach, DeleteAttachment, DeletePersonPhoto, Unlink, CommitAttach, CommitUnanswered, Attached
<1>2. LinksSound'
  BY <1>1 DEF Linked, LinksSound, TagsPresent
<1> QED
  BY <1>1, <1>2, CommitLinks

LEMMA ServesLink ==
    ASSUME Linked, NEW w \in Jobs, Serves(w)
    PROVE  Linked'
<1>1. CASE ShowList(w)
  BY <1>1, QuietLinks DEF ShowList, Quietly
<1>2. CASE FillDates(w) \/ FillPerson(w)
  <2>1. \E page : /\ asked' = [asked EXCEPT ![w] = [op |-> "list", page |-> page]]
                  /\ items' = items /\ UNCHANGED knowledge
    <3>1. CASE FillDates(w)
      BY <3>1 DEF FillDates, Continues
    <3>2. CASE FillPerson(w)
      BY <3>2 DEF FillPerson, Continues
    <3> QED
      BY <1>2, <3>1, <3>2
  <2>2. PICK page : /\ asked' = [asked EXCEPT ![w] = [op |-> "list", page |-> page]]
                    /\ items' = items /\ UNCHANGED knowledge
    BY <2>1
  <2>3. \A v \in Jobs : Proper(asked'[v])
    BY <2>2 DEF Linked, Proper
  <2>4. LinksSound'
    BY <2>2 DEF Linked, LinksSound, knowledge, TagsPresent
  <2>5. DOMAIN tags' = Tags /\ DOMAIN asked' = Jobs
    BY <2>2 DEF Linked, knowledge
  <2> QED
    BY <2>3, <2>4, <2>5 DEF Linked, Proper
<1> QED
  BY <1>1, <1>2, SavePersonLinks, SaveDateLinks, DeleteLinks, TagLinks, TypeLinks DEF Serves

LEMMA LinkedStep ==
    ASSUME Linked, [KnowledgeNext]_allVars
    PROVE  Linked'
<1>1. CASE UNCHANGED allVars
  BY <1>1 DEF allVars, vars, database, knowledge, requests, Linked, LinksSound, TagsPresent, Proper
<1>2. CASE \/ Tick /\ UNCHANGED <<knowledge, requests>>
           \/ (\E r \in Resumes : CreateResume(r)) /\ UNCHANGED <<knowledge, requests>>
  <2>1. items' = items /\ UNCHANGED <<knowledge, requests>>
    BY <1>2 DEF Tick, CreateResume, database
  <2> QED
    BY <2>1 DEF knowledge, requests, Linked, LinksSound, TagsPresent, Proper
<1>3. ASSUME NEW w \in Jobs,
             \/ StartFile(w) \/ Detached(w) \/ Prunes(w) \/ KnowledgeStarts(w)
             \/ Advances(w)
             \/ Breaks(w) /\ Quietly(w)
             \/ CommitUnanswered(w) /\ Attached(w)
      PROVE  Linked'
  <2>1. CASE StartFile(w)
    BY <2>1, FileStartsLink
  <2>2. CASE Prunes(w)
    BY <2>2, StartsLeaveLinks, QuietLinks DEF Prunes, Quietly
  <2>3. CASE KnowledgeStarts(w)
    BY <2>3, StartsLink
  <2>4. CASE Detached(w) \/ ((CommitAttach(w) \/ CommitUnanswered(w)) /\ Attached(w))
    BY <2>4, AttachedLinks
  <2>5. CASE Works(w) /\ Quietly(w)
    BY <2>5, WorksLeaveLinks, QuietLinks DEF Quietly
  <2>6. CASE Serves(w)
    BY <2>6, ServesLink
  <2>7. CASE Breaks(w) /\ Quietly(w)
    BY <2>7, BreaksLeaveLinks, QuietLinks DEF Quietly
  <2> QED
    BY <1>3, <2>1, <2>2, <2>3, <2>4, <2>5, <2>6, <2>7 DEF Advances
<1> QED
  BY <1>1, <1>2, <1>3 DEF KnowledgeNext

LEMMA LinkedInit ==
    ASSUME KnowledgeInit
    PROVE  Linked
<1>1. PICK s \in Scenarios : s = scenario
  BY DEF KnowledgeInit, Init
<1>2. /\ items = s.items /\ relations = s.relations /\ dated = s.dated /\ tagging = s.tagging
      /\ types = s.types
      /\ tags = [t \in Tags |-> IF t \in DOMAIN s.tags THEN s.tags[t] ELSE Absent]
      /\ asked = [w \in Jobs |-> Nothing]
  BY <1>1 DEF KnowledgeInit, Init
<1>3. /\ s.tags \in [DOMAIN s.tags -> Names] /\ DOMAIN s.tags \subseteq Tags
      /\ Sound(s.items, s.relations, s.dated, s.tagging, s.tags, s.types)
  BY KnowledgeAssumption
<1>4. TagsPresent = DOMAIN s.tags
  BY <1>2, <1>3, NamesAssumption DEF TagsPresent
<1>5. [t \in TagsPresent |-> tags[t]] = s.tags
  BY <1>2, <1>3, <1>4
<1>6. LinksSound
  BY <1>2, <1>3, <1>5 DEF LinksSound
<1>7. \A w \in Jobs : Proper(asked[w])
  BY <1>2 DEF Proper, Nothing
<1> QED
  BY <1>2, <1>6, <1>7 DEF Linked

(* LinksSound: whatever came between the checks of a request and its writes,  *)
(* its commit leaves no relation, tag or person of a date without both ends,  *)
(* and no two people related twice by one type.                               *)
THEOREM LinksCorrect == KnowledgeSpec => []LinksSound
<1>1. Linked => LinksSound
  BY DEF Linked
<1> QED
  BY <1>1, LinkedInit, LinkedStep, PTL DEF KnowledgeSpec

(* LoneRequestServed: what a request has checked stays true until another     *)
(* request commits, so a request that none overtakes is never failed by a     *)
(* foreign key or a row that is missing.                                      *)
THEOREM LoneRequestCorrect == KnowledgeSpec => []LoneRequestServed
<1>1. KnowledgeInit => Served
  BY DEF KnowledgeInit, Served, LoneRequestServed
<1>2. Served /\ LinksSound /\ [KnowledgeNext]_allVars => Served'
  BY ServedStep
<1>3. Served => LoneRequestServed
  BY DEF Served
<1> QED
  BY <1>1, <1>2, <1>3, LinksCorrect, PTL DEF KnowledgeSpec

-----------------------------------------------------------------------------
(* Lists by latest change *)

(* The items that show an item, but for itself.                               *)
Around(i) == IF i \in People THEN Relatives(i) \cup DatesOf(i) ELSE PeopleOf(i)

(* What a request has read of the tables is what they hold.                   *)
Current(j) ==
    /\ j.op = "person" =>
          /\ j.near = Neighbours(j.item, j.form)
          /\ Mutated(j.form) \subseteq RelationsOf(j.item)
    /\ j.op = "date" => j.near = PeopleOf(j.item)
    /\ j.op = "remove" => j.near = Around(j.item)
    /\ j.op = "title" => j.file \in DOMAIN links /\ links[j.file].item = j.item

(* A deletion is asked for with the item whose files it has read.             *)
Removes(w) ==
    job[w].op = "remove" => asked[w].op = "remove" /\ asked[w].item = job[w].item

ReadSound ==
    /\ DOMAIN asked = Jobs /\ fresh \subseteq Jobs
    /\ \A w \in fresh : asked[w].op # "none"
    /\ \A w \in Jobs : asked[w].op # "none" => job[w] # Idle
    /\ \A w \in fresh : Current(asked[w])
    /\ \A w \in Jobs : Removes(w)

(* One job goes on, and not with a deletion.                                  *)
GoesOn(w) ==
    /\ job'[w].op # "remove"
    /\ job'[w].op \in scenario.operations \cup {"idle", "clean", "other", job[w].op}
    /\ \A v \in Jobs \ {w} : job'[v] = job[v]

LEMMA StartsGoOn ==
    ASSUME FilesInv, NEW w \in Jobs, Starts(w) \/ Attach(w) \/ StartReplace(w) \/ StartPrune(w)
    PROVE  GoesOn(w)
<1>1. \E j : Becomes(w, j) /\ j.op # "remove" /\ j.op \in scenario.operations
  <2>1. CASE StartMedia(w) \/ StartPhoto(w)
    <3>1. PICK op, content, target, seen :
              op \in Uploads /\ Request(w, op) /\ Becomes(w, Upload(op, content, target, seen))
      BY <2>1 DEF StartMedia, StartPhoto, Uploads
    <3> QED
      BY <3>1 DEF Upload, Uploads, Request
  <2>2. CASE StartErase(w)
    BY <2>2 DEF StartErase, Request
  <2>3. CASE SaveResume(w) \/ DiscardResume(w)
    <3>1. PICK op, r, value : op \in {"save", "discard"} /\ ResumeRequest(w, op, r, value)
      BY <2>3 DEF SaveResume, DiscardResume
    <3> QED
      BY <3>1 DEF ResumeRequest, Request
  <2>4. CASE Attach(w)
    BY <2>4 DEF Attach, Flushed, Request
  <2>5. CASE StartReplace(w)
    BY <2>5 DEF StartReplace, Request
  <2>6. CASE StartPrune(w)
    BY <2>6 DEF StartPrune
  <2> QED
    BY <2>1, <2>2, <2>3, <2>4, <2>5, <2>6 DEF Starts
<1> QED
  BY <1>1, BecomesRecord DEF GoesOn

(* Fields of a job's record are set.                                          *)
LEMMA FindsGoOn ==
    ASSUME FilesInv, NEW w \in Jobs, AwaitDuplicate(w) \/ FindDuplicate(w) \/ FindNothing(w)
    PROVE  GoesOn(w) /\ job'[w].op = job[w].op
<1>1. job[w].op \in Uploads
  BY DEF AwaitDuplicate, FindDuplicate, FindNothing, In
<1>2. job[w] \in UploadJobs(created, clock) /\ job = [v \in Jobs |-> job[v]]
  BY <1>1, UploadRecord, JobShape
<1>3. \/ \E f : job' = [job EXCEPT ![w].file = f]
      \/ \E f, held, phase : job' = [job EXCEPT ![w].file = f, ![w].locks = held, ![w].phase = phase]
  BY DEF AwaitDuplicate, FindDuplicate, FindNothing
<1>4. job'[w].op = job[w].op /\ \A v \in Jobs \ {w} : job'[v] = job[v]
  <2>1. CASE \E f : job' = [job EXCEPT ![w].file = f]
    <3>1. PICK f : job' = [job EXCEPT ![w].file = f]
      BY <2>1
    <3> QED
      BY <1>2, <3>1 DEF UploadJobs
  <2>2. CASE \E f, held, phase : job' = [job EXCEPT ![w].file = f, ![w].locks = held, ![w].phase = phase]
    <3>1. PICK f, held, phase :
              job' = [job EXCEPT ![w].file = f, ![w].locks = held, ![w].phase = phase]
      BY <2>2
    <3> QED
      BY <1>2, <3>1 DEF UploadJobs
  <2> QED
    BY <1>3, <2>1, <2>2
<1> QED
  BY <1>1, <1>4 DEF GoesOn, Uploads

LEMMA PutsGoOn ==
    ASSUME FilesInv, NEW w \in Jobs, PutMedia(w) \/ PutPhoto(w) \/ PutPrivate(w)
    PROVE  GoesOn(w) /\ job'[w].op = job[w].op
<1>1. In(w, Uploads \cup Attachments, "put") /\ job' = [job EXCEPT ![w].phase = "commit"]
  BY DEF PutMedia, PutPhoto, PutPrivate, PutObject, In, Uploads
<1>2. /\ job[w] \in UploadJobs(created, clock) \cup AttachJobs(created)
      /\ job = [v \in Jobs |-> job[v]]
  BY <1>1, PutIsNew, JobShape
<1>3. job'[w].op = job[w].op /\ job[w].op # "remove"
  BY <1>2, <1>1, SMTT(30) DEF UploadJobs, AttachJobs, Uploads, Attachments
<1> QED
  BY <1>1, <1>2, <1>3 DEF GoesOn

LEMMA PrunesGoOn ==
    ASSUME FilesInv, NEW w \in Jobs,
           PruneUsed(w) \/ PruneObject(w) \/ PruneFails(w) \/ PrunePhotos(w)
    PROVE  GoesOn(w) /\ job'[w].op = job[w].op
<1>1. job[w].op = "prune"
  BY DEF PruneUsed, PruneObject, PruneFails, PrunePhotos, NextOrphan, In
<1>2. job[w] \in PruneJobs(created) /\ job = [v \in Jobs |-> job[v]]
  BY <1>1, PruneRecord, JobShape
<1>3. CASE PrunePhotos(w)
  <2>1. job' = [job EXCEPT ![w].phase = "resume_private", ![w].queue = Batch("resume_private"),
                            ![w].locks = @ \cup Batch("resume_private")]
    BY <1>3 DEF PrunePhotos
  <2>2. job'[w].op = "prune" /\ \A v \in Jobs \ {w} : job'[v] = job[v]
    BY <1>2, <2>1 DEF PruneJobs
  <2> QED
    BY <1>1, <2>2 DEF GoesOn
<1>4. CASE PruneUsed(w) \/ PruneObject(w) \/ PruneFails(w)
  <2>1. PICK f, doomed, kept : Settle(w, f, doomed, kept)
    BY <1>4 DEF PruneUsed, PruneObject, PruneFails
  <2>2. job' = [job EXCEPT ![w].queue = @ \ {f}, ![w].doomed = @ \cup doomed,
                           ![w].kept = @ \cup kept]
    BY <2>1 DEF Settle
  <2>3. job'[w].op = "prune" /\ \A v \in Jobs \ {w} : job'[v] = job[v]
    BY <1>2, <2>2 DEF PruneJobs
  <2> QED
    BY <1>1, <2>3 DEF GoesOn
<1> QED
  BY <1>3, <1>4

LEMMA EndsGoOn ==
    ASSUME FilesInv, NEW w \in Jobs, Ends(w)
    PROVE  GoesOn(w) /\ job'[w] = Idle
  BY BecomesRecord, IdleRecord DEF Ends, GoesOn

LEMMA WorksGoOn ==
    ASSUME FilesInv, NEW w \in Jobs, Works(w) \/ Breaks(w)
    PROVE  GoesOn(w) /\ job'[w].op \in {"idle", job[w].op}
<1>1. CASE Ends(w)
  BY <1>1, EndsGoOn, IdleRecord
<1>2. CASE AwaitDuplicate(w) \/ FindDuplicate(w) \/ FindNothing(w)
  BY <1>2, FindsGoOn
<1>3. CASE Replace(w)
  <2>1. PICK j : Becomes(w, j) /\ j.op = "replace" /\ job[w].op = "replace"
    BY <1>3 DEF Replace, Flushed, In
  <2> QED
    BY <2>1, BecomesRecord DEF GoesOn
<1>4. \/ RollBack(w) \/ CommitMedia(w) \/ CommitPhoto(w) \/ CommitErase(w) \/ CommitResume(w)
      \/ CommitPrune(w) \/ Clean(w) \/ PutUnanswered(w) \/ Crash(w)
      => Ends(w)
  BY DEF RollBack, CommitMedia, CommitPhoto, CommitErase, CommitResume, CommitPrune, Clean,
         PutUnanswered, Crash
<1> QED
  BY <1>1, <1>2, <1>3, <1>4, PutsGoOn, PrunesGoOn DEF Works, Breaks

-----------------------------------------------------------------------------
(* What requests have read stays as it is until a commit                      *)

LEMMA CurrentRests ==
    ASSUME NEW v \in Jobs, NEW j, asked'[v] = j, Current(j),
           items' = items, links' = links, UNCHANGED knowledge
    PROVE  Current(asked[v])'
<1>1. /\ \A p : RelationsOf(p)' = RelationsOf(p) /\ Relatives(p)' = Relatives(p)
      /\ \A p : DatesOf(p)' = DatesOf(p) /\ PeopleOf(p)' = PeopleOf(p)
      /\ \A p, form : Neighbours(p, form)' = Neighbours(p, form)
  BY DEF RelationsOf, Relatives, DatesOf, PeopleOf, Neighbours, knowledge
<1>2. RelationsOf(j.item)' = RelationsOf(j.item) /\ PeopleOf(j.item)' = PeopleOf(j.item)
      /\ Around(j.item)' = Around(j.item)
      /\ Neighbours(j.item, j.form)' = Neighbours(j.item, j.form)
  BY <1>1 DEF Around
<1> QED
  BY <1>2 DEF Current, Around, Neighbours, RelationsOf, PeopleOf, Relatives, DatesOf, knowledge

LEMMA QuietReads ==
    ASSUME ReadSound, NEW w \in Jobs, Quietly(w), items' = items, links' = links,
           GoesOn(w)
    PROVE  ReadSound'
<1>1. /\ DOMAIN asked' = Jobs /\ fresh' \subseteq fresh
      /\ \A v \in fresh' : asked'[v] = asked[v]
      /\ \A v \in Jobs \ {w} : asked'[v] = asked[v]
  BY DEF Quietly, ReadSound, requests
<1>2. ASSUME NEW v \in fresh'
      PROVE  Current(asked[v])'
  <2>1. v \in Jobs /\ Current(asked[v]) /\ asked'[v] = asked[v]
    BY <1>1, <1>2 DEF ReadSound
  <2> QED
    BY <2>1, CurrentRests DEF Quietly
<1>3. ASSUME NEW v \in Jobs
      PROVE  Removes(v)'
  BY <1>1 DEF ReadSound, Removes, GoesOn
<1>4. job'[w] # Idle \/ asked'[w].op = "none"
  BY IdleRecord DEF Quietly, ReadSound, Nothing
<1> QED
  BY <1>1, <1>2, <1>3, <1>4 DEF ReadSound, GoesOn

LEMMA AskReads ==
    ASSUME ReadSound, NEW w \in Jobs, NEW what, Asks(w, what), Current(what),
           what.op # "none", job'[w] # Idle, items' = items, links' = links, UNCHANGED knowledge,
           \A v \in Jobs \ {w} : job'[v] = job[v],
           job'[w].op = "remove" => what.op = "remove" /\ what.item = job'[w].item
    PROVE  ReadSound'
<1>1. /\ DOMAIN asked' = Jobs /\ fresh' = fresh \cup {w} /\ asked'[w] = what
      /\ \A v \in Jobs : v # w => asked'[v] = asked[v]
  BY DEF Asks, ReadSound
<1>2. ASSUME NEW v \in fresh'
      PROVE  Current(asked[v])'
  <2>1. CASE v = w
    BY <1>1, <2>1, CurrentRests
  <2>2. CASE v # w
    <3>1. v \in Jobs /\ Current(asked[v]) /\ asked'[v] = asked[v]
      BY <1>1, <1>2, <2>2 DEF ReadSound
    <3> QED
      BY <3>1, CurrentRests
  <2> QED
    BY <2>1, <2>2
<1>3. ASSUME NEW v \in Jobs
      PROVE  Removes(v)'
  BY <1>1 DEF ReadSound, Removes
<1> QED
  BY <1>1, <1>2, <1>3 DEF ReadSound

LEMMA OvertakingReads ==
    ASSUME ReadSound, NEW w \in Jobs, Overtakes(w), GoesOn(w)
    PROVE  ReadSound'
<1>1. /\ DOMAIN asked' = Jobs /\ fresh' = {} /\ asked'[w].op = "none"
      /\ \A v \in Jobs \ {w} : asked'[v] = asked[v]
  BY DEF Overtakes, ReadSound, Nothing
<1> QED
  BY <1>1 DEF ReadSound, Removes, GoesOn

LEMMA RestReads ==
    ASSUME ReadSound, items' = items, links' = links, job' = job, UNCHANGED <<knowledge, requests>>
    PROVE  ReadSound'
<1>1. asked' = asked /\ fresh' = fresh
  BY DEF requests
<1>2. ASSUME NEW v \in fresh'
      PROVE  Current(asked[v])'
  BY <1>1, <1>2, CurrentRests DEF ReadSound
<1> QED
  BY <1>1, <1>2 DEF ReadSound, Removes

(* A request asks for what it has just read.                                  *)
LEMMA ReadingReads ==
    ASSUME FilesInv, ReadSound, NEW w \in Jobs, NEW op, Reads(w, op),
           NEW what, Asks(w, what), Current(what), what.op # "none"
    PROVE  ReadSound'
<1>1. job'[w].op = "other" /\ job'[w] # Idle /\ \A v \in Jobs \ {w} : job'[v] = job[v]
  BY BecomesRecord, IdleRecord DEF Reads
<1> QED
  BY <1>1, AskReads DEF Reads, Files

LEMMA FormsMutate ==
    ASSUME NEW p, NEW form \in Forms(p)
    PROVE  Mutated(form) \subseteq RelationsOf(p)
<1>1. PICK a \in AtMostOne("create", p), b \in AtMostOne("update", p), d \in AtMostOne("delete", p) :
          form = a \cup b \cup d
  BY DEF Forms
<1>2. \A c \in a \cup b \cup d : Valid(p, c)
  BY DEF AtMostOne
<1> QED
  BY <1>1, <1>2 DEF Mutated, Of, Valid

LEMMA StartsRead ==
    ASSUME FilesInv, ReadSound, NEW w \in Jobs, KnowledgeStarts(w)
    PROVE  ReadSound'
<1>1. CASE StartPerson(w)
  <2>1. PICK p \in items \cap People, labels \in SUBSET TagsPresent :
             \E form \in Forms(p), another \in scenario.naming :
           /\ Reads(w, "person")
           /\ Asks(w, [op |-> "person", now |-> Moment', item |-> p,
                       name |-> Given(p, another), labels |-> labels, form |-> form, near |-> Neighbours(p, form)])
    BY <1>1 DEF StartPerson
  <2>2. PICK form \in Forms(p), another \in scenario.naming :
           /\ Reads(w, "person")
           /\ Asks(w, [op |-> "person", now |-> Moment', item |-> p,
                       name |-> Given(p, another), labels |-> labels, form |-> form, near |-> Neighbours(p, form)])
    BY <2>1
  <2> DEFINE what == [op |-> "person", now |-> Moment', item |-> p,
                      name |-> Given(p, another), labels |-> labels, form |-> form, near |-> Neighbours(p, form)]
  <2>3. Current(what) /\ what.op # "none"
    BY FormsMutate DEF Current
  <2>4. Reads(w, "person") /\ Asks(w, what)
    BY <2>2
  <2> HIDE DEF what
  <2> QED
    BY <2>3, <2>4, ReadingReads
<1>2. CASE StartDate(w)
  <2>1. PICK d \in items \cap Dates, labels \in SUBSET TagsPresent,
             people \in SUBSET (items \cap People), another \in scenario.naming :
           /\ Reads(w, "date")
           /\ Asks(w, [op |-> "date", now |-> Moment', item |-> d,
                       name |-> Given(d, another), labels |-> labels, people |-> people, near |-> PeopleOf(d)])
    BY <1>2 DEF StartDate
  <2> DEFINE what == [op |-> "date", now |-> Moment', item |-> d,
                      name |-> Given(d, another), labels |-> labels, people |-> people, near |-> PeopleOf(d)]
  <2>2. Current(what) /\ what.op # "none"
    BY DEF Current
  <2>3. Reads(w, "date") /\ Asks(w, what)
    BY <2>1
  <2> HIDE DEF what
  <2> QED
    BY <2>2, <2>3, ReadingReads
<1>3. CASE StartTitle(w)
  <2>1. PICK f \in DOMAIN links :
           /\ Reads(w, "title")
           /\ Asks(w, [op |-> "title", now |-> Moment', file |-> f, item |-> links[f].item])
    BY <1>3 DEF StartTitle
  <2> DEFINE what == [op |-> "title", now |-> Moment', file |-> f, item |-> links[f].item]
  <2>2. Current(what) /\ what.op # "none"
    BY DEF Current
  <2>3. Reads(w, "title") /\ Asks(w, what)
    BY <2>1
  <2> HIDE DEF what
  <2> QED
    BY <2>2, <2>3, ReadingReads
<1>4. CASE DeletePerson(w) \/ DeleteDate(w)
  <2>1. PICK i : StartDelete(w, i, Around(i))
    BY <1>4, KnowledgeAssumption DEF DeletePerson, DeleteDate, Around
  <2> DEFINE what == [op |-> "remove", now |-> Moment', item |-> i, near |-> Around(i),
                      files |-> FilesOf(i)]
  <2>2. /\ Asks(w, what) /\ items' = items /\ links' = links /\ UNCHANGED knowledge
        /\ job'[w].item = i /\ job'[w] # Idle /\ \A v \in Jobs \ {w} : job'[v] = job[v]
    BY <2>1, BecomesRecord, IdleRecord DEF StartDelete, StartRemove, database
  <2>3. Current(what) /\ what.op = "remove" /\ what.item = i
    BY DEF Current
  <2> HIDE DEF what
  <2> QED
    BY <2>2, <2>3, AskReads
<1>5. CASE CreatePerson(w) \/ CreateDate(w) \/ CreateType(w)
  <2>1. Overtakes(w) /\ job' = job /\ job[w] = Idle
    BY <1>5 DEF CreatePerson, CreateDate, NewItem, CreateType, Request
  <2>2. GoesOn(w)
    BY <2>1, IdleRecord DEF GoesOn
  <2> QED
    BY <2>1, <2>2, OvertakingReads
<1>6. CASE \/ StartPeople(w) \/ StartReferences(w) \/ StartDates(w) \/ StartShow(w)
           \/ StartTag(w) \/ StartRename(w) \/ StartUntag(w) \/ StartRetype(w) \/ StartUntype(w)
  <2>1. \E op, what : /\ Reads(w, op) /\ Asks(w, what)
                      /\ what.op \notin {"person", "date", "remove", "title", "none"}
    <3>1. CASE StartPeople(w)
      BY <3>1 DEF StartPeople
    <3>2. CASE StartReferences(w)
      BY <3>2 DEF StartReferences
    <3>3. CASE StartDates(w)
      <4>1. PICK page : Reads(w, "list") /\ Asks(w, [op |-> "dates", page |-> page])
        BY <3>3 DEF StartDates
      <4> QED
        BY <4>1
    <3>4. CASE StartShow(w)
      <4>1. PICK p : Reads(w, "show") /\ Asks(w, [op |-> "relatives", item |-> p, page |-> Relatives(p)])
        BY <3>4 DEF StartShow
      <4> QED
        BY <4>1
    <3>5. CASE StartTag(w)
      BY <3>5 DEF StartTag
    <3>6. CASE StartRename(w)
      BY <3>6 DEF StartRename
    <3>7. CASE StartUntag(w)
      BY <3>7 DEF StartUntag
    <3>8. CASE StartRetype(w)
      BY <3>8 DEF StartRetype
    <3>9. CASE StartUntype(w)
      BY <3>9 DEF StartUntype
    <3> QED
      BY <1>6, <3>1, <3>2, <3>3, <3>4, <3>5, <3>6, <3>7, <3>8, <3>9
  <2>2. PICK op, what : /\ Reads(w, op) /\ Asks(w, what)
                        /\ what.op \notin {"person", "date", "remove", "title", "none"}
    BY <2>1
  <2>3. Current(what)
    BY <2>2 DEF Current
  <2> QED
    BY <2>2, <2>3, ReadingReads
<1> QED
  BY <1>1, <1>2, <1>3, <1>4, <1>5, <1>6 DEF KnowledgeStarts

LEMMA FileStartsRead ==
    ASSUME FilesInv, ReadSound, NEW w \in Jobs, StartFile(w) \/ Prunes(w)
    PROVE  ReadSound'
<1>1. CASE Starts(w) /\ Quietly(w)
  BY <1>1, StartsLeaveLinks, StartsGoOn, QuietReads
<1>2. CASE Prunes(w)
  BY <1>2, StartsLeaveLinks, StartsGoOn, QuietReads DEF Prunes
<1>3. CASE /\ Attach(w) \/ StartReplace(w)
           /\ Asks(w, [op |-> "file", now |-> Moment']) /\ UNCHANGED knowledge
  <2> DEFINE what == [op |-> "file", now |-> Moment']
  <2>1. Current(what) /\ what.op # "none"
    BY DEF Current
  <2>2. Asks(w, what) /\ items' = items /\ links' = links /\ UNCHANGED knowledge /\ GoesOn(w)
    BY <1>3, StartsLeaveLinks, StartsGoOn
  <2>3. job'[w] # Idle
    <3>1. \E j : Becomes(w, j) /\ j.op # "idle"
      <4>1. CASE Attach(w)
        BY <4>1 DEF Attach, Flushed
      <4>2. CASE StartReplace(w)
        BY <4>2 DEF StartReplace
      <4> QED
        BY <1>3, <4>1, <4>2
    <3> QED
      BY <3>1, BecomesRecord, IdleRecord
  <2> HIDE DEF what
  <2> QED
    BY <2>1, <2>2, <2>3, AskReads DEF GoesOn
<1> QED
  BY <1>1, <1>2, <1>3 DEF StartFile

LEMMA ServesRead ==
    ASSUME FilesInv, ReadSound, NEW w \in Jobs, Serves(w)
    PROVE  ReadSound'
<1>1. CASE ShowList(w)
  <2>1. Ends(w) /\ Quietly(w) /\ items' = items /\ links' = links
    BY <1>1 DEF ShowList, Files
  <2> QED
    BY <2>1, EndsGoOn, QuietReads
<1>2. CASE FillDates(w) \/ FillPerson(w)
  <2>1. PICK page : /\ asked' = [asked EXCEPT ![w] = [op |-> "list", page |-> page]]
                    /\ items' = items /\ links' = links /\ job' = job /\ fresh' = fresh
                    /\ UNCHANGED knowledge /\ job[w].op = "other"
    <3>1. CASE FillDates(w)
      BY <3>1 DEF FillDates, Continues, Files, In
    <3>2. CASE FillPerson(w)
      BY <3>2 DEF FillPerson, Continues, Files, In
    <3> QED
      BY <1>2, <3>1, <3>2
  <2>2. DOMAIN asked' = Jobs /\ \A v \in Jobs \ {w} : asked'[v] = asked[v]
    BY <2>1 DEF ReadSound
  <2>3. ASSUME NEW v \in fresh'
        PROVE  Current(asked[v])'
    <3>1. CASE v = w
      BY <2>1, <3>1 DEF ReadSound, Current
    <3>2. CASE v # w
      <4>1. v \in Jobs /\ Current(asked[v]) /\ asked'[v] = asked[v]
        BY <2>1, <2>2, <2>3, <3>2 DEF ReadSound
      <4> QED
        BY <2>1, <4>1, CurrentRests
    <3> QED
      BY <3>1, <3>2
  <2>4. \A v \in Jobs : Removes(v)'
    BY <2>1, <2>2 DEF ReadSound, Removes
  <2>5. job[w] # Idle /\ asked'[w].op = "list"
    BY <2>1, IdleRecord DEF ReadSound
  <2> QED
    BY <2>1, <2>2, <2>3, <2>4, <2>5 DEF ReadSound
<1>3. CASE Delete(w)
  <2>1. Overtakes(w) /\ \E files : Cleans(w, files)
    BY <1>3 DEF Delete, CommitRemove
  <2>2. GoesOn(w)
    BY <2>1, BecomesRecord DEF Cleans, GoesOn
  <2> QED
    BY <2>1, <2>2, OvertakingReads
<1>4. CASE \E op : Writes(w, op)
  BY <1>4, EndsGoOn, OvertakingReads DEF Writes
<1>5. \/ SavePerson(w) \/ SaveDate(w) \/ AddTag(w) \/ Rename(w) \/ Untag(w) \/ Retype(w)
      \/ Untype(w) \/ Title(w)
      => \E op : Writes(w, op)
  BY DEF SavePerson, SaveDate, UpdatesItem, AddTag, Rename, Untag, Retype, Untype, Title
<1> QED
  BY <1>1, <1>2, <1>3, <1>4, <1>5 DEF Serves

LEMMA AttachedReads ==
    ASSUME FilesInv, ReadSound, NEW w \in Jobs,
           Detached(w) \/ ((CommitAttach(w) \/ CommitUnanswered(w)) /\ Attached(w))
    PROVE  ReadSound'
<1>1. Overtakes(w) /\ (Ends(w) \/ \E files : Cleans(w, files))
  <2>1. CASE Detached(w)
    <3>1. PICK f : Unlink(w, f)
      BY <2>1 DEF Detached, Detach, DeleteAttachment, DeletePersonPhoto
    <3> QED
      BY <2>1, <3>1 DEF Detached, Unlink
  <2>2. CASE (CommitAttach(w) \/ CommitUnanswered(w)) /\ Attached(w)
    BY <2>2 DEF CommitAttach, CommitUnanswered, Attached
  <2> QED
    BY <2>1, <2>2
<1>2. GoesOn(w)
  <2>1. ASSUME NEW files, Cleans(w, files)
        PROVE  job'[w].op = "clean" /\ \A v \in Jobs \ {w} : job'[v] = job[v]
    BY <2>1, BecomesRecord DEF Cleans
  <2> QED
    BY <1>1, <2>1, EndsGoOn DEF GoesOn
<1> QED
  BY <1>1, <1>2, OvertakingReads

LEMMA KnowledgeReads ==
    ASSUME FilesInv, ReadSound, KnowledgeNext
    PROVE  ReadSound'
<1>1. CASE \/ Tick /\ UNCHANGED <<knowledge, requests>>
           \/ (\E r \in Resumes : CreateResume(r)) /\ UNCHANGED <<knowledge, requests>>
  <2>1. items' = items /\ links' = links /\ job' = job
    BY <1>1 DEF Tick, CreateResume, database
  <2> QED
    BY <1>1, <2>1, RestReads
<1>2. ASSUME NEW w \in Jobs, StartFile(w) \/ Prunes(w) \/ KnowledgeStarts(w) \/ Serves(w)
      PROVE  ReadSound'
  BY <1>2, FileStartsRead, StartsRead, ServesRead
<1>3. ASSUME NEW w \in Jobs, (Works(w) \/ Breaks(w)) /\ Quietly(w)
      PROVE  ReadSound'
  BY <1>3, WorksLeaveLinks, BreaksLeaveLinks, WorksGoOn, QuietReads
<1> QED
  BY <1>1, <1>2, <1>3, AttachedReads DEF KnowledgeNext, Advances

LEMMA AgendaReads ==
    ASSUME FilesInv, ReadSound, [AgendaNext]_agendaVars
    PROVE  ReadSound'
<1>1. CASE KnowledgeNext
  BY <1>1, KnowledgeReads
<1>2. ASSUME NEW w \in Jobs, AskEvent(w) \/ AskCalendar(w) \/ AskOverview(w)
      PROVE  ReadSound'
  <2>1. PICK op, what : Reads(w, op) /\ Asks(w, what) /\ what.op \in {"event", "list"}
    <3>1. CASE AskEvent(w)
      BY <3>1 DEF AskEvent
    <3>2. CASE AskCalendar(w)
      <4>1. PICK window : Reads(w, "calendar") /\ Asks(w, Occurrences(window))
        BY <3>2 DEF AskCalendar
      <4>2. Occurrences(window).op = "list"
        BY DEF Occurrences
      <4> QED
        BY <4>1, <4>2
    <3>3. CASE AskOverview(w)
      <4>1. PICK reference, both : Reads(w, "overview") /\ Asks(w, Overview(reference, both))
        BY <3>3 DEF AskOverview
      <4>2. Overview(reference, both).op = "list"
        BY DEF Overview
      <4> QED
        BY <4>1, <4>2
    <3> QED
      BY <1>2, <3>1, <3>2, <3>3
  <2>2. Current(what)
    BY <2>1 DEF Current
  <2> QED
    BY <2>1, <2>2, ReadingReads
<1>3. ASSUME NEW w \in Jobs, WriteEvent(w)
      PROVE  ReadSound'
  BY <1>3, EndsGoOn, OvertakingReads DEF WriteEvent, Writes
<1>4. CASE UNCHANGED allVars
  BY <1>4, RestReads DEF allVars, vars, database
<1> QED
  BY <1>1, <1>2, <1>3, <1>4 DEF AgendaNext, ChangeZone, agendaVars

LEMMA ReadsInit ==
    ASSUME AgendaInit
    PROVE  ReadSound
<1>1. asked = [w \in Jobs |-> Nothing] /\ fresh = {} /\ job = [w \in Jobs |-> Idle]
  BY DEF AgendaInit, KnowledgeInit, Init
<1> QED
  BY <1>1, IdleRecord DEF ReadSound, Removes, Nothing

LEMMA ReadsAlways == AgendaSpec => []ReadSound
<1>1. FilesInv /\ ReadSound /\ [AgendaNext]_agendaVars => ReadSound'
  BY AgendaReads
<1> QED
  BY <1>1, ReadsInit, FilesAlways, PTL DEF AgendaSpec

-----------------------------------------------------------------------------
(* Types *)

(* What a behaviour may take is not exceeded.                                 *)
Paced ==
    /\ scenario \in Scenarios
    /\ left \in 0..scenario.requests /\ faults \in 0..scenario.faults
    /\ clock \in 0..scenario.time /\ created \in 0..scenario.files
    /\ lost \cup stray \subseteq 1..created
    /\ \A w \in Jobs : job[w].op \in scenario.operations \cup {"idle", "clean", "other"}

TablesType ==
    /\ tied \in Nat /\ DOMAIN relations \subseteq 1..tied
    /\ \A r \in DOMAIN relations :
          relations[r] \in [from : People, to : People, type : Types]
    /\ dated \subseteq Dates \X People /\ tagging \subseteq Items \X Tags
    /\ tags \in [Tags -> Names \cup {Absent, Gone}]
    /\ types \subseteq typed /\ typed \subseteq Types /\ symmetric \subseteq types
    /\ DOMAIN renamed \subseteq 1..created /\ \A f \in DOMAIN renamed : renamed[f] \in 1..Moment
    /\ named \in [Items -> 0..Moment] /\ touched \in [Items -> {Absent, Gone} \cup 0..Moment]
    /\ items = {i \in Items : touched[i] >= 0}

(* What a request was given, of which its writes make rows.                   *)
AskedAt(j, n) ==
    /\ j.op \in {"person", "date", "remove", "file", "title"} => j.now \in 1..n
    /\ j.op \in {"person", "date"} => j.name \in 0..n
    /\ j.op = "person" =>
          /\ j.item \in People /\ j.labels \subseteq Tags
          /\ \A c \in Named(j.form) : c.other \in People
          /\ \A c, d \in Of(j.form, "create") : c = d
    /\ j.op = "date" => j.item \in Dates /\ j.people \subseteq People /\ j.labels \subseteq Tags
    /\ j.op \in {"tag", "rename"} => j.name \in Names
    /\ j.op = "event" => j.change \in {"create", "update", "resend", "delete"}

AskedType(j) == AskedAt(j, Moment)

AskedTypes ==
    /\ DOMAIN asked = Jobs
    /\ \A w \in Jobs : AskedType(asked[w])
    /\ \A w \in Jobs : job[w].op \in Attachments => asked[w].op = "file"

(* Time goes on: what has its id, or its moment, keeps it.                    *)
Onward ==
    /\ scenario' = scenario
    /\ created \in Nat /\ created' \in Nat /\ created <= created'
    /\ Moment \in Nat /\ Moment' \in Nat /\ Moment <= Moment'

LEMMA Paces ==
    ASSUME Paced, NEW w \in Jobs, (\E op : Request(w, op)) \/ Fault \/ Later,
           created' = created \/ Create, lost' \cup stray' \subseteq lost \cup stray \cup 1..created,
           \A v \in Jobs \ {w} : job'[v] = job[v],
           job'[w].op \in scenario.operations \cup {"idle", "clean", "other", job[w].op}
    PROVE  Paced' /\ Onward
<1>1. /\ scenario.requests \in Nat /\ scenario.files \in Nat /\ scenario.time \in Nat
      /\ scenario.faults \in Nat
  BY FilesAssumption DEF Paced
<1>2. /\ scenario' = scenario /\ clock' = clock
      /\ left' \in 0..scenario.requests /\ left' <= left /\ faults' \in 0..scenario.faults
  <2>1. CASE \E op : Request(w, op)
    BY <1>1, <2>1 DEF Request, Paced
  <2>2. CASE Fault
    BY <1>1, <2>2 DEF Fault, Paced
  <2>3. CASE Later
    BY <1>1, <2>3 DEF Later, bounds, Paced
  <2> QED
    BY <2>1, <2>2, <2>3
<1>3. created' \in 0..scenario.files /\ created <= created'
  BY <1>1 DEF Create, Paced
<1>4. 1..created \subseteq 1..created'
  BY <1>1, <1>3 DEF Paced
<1>5. Onward
  BY <1>1, <1>2, <1>3 DEF Onward, Moment, Paced
<1>6. \A v \in Jobs : job'[v].op \in scenario.operations \cup {"idle", "clean", "other"}
  BY DEF Paced
<1> QED
  BY <1>1, <1>2, <1>3, <1>4, <1>5, <1>6 DEF Paced

(* What a failure leaves to be counted has an id.                             *)
LEMMA FailuresKnown ==
    ASSUME FilesInv, NEW w \in Jobs,
           \/ RollBack(w) \/ PutUnanswered(w) \/ CommitUnanswered(w) \/ Crash(w)
           \/ PruneFails(w)
    PROVE  lost' \cup stray' \subseteq lost \cup stray \cup 1..created
<1>1. /\ job[w] \in JobRecords(created, clock) /\ created \in Nat
      /\ job[w].locks \subseteq 1..created
  BY JobShape
<1>2. Creates(w) => job[w].file \in 1..created
  BY <1>1, CreatesLocked
<1>3. Unowned(job[w]) \subseteq 1..created
  BY <1>2 DEF Unowned, Creates
<1>4. CASE RollBack(w)
  <2>1. job[w].op = "erase" => job[w].file \in 1..created
    BY <1>1, Shapes DEF EraseJobs
  <2> QED
    BY <1>3, <1>4, <2>1 DEF RollBack
<1>5. CASE PutUnanswered(w)
  BY <1>2, <1>5 DEF PutUnanswered, In, Creates
<1>6. CASE CommitUnanswered(w)
  <2>1. job[w].op \in Attachments /\ job[w].phase = "commit"
    BY <1>6 DEF CommitUnanswered, In
  <2>2. job[w].dropped \subseteq 1..created
    BY <1>1, <2>1, Shapes DEF ListJobs, AttachJobs
  <2> QED
    BY <1>2, <1>6, <2>1, <2>2 DEF CommitUnanswered, Creates
<1>7. CASE Crash(w)
  <2>1. job[w].op \in {"clean", "prune"} => job[w].doomed \subseteq 1..created
    BY <1>1, Shapes DEF CleanJobs, PruneJobs
  <2> QED
    BY <1>3, <1>7, <2>1 DEF Crash
<1>8. CASE PruneFails(w)
  <2>1. PICK f \in NextOrphan(w) : lost' \in {lost, lost \cup {f}} /\ stray' = stray
    BY <1>8 DEF PruneFails, Settle
  <2>2. job[w].op = "prune" /\ f \in job[w].queue
    BY DEF NextOrphan
  <2>3. job[w].queue \subseteq 1..created
    BY <1>1, <2>2, Shapes DEF PruneJobs
  <2> QED
    BY <2>1, <2>2, <2>3
<1> QED
  BY <1>4, <1>5, <1>6, <1>7, <1>8

(* The steps of files in a request that go on with it. *)
LEMMA WorksPace ==
    ASSUME FilesInv, Paced, NEW w \in Jobs, Works(w) \/ Breaks(w)
    PROVE  Paced' /\ Onward
<1>1. GoesOn(w)
  BY WorksGoOn
<1>2. Later \/ Fault
  BY DEF Works, Breaks, RollBack, AwaitDuplicate, FindDuplicate, FindNothing, PutMedia, PutPhoto,
         PutPrivate, PutObject, CommitMedia, CommitPhoto, CommitErase, CommitResume, PruneUsed,
         PruneObject, PruneFails, PrunePhotos, CommitPrune, Replace, Clean, PutUnanswered, Crash
<1>3. created' = created \/ Create
  BY DEF Works, Breaks, RollBack, AwaitDuplicate, FindDuplicate, FindNothing, PutMedia, PutPhoto,
         PutPrivate, PutObject, CommitMedia, CommitPhoto, CommitErase, CommitResume, PruneUsed,
         PruneObject, PruneFails, PrunePhotos, CommitPrune, Replace, Flushed, Clean,
         PutUnanswered, Crash, Settle
<1>4. lost' \cup stray' \subseteq lost \cup stray \cup 1..created
  <2>1. CASE RollBack(w) \/ PutUnanswered(w) \/ Crash(w) \/ PruneFails(w)
    BY <2>1, FailuresKnown
  <2>2. CASE ~(RollBack(w) \/ PutUnanswered(w) \/ Crash(w) \/ PruneFails(w))
    <3>1. lost' = lost /\ stray' = stray
      BY <2>2 DEF Works, Breaks, AwaitDuplicate, FindDuplicate, FindNothing, PutMedia, PutPhoto,
             PutPrivate, PutObject, CommitMedia, CommitPhoto, CommitErase, CommitResume, PruneUsed,
             PruneObject, PrunePhotos, CommitPrune, Replace, Flushed, Clean, Settle, history
    <3> QED
      BY <3>1
  <2> QED
    BY <2>1, <2>2
<1> QED
  BY <1>1, <1>2, <1>3, <1>4, Paces DEF GoesOn

LEMMA StartsPace ==
    ASSUME FilesInv, Paced, NEW w \in Jobs,
           Starts(w) \/ Attach(w) \/ StartReplace(w) \/ StartPrune(w)
    PROVE  Paced' /\ Onward
<1>1. GoesOn(w)
  BY StartsGoOn
<1>2. /\ (\E op : Request(w, op)) \/ Later
      /\ created' = created \/ Create
      /\ lost' = lost /\ stray' = stray
  BY DEF Starts, StartMedia, StartPhoto, StartErase, SaveResume, DiscardResume, ResumeRequest,
         Attach, Flushed, StartReplace, StartPrune, history
<1> QED
  BY <1>1, <1>2, Paces DEF GoesOn

LEMMA ReadsPace ==
    ASSUME FilesInv, Paced, NEW w \in Jobs, NEW op, Reads(w, op) \/ Writes(w, op)
    PROVE  Paced' /\ Onward
<1>1. /\ Request(w, op) \/ Later
      /\ created' = created /\ lost' = lost /\ stray' = stray
      /\ \E j : Becomes(w, j) /\ j.op \in {"other", "idle"}
  BY IdleRecord DEF Reads, Writes, Files, Ends, history
<1> QED
  BY <1>1, BecomesRecord, Paces

LEMMA KnowledgeStartsPace ==
    ASSUME FilesInv, Paced, NEW w \in Jobs, KnowledgeStarts(w)
    PROVE  Paced' /\ Onward
<1>1. CASE \E op : Reads(w, op)
  BY <1>1, ReadsPace
<1>2. CASE DeletePerson(w) \/ DeleteDate(w)
  <2>1. PICK i : StartRemove(w, i)
    BY <1>2 DEF DeletePerson, DeleteDate, StartDelete
  <2>2. PICK j : Becomes(w, j) /\ j.op = "remove"
    BY <2>1 DEF StartRemove
  <2>3. Request(w, "remove") /\ created' = created /\ lost' = lost /\ stray' = stray
        /\ "remove" \in scenario.operations
    BY <2>1 DEF StartRemove, history, Request
  <2> QED
    BY <2>2, <2>3, BecomesRecord, Paces
<1>3. CASE CreatePerson(w) \/ CreateDate(w) \/ CreateType(w)
  <2>1. (\E op : Request(w, op)) /\ job' = job /\ created' = created /\ lost' = lost /\ stray' = stray
    BY <1>3 DEF CreatePerson, CreateDate, NewItem, CreateType, Files, history
  <2> QED
    BY <2>1, Paces
<1>4. \/ StartPerson(w) \/ StartDate(w) \/ StartPeople(w) \/ StartReferences(w)
      \/ StartDates(w) \/ StartShow(w) \/ StartTag(w) \/ StartRename(w) \/ StartUntag(w)
      \/ StartRetype(w) \/ StartUntype(w) \/ StartTitle(w)
      => \E op : Reads(w, op)
  BY DEF StartPerson, StartDate, StartPeople, StartReferences, StartDates, StartShow, StartTag,
         StartRename, StartUntag, StartRetype, StartUntype, StartTitle
<1> QED
  BY <1>1, <1>2, <1>3, <1>4 DEF KnowledgeStarts

LEMMA ServesPace ==
    ASSUME FilesInv, Paced, NEW w \in Jobs, Serves(w)
    PROVE  Paced' /\ Onward
<1>1. CASE Delete(w)
  <2>1. PICK j : Becomes(w, j) /\ j.op = "clean"
    BY <1>1 DEF Delete, CommitRemove, Cleans
  <2>2. Later /\ created' = created /\ lost' = lost /\ stray' = stray
    BY <1>1 DEF Delete, CommitRemove, history
  <2> QED
    BY <2>1, <2>2, BecomesRecord, Paces
<1>2. CASE FillDates(w) \/ FillPerson(w)
  <2>1. Later /\ created' = created /\ lost' = lost /\ stray' = stray /\ job' = job
    BY <1>2 DEF FillDates, FillPerson, Continues, Files, history
  <2> QED
    BY <2>1, Paces
<1>3. CASE ShowList(w)
  <2>1. Later /\ created' = created /\ lost' = lost /\ stray' = stray /\ Ends(w)
    BY <1>3 DEF ShowList, Files, history
  <2> QED
    BY <2>1, EndsGoOn, Paces DEF GoesOn
<1>4. CASE \E op : Writes(w, op)
  BY <1>4, ReadsPace
<1>5. \/ SavePerson(w) \/ SaveDate(w) \/ AddTag(w) \/ Rename(w) \/ Untag(w) \/ Retype(w)
      \/ Untype(w) \/ Title(w)
      => \E op : Writes(w, op)
  BY DEF SavePerson, SaveDate, UpdatesItem, AddTag, Rename, Untag, Retype, Untype, Title
<1> QED
  BY <1>1, <1>2, <1>3, <1>4, <1>5 DEF Serves

LEMMA AttachedPace ==
    ASSUME FilesInv, Paced, NEW w \in Jobs,
           Detached(w) \/ CommitAttach(w) \/ CommitUnanswered(w)
    PROVE  Paced' /\ Onward
<1>1. \E j : Becomes(w, j) /\ j.op \in {"idle", "clean"}
  <2>1. CASE Detached(w)
    <3>1. PICK f : Unlink(w, f)
      BY <2>1 DEF Detached, Detach, DeleteAttachment, DeletePersonPhoto
    <3> QED
      BY <3>1 DEF Unlink, Cleans
  <2>2. CASE CommitAttach(w)
    BY <2>2 DEF CommitAttach, Cleans
  <2>3. CASE CommitUnanswered(w)
    BY <2>3, IdleRecord DEF CommitUnanswered, Ends
  <2> QED
    BY <2>1, <2>2, <2>3
<1>2. /\ (\E op : Request(w, op)) \/ Fault \/ Later
      /\ created' = created
  BY DEF Detached, Detach, DeleteAttachment, DeletePersonPhoto, Unlink, CommitAttach, CommitUnanswered
<1>3. lost' \cup stray' \subseteq lost \cup stray \cup 1..created
  <2>1. CASE CommitUnanswered(w)
    BY <2>1, FailuresKnown
  <2>2. CASE Detached(w) \/ CommitAttach(w)
    BY <2>2 DEF Detached, Detach, DeleteAttachment, DeletePersonPhoto, Unlink, CommitAttach, history
  <2> QED
    BY <2>1, <2>2
<1> QED
  BY <1>1, <1>2, <1>3, BecomesRecord, Paces

LEMMA PaceStep ==
    ASSUME FilesInv, Paced, [AgendaNext]_agendaVars
    PROVE  Paced' /\ Onward
<1>1. CASE \E w \in Jobs : Starts(w) \/ Attach(w) \/ StartReplace(w) \/ StartPrune(w)
  BY <1>1, StartsPace
<1>2. CASE \E w \in Jobs : Works(w) \/ Breaks(w)
  BY <1>2, WorksPace
<1>3. CASE \E w \in Jobs : Detached(w) \/ CommitAttach(w) \/ CommitUnanswered(w)
  BY <1>3, AttachedPace
<1>4. CASE \E w \in Jobs : KnowledgeStarts(w) \/ Serves(w)
  BY <1>4, KnowledgeStartsPace, ServesPace
<1>5. CASE \E w \in Jobs : AskEvent(w) \/ WriteEvent(w) \/ AskCalendar(w) \/ AskOverview(w)
  <2>1. \E w \in Jobs : \E op : Reads(w, op) \/ Writes(w, op)
    BY <1>5 DEF AskEvent, WriteEvent, AskCalendar, AskOverview
  <2> QED
    BY <2>1, ReadsPace
<1>6. CASE Tick \/ (\E r \in Resumes : CreateResume(r)) \/ UNCHANGED allVars
  <2>1. /\ UNCHANGED <<bounds, created, lost, stray>> /\ job' = job
        /\ clock' = clock \/ (clock < scenario.time /\ clock' = clock + 1)
    BY <1>6 DEF Tick, CreateResume, allVars, vars, history
  <2>2. scenario.time \in Nat /\ scenario.requests \in Nat /\ scenario.files \in Nat
    BY FilesAssumption DEF Paced
  <2>3. clock' \in 0..scenario.time /\ scenario' = scenario /\ left' = left /\ faults' = faults
    BY <2>1, <2>2 DEF bounds, Paced
  <2>4. Onward
    BY <2>1, <2>2, <2>3 DEF Onward, Moment, Paced
  <2> QED
    BY <2>1, <2>3, <2>4 DEF Paced
<1> QED
  BY <1>1, <1>2, <1>3, <1>4, <1>5, <1>6
     DEF AgendaNext, KnowledgeNext, ChangeZone, agendaVars, StartFile, Prunes, Advances

-----------------------------------------------------------------------------
(* A request's moment is one of those that have been.                         *)
LEMMA AskedGrows ==
    ASSUME NEW v \in Jobs, NEW j, asked'[v] = j, Onward,
           AskedType(j) \/ AskedAt(j, Moment')
    PROVE  AskedType(asked[v])'
<1>1. 1..Moment \subseteq 1..Moment' /\ 0..Moment \subseteq 0..Moment'
  BY DEF Onward
<1>2. /\ Named(j.form)' = Named(j.form) /\ Of(j.form, "create")' = Of(j.form, "create")
  BY DEF Named, Of
<1> QED
  BY <1>1, <1>2 DEF AskedType, AskedAt, Named, Of

LEMMA TablesGrow ==
    ASSUME TablesType, Onward, UNCHANGED knowledge, items' = items
    PROVE  TablesType'
<1>1. 1..Moment \subseteq 1..Moment' /\ 0..Moment \subseteq 0..Moment' /\ 1..created \subseteq 1..created'
  BY DEF Onward
<1> QED
  BY <1>1 DEF TablesType, knowledge

(* One job's request, and none of the others. *)
LEMMA AskedStep ==
    ASSUME AskedTypes, Onward, NEW w \in Jobs, NEW what, AskedAt(what, Moment'),
           asked' = [asked EXCEPT ![w] = what], \A v \in Jobs \ {w} : job'[v] = job[v],
           job'[w].op \in Attachments => what.op = "file"
    PROVE  AskedTypes'
<1>1. DOMAIN asked' = Jobs /\ asked'[w] = what /\ \A v \in Jobs \ {w} : asked'[v] = asked[v]
  BY DEF AskedTypes
<1>2. ASSUME NEW v \in Jobs
      PROVE  AskedType(asked[v])'
  <2>1. CASE v = w
    BY <1>1, <2>1, AskedGrows
  <2>2. CASE v # w
    <3>1. AskedType(asked[v]) /\ asked'[v] = asked[v]
      BY <1>1, <2>2 DEF AskedTypes
    <3> QED
      BY <3>1, AskedGrows
  <2> QED
    BY <2>1, <2>2
<1>3. \A v \in Jobs : job'[v].op \in Attachments => asked'[v].op = "file"
  BY <1>1 DEF AskedTypes
<1> QED
  BY <1>1, <1>2, <1>3 DEF AskedTypes

LEMMA AskedStays ==
    ASSUME AskedTypes, Onward, UNCHANGED asked,
           \A v \in Jobs : job'[v].op \in Attachments => job[v].op \in Attachments
    PROVE  AskedTypes'
<1>1. \A v \in Jobs : AskedType(asked[v])'
  BY AskedGrows DEF AskedTypes
<1> QED
  BY <1>1 DEF AskedTypes

LEMMA NothingAsked == \A n : AskedAt(Nothing, n) /\ Nothing.op = "none"
  BY DEF AskedAt, Nothing

Typed == TablesType /\ AskedTypes

LEMMA QuietTypes ==
    ASSUME Typed, Onward, NEW w \in Jobs, Quietly(w), items' = items,
           \A v \in Jobs \ {w} : job'[v] = job[v],
           job'[w].op \in Attachments => job[w].op \in Attachments
    PROVE  Typed'
<1>1. TablesType'
  BY TablesGrow DEF Typed, Quietly
<1>2. CASE job'[w].op \in {"idle", "clean"}
  <2>1. asked' = [asked EXCEPT ![w] = Nothing]
    BY <1>2 DEF Quietly
  <2> QED
    BY <1>1, <1>2, <2>1, AskedStep, NothingAsked DEF Typed, Attachments
<1>3. CASE job'[w].op \notin {"idle", "clean"}
  BY <1>1, <1>3, AskedStays DEF Typed, Quietly, requests
<1> QED
  BY <1>2, <1>3

LEMMA AskTypes ==
    ASSUME Typed, Onward, NEW w \in Jobs, NEW what, Asks(w, what), AskedAt(what, Moment'),
           items' = items, UNCHANGED knowledge,
           \A v \in Jobs \ {w} : job'[v] = job[v],
           job'[w].op \in Attachments => what.op = "file"
    PROVE  Typed'
  BY TablesGrow, AskedStep DEF Typed, Asks

LEMMA ReadingTypes ==
    ASSUME FilesInv, Typed, Onward, NEW w \in Jobs, NEW op, Reads(w, op), NEW what, Asks(w, what),
           AskedAt(what, Moment')
    PROVE  Typed'
<1>1. job'[w].op = "other" /\ \A v \in Jobs \ {w} : job'[v] = job[v]
  BY BecomesRecord DEF Reads
<1> QED
  BY <1>1, AskTypes DEF Reads, Attachments

LEMMA OvertakingTypes ==
    ASSUME Typed, Onward, NEW w \in Jobs, Overtakes(w), TablesType',
           \A v \in Jobs \ {w} : job'[v] = job[v], job'[w].op \notin Attachments
    PROVE  Typed'
  BY AskedStep, NothingAsked DEF Typed, Overtakes

(* The moment of a request that begins. *)
LEMMA MomentComes ==
    ASSUME Paced, NEW w \in Jobs, NEW op, Request(w, op)
    PROVE  Moment' \in 1..Moment' /\ 1..Moment' \subseteq Nat
<1>1. scenario.requests \in Nat /\ left \in 0..scenario.requests
  BY FilesAssumption DEF Paced
<1> QED
  BY <1>1 DEF Request, Moment

LEMMA GivenKnown ==
    ASSUME Typed, Onward, NEW i \in Items, NEW another, Moment' \in 1..Moment'
    PROVE  Given(i, another) \in 0..Moment'
<1>1. 0..Moment \subseteq 0..Moment' /\ 1..Moment' \subseteq 0..Moment'
  BY DEF Onward
<1>2. named[i] \in 0..Moment
  BY DEF Typed, TablesType
<1> QED
  BY <1>1, <1>2 DEF Given

LEMMA ChangesOp ==
    ASSUME NEW op, NEW c \in Changes(op)
    PROVE  c.op = op
BY DEF Changes

LEMMA FormsSingle ==
    ASSUME NEW p, NEW form \in Forms(p)
    PROVE  \A c, d \in Of(form, "create") : c = d
<1>1. PICK a \in AtMostOne("create", p), b \in AtMostOne("update", p), d \in AtMostOne("delete", p) :
          form = a \cup b \cup d
  BY DEF Forms
<1>2. /\ \A c \in b : c.op = "update"
      /\ \A c \in d : c.op = "delete"
      /\ \A c, e \in a : c = e
  BY ChangesOp DEF AtMostOne
<1> QED
  BY <1>1, <1>2 DEF Of

LEMMA StartsType ==
    ASSUME FilesInv, Paced, Typed, Onward, NEW w \in Jobs, KnowledgeStarts(w)
    PROVE  Typed'
<1>1. CASE StartPerson(w)
  <2>1. PICK p \in items \cap People, labels \in SUBSET TagsPresent :
             \E form \in Forms(p), another \in scenario.naming :
           /\ Reads(w, "person")
           /\ Asks(w, [op |-> "person", now |-> Moment', item |-> p,
                       name |-> Given(p, another), labels |-> labels, form |-> form, near |-> Neighbours(p, form)])
    BY <1>1 DEF StartPerson
  <2>2. PICK form \in Forms(p), another \in scenario.naming :
           /\ Reads(w, "person")
           /\ Asks(w, [op |-> "person", now |-> Moment', item |-> p,
                       name |-> Given(p, another), labels |-> labels, form |-> form, near |-> Neighbours(p, form)])
    BY <2>1
  <2>3. Request(w, "person")
    BY <2>2 DEF Reads
  <2>4. PICK now : now = Moment'
    OBVIOUS
  <2> PICK name : name = Given(p, another)
    OBVIOUS
  <2>5. PICK what : what = [op |-> "person", now |-> now, item |-> p, name |-> name,
                            labels |-> labels, form |-> form, near |-> Neighbours(p, form)]
    OBVIOUS
  <2>6. Asks(w, what)
    BY <2>2, <2>4, <2>5
  <2>7. p \in People /\ labels \subseteq Tags /\ now \in 1..Moment' /\ name \in 0..Moment'
    BY <2>3, <2>4, MomentComes, GivenKnown, KnowledgeAssumption DEF TagsPresent
  <2>8. AskedAt(what, Moment')
    BY <2>5, <2>7, FormsValid, FormsSingle DEF AskedAt
  <2> QED
    BY <2>2, <2>6, <2>8, ReadingTypes
<1>2. CASE StartDate(w)
  <2>1. PICK d \in items \cap Dates, labels \in SUBSET TagsPresent,
             people \in SUBSET (items \cap People), another \in scenario.naming :
           /\ Reads(w, "date")
           /\ Asks(w, [op |-> "date", now |-> Moment', item |-> d,
                       name |-> Given(d, another), labels |-> labels, people |-> people, near |-> PeopleOf(d)])
    BY <1>2 DEF StartDate
  <2>2. Request(w, "date")
    BY <2>1 DEF Reads
  <2>3. PICK now : now = Moment'
    OBVIOUS
  <2> PICK name : name = Given(d, another)
    OBVIOUS
  <2>4. PICK what : what = [op |-> "date", now |-> now, item |-> d, name |-> name,
                            labels |-> labels, people |-> people, near |-> PeopleOf(d)]
    OBVIOUS
  <2>5. Asks(w, what)
    BY <2>1, <2>3, <2>4
  <2>6. now \in 1..Moment' /\ labels \subseteq Tags /\ name \in 0..Moment'
    BY <2>2, <2>3, MomentComes, GivenKnown, KnowledgeAssumption DEF TagsPresent
  <2>7. AskedAt(what, Moment')
    BY <2>4, <2>6 DEF AskedAt
  <2> QED
    BY <2>1, <2>5, <2>7, ReadingTypes
<1>3. CASE StartTitle(w)
  <2>1. PICK f \in DOMAIN links :
           /\ Reads(w, "title")
           /\ Asks(w, [op |-> "title", now |-> Moment', file |-> f, item |-> links[f].item])
    BY <1>3 DEF StartTitle
  <2>2. Request(w, "title")
    BY <2>1 DEF Reads
  <2>3. PICK now : now = Moment'
    OBVIOUS
  <2>4. PICK what : what = [op |-> "title", now |-> now, file |-> f, item |-> links[f].item]
    OBVIOUS
  <2>5. Asks(w, what)
    BY <2>1, <2>3, <2>4
  <2>6. AskedAt(what, Moment')
    BY <2>2, <2>3, <2>4, MomentComes DEF AskedAt
  <2> QED
    BY <2>1, <2>5, <2>6, ReadingTypes
<1>4. CASE DeletePerson(w) \/ DeleteDate(w)
  <2>1. PICK i, around : StartDelete(w, i, around)
    BY <1>4 DEF DeletePerson, DeleteDate
  <2>2. PICK now : now = Moment'
    OBVIOUS
  <2>3. PICK what : what = [op |-> "remove", now |-> now, item |-> i, near |-> around,
                            files |-> FilesOf(i)]
    OBVIOUS
  <2>4. /\ Asks(w, what) /\ items' = items /\ UNCHANGED knowledge /\ Request(w, "remove")
        /\ job'[w].op = "remove" /\ \A v \in Jobs \ {w} : job'[v] = job[v]
    BY <2>1, <2>2, <2>3, BecomesRecord DEF StartDelete, StartRemove, database
  <2>5. AskedAt(what, Moment')
    BY <2>2, <2>3, <2>4, MomentComes DEF AskedAt
  <2> QED
    BY <2>4, <2>5, AskTypes DEF Attachments
<1>5. CASE CreatePerson(w) \/ CreateDate(w)
  <2>1. PICK i \in Items :
           /\ touched[i] = Absent
           /\ items' = items \cup {i} /\ touched' = [touched EXCEPT ![i] = Moment']
           /\ Overtakes(w) /\ job' = job /\ Request(w, "create")
           /\ UNCHANGED <<relations, tied, dated, tagging, tags, types, typed, symmetric, renamed, named>>
    BY <1>5, KnowledgeAssumption DEF CreatePerson, CreateDate, NewItem
  <2>2. job'[w].op \notin Attachments
    BY <2>1, IdleRecord DEF Request, Attachments
  <2>3. Moment' \in 1..Moment' /\ 1..Moment' \subseteq Nat
    BY <2>1, MomentComes
  <2>4. 1..Moment \subseteq 1..Moment' /\ 0..Moment \subseteq 0..Moment' /\ 1..created \subseteq 1..created'
    BY DEF Onward
  <2>5. /\ touched' \in [Items -> {Absent, Gone} \cup 0..Moment']
        /\ items' = {x \in Items : touched'[x] >= 0}
    <3> PICK n : n = Moment'
      OBVIOUS
    <3>1. n \in Nat /\ n \in 0..n
      BY <2>3
    <3>2. touched' = [touched EXCEPT ![i] = n] /\ touched \in [Items -> {Absent, Gone} \cup 0..n]
      BY <2>1, <2>4 DEF Typed, TablesType
    <3>3. touched' \in [Items -> {Absent, Gone} \cup 0..n]
      BY <3>1, <3>2
    <3>4. items' = {x \in Items : touched'[x] >= 0}
      BY <2>1, <3>1, <3>2 DEF Typed, TablesType
    <3> QED
      BY <3>3, <3>4
  <2>6. TablesType'
    BY <2>1, <2>4, <2>5 DEF Typed, TablesType
  <2> QED
    BY <2>1, <2>2, <2>6, OvertakingTypes
<1>6. CASE CreateType(w)
  <2>1. PICK k \in Types \ typed :
           /\ types' = types \cup {k} /\ typed' = typed \cup {k}
           /\ symmetric' \in {symmetric, symmetric \cup {k}}
           /\ Overtakes(w) /\ job' = job /\ Request(w, "type") /\ items' = items
           /\ UNCHANGED <<relations, tied, dated, tagging, tags, renamed, named, touched>>
    BY <1>6 DEF CreateType
  <2>2. job'[w].op \notin Attachments
    BY <2>1, IdleRecord DEF Request, Attachments
  <2>3. 1..Moment \subseteq 1..Moment' /\ 0..Moment \subseteq 0..Moment' /\ 1..created \subseteq 1..created'
    BY DEF Onward
  <2>4. TablesType'
    BY <2>1, <2>3 DEF Typed, TablesType
  <2> QED
    BY <2>1, <2>2, <2>4, OvertakingTypes
<1>7. CASE \/ StartPeople(w) \/ StartReferences(w) \/ StartDates(w) \/ StartShow(w)
           \/ StartTag(w) \/ StartRename(w) \/ StartUntag(w) \/ StartRetype(w) \/ StartUntype(w)
  <2>1. \E op, what : /\ Reads(w, op) /\ Asks(w, what)
                      /\ what.op \notin {"person", "date", "remove", "file", "title", "event"}
                      /\ what.op \in {"tag", "rename"} => what.name \in Names
    <3>1. CASE StartPeople(w)
      BY <3>1 DEF StartPeople
    <3>2. CASE StartReferences(w)
      BY <3>2 DEF StartReferences
    <3>3. CASE StartDates(w)
      <4>1. PICK page : Reads(w, "list") /\ Asks(w, [op |-> "dates", page |-> page])
        BY <3>3 DEF StartDates
      <4> QED
        BY <4>1
    <3>4. CASE StartShow(w)
      <4>1. PICK p : Reads(w, "show") /\ Asks(w, [op |-> "relatives", item |-> p, page |-> Relatives(p)])
        BY <3>4 DEF StartShow
      <4> QED
        BY <4>1
    <3>5. CASE StartTag(w)
      BY <3>5 DEF StartTag
    <3>6. CASE StartRename(w)
      BY <3>6 DEF StartRename
    <3>7. CASE StartUntag(w)
      BY <3>7 DEF StartUntag
    <3>8. CASE StartRetype(w)
      BY <3>8 DEF StartRetype
    <3>9. CASE StartUntype(w)
      BY <3>9 DEF StartUntype
    <3> QED
      BY <1>7, <3>1, <3>2, <3>3, <3>4, <3>5, <3>6, <3>7, <3>8, <3>9
  <2>2. PICK op, what : /\ Reads(w, op) /\ Asks(w, what)
                        /\ what.op \notin {"person", "date", "remove", "file", "title", "event"}
                        /\ what.op \in {"tag", "rename"} => what.name \in Names
    BY <2>1
  <2>3. AskedAt(what, Moment')
    BY <2>2 DEF AskedAt
  <2> QED
    BY <2>2, <2>3, ReadingTypes
<1> QED
  BY <1>1, <1>2, <1>3, <1>4, <1>5, <1>6, <1>7 DEF KnowledgeStarts

LEMMA FileStartsType ==
    ASSUME FilesInv, Paced, Typed, Onward, NEW w \in Jobs, StartFile(w) \/ Prunes(w)
    PROVE  Typed'
<1>1. CASE (Starts(w) \/ StartPrune(w)) /\ Quietly(w)
  <2>1. \E j : Becomes(w, j) /\ j.op \notin Attachments
    <3>1. CASE StartMedia(w) \/ StartPhoto(w)
      <4>1. PICK op, content, target, seen :
                op \in Uploads /\ Request(w, op) /\ Becomes(w, Upload(op, content, target, seen))
        BY <3>1 DEF StartMedia, StartPhoto, Uploads
      <4>2. Upload(op, content, target, seen).op = op
        BY DEF Upload
      <4>3. op \notin Attachments
        BY <4>1 DEF Uploads, Attachments
      <4> QED
        BY <4>1, <4>2, <4>3
    <3>2. CASE StartErase(w)
      BY <3>2 DEF StartErase, Attachments
    <3>3. CASE SaveResume(w) \/ DiscardResume(w)
      <4>1. PICK op, r, value : op \in {"save", "discard"} /\ ResumeRequest(w, op, r, value)
        BY <3>3 DEF SaveResume, DiscardResume
      <4> QED
        BY <4>1 DEF ResumeRequest, Attachments
    <3>4. CASE StartPrune(w)
      BY <3>4 DEF StartPrune, Attachments
    <3> QED
      BY <1>1, <3>1, <3>2, <3>3, <3>4 DEF Starts
  <2>2. job'[w].op \notin Attachments /\ \A v \in Jobs \ {w} : job'[v] = job[v]
    BY <2>1, BecomesRecord
  <2> QED
    BY <1>1, <2>2, StartsLeaveLinks, QuietTypes
<1>2. CASE /\ Attach(w) \/ StartReplace(w)
           /\ Asks(w, [op |-> "file", now |-> Moment']) /\ UNCHANGED knowledge
  <2>1. PICK now : now = Moment'
    OBVIOUS
  <2>2. PICK what : what = [op |-> "file", now |-> now]
    OBVIOUS
  <2>3. \E op : Request(w, op)
    BY <1>2 DEF Attach, StartReplace
  <2>4. AskedAt(what, Moment')
    BY <2>1, <2>2, <2>3, MomentComes DEF AskedAt
  <2>5. Asks(w, what) /\ items' = items /\ UNCHANGED knowledge /\ GoesOn(w)
    BY <1>2, <2>1, <2>2, StartsLeaveLinks, StartsGoOn
  <2> QED
    BY <2>2, <2>4, <2>5, AskTypes DEF GoesOn
<1> QED
  BY <1>1, <1>2 DEF StartFile, Prunes

(* Writes touch rows that are there, at a moment that has been. *)
LEMMA TouchedTyped ==
    ASSUME TablesType, Onward, NEW S, NEW now \in 1..Moment, touched' = Touched(S, now), items' = items
    PROVE  /\ touched' \in [Items -> {Absent, Gone} \cup 0..Moment']
           /\ items' = {i \in Items : touched'[i] >= 0}
<1>1. now \in Nat /\ 1..Moment \subseteq 0..Moment' /\ 0..Moment \subseteq 0..Moment'
  BY DEF Onward
<1>2. touched \in [Items -> {Absent, Gone} \cup 0..Moment]
  BY DEF TablesType
<1>3. \A i \in Items : touched'[i] = IF i \in S \cap items THEN now ELSE touched[i]
  BY DEF Touched
<1>4. touched' \in [Items -> {Absent, Gone} \cup 0..Moment']
  BY <1>1, <1>2 DEF Touched
<1>5. \A i \in Items : touched'[i] >= 0 <=> touched[i] >= 0
  BY <1>1, <1>3 DEF TablesType
<1> QED
  BY <1>4, <1>5 DEF TablesType

LEMMA WritesType ==
    ASSUME FilesInv, Typed, Onward, NEW w \in Jobs, NEW op, Writes(w, op), TablesType'
    PROVE  Typed'
<1>1. job'[w] = Idle /\ \A v \in Jobs \ {w} : job'[v] = job[v]
  BY BecomesRecord DEF Writes, Ends
<1> QED
  BY <1>1, IdleRecord, OvertakingTypes DEF Writes, Attachments

LEMMA OneCreated ==
    ASSUME NEW F, \A c, d \in F : c = d
    PROVE  Cardinality(F) \in Nat /\ (F # {} => Cardinality(F) = 1)
<1>1. CASE F = {}
  BY <1>1, FS_EmptySet
<1>2. CASE F # {}
  <2>1. PICK c : F = {c}
    BY <1>2
  <2> QED
    BY <2>1, FS_Singleton
<1> QED
  BY <1>1, <1>2

LEMMA SavePersonTypes ==
    ASSUME FilesInv, Typed, Onward, NEW w \in Jobs, SavePerson(w)
    PROVE  Typed'
<1> PICK j : j = asked[w]
  OBVIOUS
<1>1. /\ Writes(w, "person") /\ j.op = "person" /\ j.item \in items /\ j.labels \subseteq TagsPresent
      /\ {c.type : c \in Named(j.form)} \subseteq types
      /\ tagging' = Retagged(j) /\ relations' = WithDeleted(j)
      /\ tied' = tied + Cardinality(Of(j.form, "create"))
      /\ touched' = Touched({j.item} \cup {c.other : c \in Named(j.form)} \cup j.near, j.now)
      /\ UNCHANGED <<items, dated, tags, types, typed, symmetric, renamed>>
      /\ named' = [named EXCEPT ![j.item] = j.name]
  BY DEF SavePerson, UpdatesItem, Writes
<1>2. /\ j.now \in 1..Moment /\ j.name \in 0..Moment
      /\ j.item \in People /\ j.labels \subseteq Tags
      /\ \A c \in Named(j.form) : c.other \in People
      /\ \A c, d \in Of(j.form, "create") : c = d
  BY <1>1 DEF Typed, AskedTypes, AskedType, AskedAt
<1>3. /\ touched' \in [Items -> {Absent, Gone} \cup 0..Moment']
      /\ items' = {i \in Items : touched'[i] >= 0}
  BY <1>1, <1>2, TouchedTyped DEF Typed
<1>4. /\ tied' \in Nat /\ tied <= tied'
      /\ Of(j.form, "create") # {} => tied' = tied + 1
  BY <1>1, <1>2, OneCreated DEF Typed, TablesType
<1>5. DOMAIN WithUpdated(j) \subseteq 1..tied'
  <2>1. DOMAIN WithUpdated(j) = DOMAIN relations \cup {tied + 1 : c \in Of(j.form, "create")}
    BY DEF WithUpdated, WithCreated
  <2> QED
    BY <1>4, <2>1 DEF Typed, TablesType
<1>6. ASSUME NEW r \in DOMAIN WithUpdated(j)
      PROVE  WithUpdated(j)[r] \in [from : People, to : People, type : Types]
  <2>1. CASE r \in DOMAIN relations /\ WithUpdated(j)[r] = relations[r]
    BY <2>1 DEF Typed, TablesType
  <2>2. ASSUME NEW c \in Named(j.form), WithUpdated(j)[r] = Directed(j.item, c)
        PROVE  WithUpdated(j)[r] \in [from : People, to : People, type : Types]
    <3>1. c.other \in People /\ c.type \in Types
      BY <1>1, <1>2 DEF Typed, TablesType
    <3> QED
      BY <1>2, <2>2, <3>1 DEF Directed
  <2> QED
    BY <2>1, <2>2, SavedRelations
<1>7. /\ DOMAIN relations' \subseteq 1..tied'
      /\ \A r \in DOMAIN relations' : relations'[r] \in [from : People, to : People, type : Types]
  <2>1. /\ DOMAIN relations' \subseteq DOMAIN WithUpdated(j)
        /\ \A r \in DOMAIN relations' : relations'[r] = WithUpdated(j)[r]
    <3> PICK R : R = WithUpdated(j)
      OBVIOUS
    <3>1. relations' = Without(R, {c.id : c \in Of(j.form, "delete")})
      BY <1>1 DEF WithDeleted
    <3> QED
      BY <3>1 DEF Without
  <2> QED
    BY <1>5, <1>6, <2>1
<1>8. tagging' \subseteq Items \X Tags
  BY <1>1, <1>2, KnowledgeAssumption DEF Retagged, Typed, TablesType
<1>9. /\ 1..Moment \subseteq 1..Moment' /\ 0..Moment \subseteq 0..Moment'
      /\ 1..created \subseteq 1..created'
      /\ named' \in [Items -> 0..Moment]
  BY <1>1, <1>2 DEF Onward, Typed, TablesType
<1>10. TablesType'
  BY <1>1, <1>3, <1>4, <1>7, <1>8, <1>9 DEF Typed, TablesType
<1> QED
  BY <1>1, <1>10, WritesType

LEMMA SaveDateTypes ==
    ASSUME FilesInv, Typed, Onward, NEW w \in Jobs, SaveDate(w)
    PROVE  Typed'
<1> PICK j : j = asked[w]
  OBVIOUS
<1>1. /\ Writes(w, "date") /\ j.op = "date"
      /\ tagging' = Retagged(j) /\ dated' = Relinked(j)
      /\ touched' = Touched({j.item} \cup j.near \cup j.people, j.now)
      /\ UNCHANGED <<items, relations, tied, tags, types, typed, symmetric, renamed>>
      /\ named' = [named EXCEPT ![j.item] = j.name]
  BY DEF SaveDate, UpdatesItem, Writes
<1>2. /\ j.now \in 1..Moment /\ j.name \in 0..Moment
      /\ j.item \in Dates /\ j.labels \subseteq Tags /\ j.people \subseteq People
  BY <1>1 DEF Typed, AskedTypes, AskedType, AskedAt
<1>3. /\ touched' \in [Items -> {Absent, Gone} \cup 0..Moment']
      /\ items' = {i \in Items : touched'[i] >= 0}
  BY <1>1, <1>2, TouchedTyped DEF Typed
<1>4. tagging' \subseteq Items \X Tags /\ dated' \subseteq Dates \X People
  BY <1>1, <1>2, KnowledgeAssumption DEF Retagged, Relinked, Typed, TablesType
<1>5. /\ 1..Moment \subseteq 1..Moment' /\ 0..Moment \subseteq 0..Moment'
      /\ 1..created \subseteq 1..created'
  BY DEF Onward
<1>6. named' \in [Items -> 0..Moment']
  BY <1>1, <1>2, <1>5 DEF Typed, TablesType
<1>7. TablesType'
  BY <1>1, <1>3, <1>4, <1>5, <1>6 DEF Typed, TablesType
<1> QED
  BY <1>1, <1>7, WritesType

LEMMA DeleteTypes ==
    ASSUME FilesInv, ReadSound, Typed, Onward, NEW w \in Jobs, Delete(w)
    PROVE  Typed'
<1> PICK i, j : i = job[w].item /\ j = asked[w]
  OBVIOUS
<1>1. /\ relations' = RelationsWithout(i) /\ dated' = DatedWithout(i)
      /\ tagging' = TaggingWithout(i) /\ items' = items \ {i} /\ Overtakes(w)
      /\ touched' = [Touched(j.near, j.now) EXCEPT ![i] = Gone]
      /\ UNCHANGED <<tied, tags, types, typed, symmetric, renamed, named>> /\ job[w].op = "remove"
      /\ \E files : Cleans(w, files)
  BY DEF Delete, CommitRemove, In
<1>2. j.now \in 1..Moment
  BY <1>1 DEF ReadSound, Removes, Typed, AskedTypes, AskedType, AskedAt
<1>3. job'[w].op = "clean" /\ \A v \in Jobs \ {w} : job'[v] = job[v]
  BY <1>1, BecomesRecord DEF Cleans
<1>4. j.now \in Nat /\ 1..Moment \subseteq 0..Moment' /\ 0..Moment \subseteq 0..Moment'
      /\ 1..Moment \subseteq 1..Moment' /\ 0..Moment \subseteq 0..Moment'
      /\ 1..created \subseteq 1..created'
  BY <1>2 DEF Onward
<1>5. PICK T : T = Touched(j.near, j.now)
  OBVIOUS
<1>6. /\ T \in [Items -> {Absent, Gone} \cup 0..Moment']
      /\ \A x \in Items : T[x] >= 0 <=> touched[x] >= 0
  BY <1>2, <1>4, <1>5 DEF Touched, Typed, TablesType
<1>7. touched' = [T EXCEPT ![i] = Gone]
  BY <1>1, <1>5
<1>8. touched' \in [Items -> {Absent, Gone} \cup 0..Moment']
  BY <1>6, <1>7
<1>9. items' = {x \in Items : touched'[x] >= 0}
  <2>1. ~(Gone >= 0)
    BY DEF Gone
  <2>2. \A x \in Items : touched'[x] = IF x = i THEN Gone ELSE T[x]
    BY <1>6, <1>7
  <2> QED
    BY <1>1, <1>6, <2>1, <2>2 DEF Typed, TablesType
<1>10. /\ DOMAIN relations' \subseteq DOMAIN relations
       /\ \A r \in DOMAIN relations' : relations'[r] = relations[r]
       /\ dated' \subseteq dated /\ tagging' \subseteq tagging
  BY <1>1 DEF RelationsWithout, Without, DatedWithout, TaggingWithout
<1>11. TablesType'
  BY <1>1, <1>4, <1>8, <1>9, <1>10 DEF Typed, TablesType
<1> QED
  BY <1>1, <1>3, <1>11, OvertakingTypes DEF Attachments

LEMMA TagTypes ==
    ASSUME FilesInv, Typed, Onward, NEW w \in Jobs, AddTag(w) \/ Rename(w) \/ Untag(w)
    PROVE  Typed'
<1> PICK j : j = asked[w]
  OBVIOUS
<1>1. /\ UNCHANGED <<items, relations, tied, dated, tagging, types, typed, symmetric, renamed, named, touched>>
      /\ \E t : \/ tags' = [tags EXCEPT ![t] = j.name] /\ j.op \in {"tag", "rename"}
                \/ tags' = [tags EXCEPT ![t] = Gone]
      /\ \E op : Writes(w, op)
  BY DEF AddTag, Rename, Untag, Writes
<1>2. j.op \in {"tag", "rename"} => j.name \in Names
  BY DEF Typed, AskedTypes, AskedType, AskedAt
<1>3. tags' \in [Tags -> Names \cup {Absent, Gone}]
  BY <1>1, <1>2 DEF Typed, TablesType
<1>4. 1..Moment \subseteq 1..Moment' /\ 0..Moment \subseteq 0..Moment' /\ 1..created \subseteq 1..created'
  BY DEF Onward
<1>5. TablesType'
  BY <1>1, <1>3, <1>4 DEF Typed, TablesType
<1> QED
  BY <1>1, <1>5, WritesType

LEMMA TypeTypes ==
    ASSUME FilesInv, Typed, Onward, NEW w \in Jobs, Retype(w) \/ Untype(w)
    PROVE  Typed'
<1>1. /\ UNCHANGED <<items, relations, tied, dated, tagging, tags, typed, renamed, named, touched>>
      /\ types' \subseteq types /\ symmetric' \subseteq types'
      /\ \E op : Writes(w, op)
  <2>1. CASE Retype(w)
    BY <2>1 DEF Retype, Typed, TablesType
  <2>2. CASE Untype(w)
    BY <2>2 DEF Untype, Typed, TablesType
  <2> QED
    BY <2>1, <2>2
<1>2. 1..Moment \subseteq 1..Moment' /\ 0..Moment \subseteq 0..Moment' /\ 1..created \subseteq 1..created'
  BY DEF Onward
<1>3. TablesType'
  BY <1>1, <1>2 DEF Typed, TablesType
<1> QED
  BY <1>1, <1>3, WritesType

LEMMA TitleTypes ==
    ASSUME FilesInv, Typed, Onward, NEW w \in Jobs, Title(w)
    PROVE  Typed'
<1> PICK j : j = asked[w]
  OBVIOUS
<1>1. /\ Writes(w, "title") /\ j.op = "title" /\ j.file \in DOMAIN links
      /\ renamed' = Retitled(j.file, j.now) /\ touched' = Touched({j.item}, j.now)
      /\ UNCHANGED <<items, relations, tied, dated, tagging, tags, types, typed, symmetric, named>>
  BY DEF Title, Writes
<1>2. j.now \in 1..Moment /\ j.file \in 1..created
  BY <1>1 DEF Typed, AskedTypes, AskedType, AskedAt, FilesInv, FilesType
<1>3. /\ touched' \in [Items -> {Absent, Gone} \cup 0..Moment']
      /\ items' = {i \in Items : touched'[i] >= 0}
  BY <1>1, <1>2, TouchedTyped DEF Typed
<1>4. /\ 1..Moment \subseteq 1..Moment' /\ 0..Moment \subseteq 0..Moment'
      /\ 1..created \subseteq 1..created'
  BY DEF Onward
<1>5. DOMAIN renamed' \subseteq 1..created' /\ \A f \in DOMAIN renamed' : renamed'[f] \in 1..Moment'
  BY <1>1, <1>2, <1>4 DEF Retitled, WithRow, Typed, TablesType
<1>6. TablesType'
  BY <1>1, <1>3, <1>4, <1>5 DEF Typed, TablesType
<1> QED
  BY <1>1, <1>6, WritesType

LEMMA ServesTypes ==
    ASSUME FilesInv, ReadSound, Typed, Onward, NEW w \in Jobs, Serves(w)
    PROVE  Typed'
<1>1. CASE ShowList(w)
  <2>1. Ends(w) /\ Quietly(w) /\ items' = items
    BY <1>1 DEF ShowList
  <2>2. job'[w].op \notin Attachments /\ \A v \in Jobs \ {w} : job'[v] = job[v]
    BY <2>1, EndsGoOn, IdleRecord DEF GoesOn, Attachments
  <2> QED
    BY <2>1, <2>2, QuietTypes
<1>2. CASE FillDates(w) \/ FillPerson(w)
  <2>1. \E page : /\ asked' = [asked EXCEPT ![w] = [op |-> "list", page |-> page]]
                  /\ items' = items /\ job' = job /\ UNCHANGED knowledge /\ job[w].op = "other"
    <3>1. CASE FillDates(w)
      BY <3>1 DEF FillDates, Continues, In
    <3>2. CASE FillPerson(w)
      BY <3>2 DEF FillPerson, Continues, In
    <3> QED
      BY <1>2, <3>1, <3>2
  <2>2. PICK what : /\ asked' = [asked EXCEPT ![w] = what] /\ what.op = "list"
                    /\ items' = items /\ job' = job /\ UNCHANGED knowledge /\ job[w].op = "other"
    BY <2>1
  <2>3. AskedAt(what, Moment')
    BY <2>2 DEF AskedAt
  <2> QED
    BY <2>2, <2>3, TablesGrow, AskedStep DEF Typed, Attachments
<1> QED
  BY <1>1, <1>2, SavePersonTypes, SaveDateTypes, DeleteTypes, TagTypes, TypeTypes, TitleTypes DEF Serves

LEMMA AttachedTypes ==
    ASSUME FilesInv, Paced, Typed, Onward, NEW w \in Jobs,
           Detached(w) \/ ((CommitAttach(w) \/ CommitUnanswered(w)) /\ Attached(w))
    PROVE  Typed'
<1>1. /\ Overtakes(w) /\ items' = items
      /\ \E j : Becomes(w, j) /\ j.op \in {"idle", "clean"}
      /\ UNCHANGED <<relations, tied, dated, tagging, tags, types, typed, symmetric, renamed, named>>
  <2>1. CASE Detached(w)
    <3>1. PICK f : Unlink(w, f)
      BY <2>1 DEF Detached, Detach, DeleteAttachment, DeletePersonPhoto
    <3> QED
      BY <2>1, <3>1 DEF Detached, Unlink, Cleans
  <2>2. CASE (CommitAttach(w) \/ CommitUnanswered(w)) /\ Attached(w)
    BY <2>2, IdleRecord DEF CommitAttach, CommitUnanswered, Attached, Cleans, Ends
  <2> QED
    BY <2>1, <2>2
<1>2. job'[w].op \notin Attachments /\ \A v \in Jobs \ {w} : job'[v] = job[v]
  BY <1>1, BecomesRecord DEF Attachments
<1>3. PICK S, now : touched' = Touched(S, now) /\ now \in 1..Moment'
  <2>1. CASE Detached(w)
    <3>1. \E op : Request(w, op)
      BY <2>1 DEF Detached, Detach, DeleteAttachment, DeletePersonPhoto, Unlink
    <3>2. Moment' \in 1..Moment'
      BY <3>1, MomentComes
    <3> QED
      BY <2>1, <3>2 DEF Detached
  <2>2. CASE (CommitAttach(w) \/ CommitUnanswered(w)) /\ Attached(w)
    <3>1. asked[w].op = "file"
      BY <2>2 DEF CommitAttach, CommitUnanswered, In, Typed, AskedTypes
    <3>2. asked[w].now \in 1..Moment'
      BY <3>1 DEF Typed, AskedTypes, AskedType, AskedAt, Onward
    <3> QED
      BY <2>2, <3>2 DEF Attached
  <2> QED
    BY <2>1, <2>2
<1>4. now \in Nat /\ 1..Moment' \subseteq 0..Moment' /\ 0..Moment \subseteq 0..Moment'
      /\ 1..Moment \subseteq 1..Moment' /\ 0..Moment \subseteq 0..Moment'
      /\ 1..created \subseteq 1..created'
  BY <1>3 DEF Onward
<1>5. /\ touched' \in [Items -> {Absent, Gone} \cup 0..Moment']
      /\ \A x \in Items : touched'[x] >= 0 <=> touched[x] >= 0
  BY <1>3, <1>4 DEF Touched, Typed, TablesType
<1>6. TablesType'
  BY <1>1, <1>4, <1>5 DEF Typed, TablesType
<1> QED
  BY <1>1, <1>2, <1>6, OvertakingTypes

-----------------------------------------------------------------------------
(* The types, of every step of the workspace                                  *)

LEMMA KnowledgeTyped ==
    ASSUME FilesInv, ReadSound, Paced, Typed, Onward, KnowledgeNext
    PROVE  Typed'
<1>1. CASE \/ Tick /\ UNCHANGED <<knowledge, requests>>
           \/ (\E r \in Resumes : CreateResume(r)) /\ UNCHANGED <<knowledge, requests>>
  <2>1. items' = items /\ job' = job /\ asked' = asked /\ UNCHANGED knowledge
    BY <1>1 DEF Tick, CreateResume, database, requests
  <2> QED
    BY <2>1, TablesGrow, AskedStays DEF Typed
<1>2. ASSUME NEW w \in Jobs, StartFile(w) \/ Prunes(w) \/ KnowledgeStarts(w) \/ Serves(w)
      PROVE  Typed'
  BY <1>2, FileStartsType, StartsType, ServesTypes
<1>3. ASSUME NEW w \in Jobs, (Works(w) \/ Breaks(w)) /\ Quietly(w)
      PROVE  Typed'
  <2>1. /\ \A v \in Jobs \ {w} : job'[v] = job[v]
        /\ job'[w].op \in Attachments => job[w].op \in Attachments
    BY <1>3, WorksGoOn DEF GoesOn, Attachments
  <2> QED
    BY <1>3, <2>1, WorksLeaveLinks, BreaksLeaveLinks, QuietTypes
<1> QED
  BY <1>1, <1>2, <1>3, AttachedTypes DEF KnowledgeNext, Advances

LEMMA TypedStep ==
    ASSUME FilesInv, ReadSound, Paced, Typed, Onward, [AgendaNext]_agendaVars
    PROVE  Typed'
<1>1. CASE KnowledgeNext
  BY <1>1, KnowledgeTyped
<1>2. ASSUME NEW w \in Jobs, AskEvent(w) \/ AskCalendar(w) \/ AskOverview(w)
      PROVE  Typed'
  <2>1. \E op, what : /\ Reads(w, op) /\ Asks(w, what) /\ what.op \in {"event", "list"}
                      /\ what.op = "event" =>
                            what.change \in {"create", "update", "resend", "delete"}
    <3>1. CASE AskEvent(w)
      BY <3>1 DEF AskEvent
    <3>2. CASE AskCalendar(w)
      <4>1. PICK window : Reads(w, "calendar") /\ Asks(w, Occurrences(window))
        BY <3>2 DEF AskCalendar
      <4>2. Occurrences(window).op = "list"
        BY DEF Occurrences
      <4> QED
        BY <4>1, <4>2
    <3>3. CASE AskOverview(w)
      <4>1. PICK reference, both : Reads(w, "overview") /\ Asks(w, Overview(reference, both))
        BY <3>3 DEF AskOverview
      <4>2. Overview(reference, both).op = "list"
        BY DEF Overview
      <4> QED
        BY <4>1, <4>2
    <3> QED
      BY <1>2, <3>1, <3>2, <3>3
  <2>2. PICK op, what : /\ Reads(w, op) /\ Asks(w, what) /\ what.op \in {"event", "list"}
                        /\ what.op = "event" =>
                              what.change \in {"create", "update", "resend", "delete"}
    BY <2>1
  <2>3. AskedAt(what, Moment')
    BY <2>2 DEF AskedAt
  <2> QED
    BY <2>2, <2>3, ReadingTypes
<1>3. ASSUME NEW w \in Jobs, WriteEvent(w)
      PROVE  Typed'
  <2>1. Writes(w, "event") /\ items' = items /\ UNCHANGED knowledge
    BY <1>3 DEF WriteEvent
  <2>2. TablesType'
    BY <2>1, TablesGrow DEF Typed
  <2> QED
    BY <2>1, <2>2, WritesType
<1>4. CASE UNCHANGED allVars
  <2>1. items' = items /\ job' = job /\ asked' = asked /\ UNCHANGED knowledge
    BY <1>4 DEF allVars, vars, database, requests
  <2> QED
    BY <2>1, TablesGrow, AskedStays DEF Typed
<1> QED
  BY <1>1, <1>2, <1>3, <1>4 DEF AgendaNext, ChangeZone, agendaVars

(* An event is none, has been deleted, or is one that can be written.         *)
EventsType ==
    /\ zone \in Zones /\ DOMAIN events = Events
    /\ \A e \in Events : events[e] \in {Unwritten, Erased} \/ ValidEvent(events[e])

LEMMA EventsStep ==
    ASSUME AskedTypes, EventsType, [AgendaNext]_agendaVars
    PROVE  EventsType'
<1>1. CASE UNCHANGED agenda
  BY <1>1 DEF agenda, EventsType
<1>2. CASE ChangeZone
  BY <1>2 DEF ChangeZone, EventsType
<1>3. ASSUME NEW w \in Jobs, WriteEvent(w)
      PROVE  EventsType'
  <2>1. asked[w].change \in {"create", "update", "resend", "delete"}
    BY <1>3 DEF WriteEvent, Writes, AskedTypes, AskedType, AskedAt
  <2>2. \E e, row : /\ events' = [events EXCEPT ![e] = row]
                    /\ row = Erased \/ ValidEvent(row)
    <3>1. CASE asked[w].change = "create"
      BY <1>3, <3>1 DEF WriteEvent
    <3>2. CASE asked[w].change \in {"update", "resend"}
      BY <1>3, <3>2 DEF WriteEvent
    <3>3. CASE asked[w].change = "delete"
      BY <1>3, <3>3 DEF WriteEvent
    <3> QED
      BY <2>1, <3>1, <3>2, <3>3
  <2>3. zone' = zone
    BY <1>3 DEF WriteEvent
  <2>4. PICK e, row : /\ events' = [events EXCEPT ![e] = row]
                      /\ row = Erased \/ ValidEvent(row)
    BY <2>2
  <2>5. \A x \in Events : events'[x] = IF x = e THEN row ELSE events[x]
    BY <2>4 DEF EventsType
  <2> QED
    BY <2>3, <2>4, <2>5 DEF EventsType
<1> QED
  BY <1>1, <1>2, <1>3 DEF AgendaNext, AskEvent, AskCalendar, AskOverview, agendaVars

LEMMA Sequenced ==
    ASSUME NEW S, NEW q \in Seq(S)
    PROVE  Len(q) \in Nat /\ DOMAIN q = 1..Len(q) /\ \A i \in DOMAIN q : q[i] \in S
  OBVIOUS

LEMMA TypesInit ==
    ASSUME AgendaInit
    PROVE  Paced /\ Typed /\ EventsType
<1>1. PICK s \in Scenarios : s = scenario
  BY DEF AgendaInit, KnowledgeInit, Init
<1>2. /\ {s.requests, s.files, s.time, s.faults} \subseteq Nat /\ s.items \subseteq Items
      /\ s.relations \in Seq([from : People, to : People, type : Types])
      /\ s.dated \subseteq Dates \X People /\ s.tagging \subseteq Items \X Tags
      /\ s.tags \in [DOMAIN s.tags -> Names] /\ DOMAIN s.tags \subseteq Tags /\ s.types \subseteq Types
      /\ Sound(s.items, s.relations, s.dated, s.tagging, s.tags, s.types)
  BY FilesAssumption, KnowledgeAssumption
<1>3. Paced
  BY <1>1, <1>2, IdleRecord DEF AgendaInit, KnowledgeInit, Init, Paced
<1>4. Moment = 0
  BY <1>1, <1>2 DEF AgendaInit, KnowledgeInit, Init, Moment
<1>5. AskedTypes
  <2>1. asked = [w \in Jobs |-> Nothing] /\ job = [w \in Jobs |-> Idle]
    BY DEF AgendaInit, KnowledgeInit, Init
  <2> QED
    BY <2>1, NothingAsked, IdleRecord DEF AskedTypes, AskedType, Attachments
<1>6. TablesType
  <2>1. /\ relations = s.relations /\ tied = Len(s.relations) /\ dated = s.dated
        /\ tagging = s.tagging /\ types = s.types /\ typed = s.types /\ symmetric = {}
        /\ tags = [t \in Tags |-> IF t \in DOMAIN s.tags THEN s.tags[t] ELSE Absent]
        /\ DOMAIN renamed = {} /\ named = [i \in Items |-> 0] /\ items = s.items
        /\ touched = [i \in Items |-> IF i \in s.items THEN 0 ELSE Absent]
    BY <1>1 DEF AgendaInit, KnowledgeInit, Init
  <2>2. tied \in Nat /\ DOMAIN relations = 1..tied
        /\ \A r \in DOMAIN relations : relations[r] \in [from : People, to : People, type : Types]
    <3> PICK S : S = [from : People, to : People, type : Types]
      OBVIOUS
    <3>1. s.relations \in Seq(S)
      BY <1>2
    <3>2. /\ Len(s.relations) \in Nat /\ DOMAIN s.relations = 1..Len(s.relations)
          /\ \A r \in DOMAIN s.relations : s.relations[r] \in S
      BY <3>1, Sequenced
    <3> QED
      BY <2>1, <3>2
  <2>3. items = {i \in Items : touched[i] >= 0}
    BY <1>2, <2>1 DEF Absent
  <2>4. touched \in [Items -> {Absent, Gone} \cup 0..Moment]
    BY <1>4, <2>1
  <2>5. tags \in [Tags -> Names \cup {Absent, Gone}]
    BY <1>2, <2>1
  <2>6. named \in [Items -> 0..Moment]
    BY <1>4, <2>1
  <2> QED
    BY <1>2, <2>1, <2>2, <2>3, <2>4, <2>5, <2>6 DEF TablesType
<1>7. EventsType
  BY AgendaAssumption DEF AgendaInit, EventsType
<1> QED
  BY <1>3, <1>5, <1>6, <1>7 DEF Typed

LEMMA TypesAlways == AgendaSpec => [](Paced /\ Typed /\ EventsType)
<1>1. FilesInv /\ ReadSound /\ Paced /\ Typed /\ EventsType /\ [AgendaNext]_agendaVars
      => Paced' /\ Typed' /\ EventsType'
  BY PaceStep, TypedStep, EventsStep DEF Typed
<1> QED
  BY <1>1, TypesInit, FilesAlways, ReadsAlways, PTL DEF AgendaSpec

LEMMA TypesFollow ==
    ASSUME FilesInv, ReadSound, Paced, Typed, EventsType
    PROVE  AgendaTypeOK
<1>1. \A f \in DOMAIN rows : rows[f].space \in Spaces /\ rows[f].orphaned \in {Never} \cup 0..clock
  BY DEF FilesInv, FilesType, Row
<1>2. DOMAIN rows \cup DOMAIN links \cup objects \cup lost \cup stray \cup overtaken \subseteq 1..created
  BY DEF FilesInv, FilesType, Paced
<1>3. TypeOK
  BY <1>1, <1>2 DEF TypeOK, FilesInv, FilesType, LocksApart, Kinds, Paced
<1>4. fresh \subseteq {w \in Jobs : asked[w].op # "none"}
  BY DEF ReadSound
<1>5. KnowledgeTypeOK
  BY <1>3, <1>4 DEF KnowledgeTypeOK, Typed, TablesType, ReadSound
<1> QED
  BY <1>5 DEF AgendaTypeOK, EventsType

(* AgendaTypeOK: whatever the requests, the tables hold what they can hold:   *)
(* no row is locked by two transactions, relations are between people, an     *)
(* item is there exactly while its updated_at is a moment that has been, and  *)
(* an event that is written is one that could be.                             *)
THEOREM AgendaTypesCorrect == AgendaSpec => []AgendaTypeOK
  BY TypesAlways, TypesFollow, FilesAlways, ReadsAlways, PTL

-----------------------------------------------------------------------------
(* With events and calendars in between                                       *)

(* A request about events or the calendar asks for items that are there.      *)
LEMMA AgendaAsks ==
    ASSUME LinksSound, NEW w \in Jobs, AskEvent(w) \/ AskCalendar(w) \/ AskOverview(w)
    PROVE  \E op, what : /\ Reads(w, op) /\ Asks(w, what)
                         /\ what.op = "event" \/ (what.op = "list" /\ what.page \subseteq items)
<1>1. \A months : Sources(months) \subseteq items
  <2>1. \A d, p : p \in PeopleOf(d) => p \in items
    BY DEF PeopleOf, LinksSound, Sound
  <2> QED
    BY <2>1 DEF Sources, Marked, BirthdaysIn, DatesIn
<1>2. CASE AskEvent(w)
  BY <1>2 DEF AskEvent
<1>3. CASE AskCalendar(w)
  <2>1. PICK window : Reads(w, "calendar") /\ Asks(w, Occurrences(window))
    BY <1>3 DEF AskCalendar
  <2>2. Occurrences(window).op = "list" /\ Occurrences(window).page = Sources(1..Months)
    BY DEF Occurrences
  <2> QED
    BY <1>1, <2>1, <2>2
<1>4. CASE AskOverview(w)
  <2>1. PICK reference, both : Reads(w, "overview") /\ Asks(w, Overview(reference, both))
    BY <1>4 DEF AskOverview
  <2>2. Overview(reference, both).op = "list"
        /\ Overview(reference, both).page = Sources(MonthsShown(reference, both))
    BY DEF Overview
  <2> QED
    BY <1>1, <2>1, <2>2
<1> QED
  BY <1>2, <1>3, <1>4

LEMMA AgendaLinks ==
    ASSUME Linked, [AgendaNext]_agendaVars
    PROVE  Linked'
<1>1. CASE [KnowledgeNext]_allVars
  BY <1>1, LinkedStep
<1>2. ASSUME NEW w \in Jobs, AskEvent(w) \/ AskCalendar(w) \/ AskOverview(w)
      PROVE  Linked'
  <2>1. PICK op, what : Reads(w, op) /\ Asks(w, what) /\ what.op \in {"event", "list"}
    BY <1>2, AgendaAsks DEF Linked
  <2>2. Proper(what) /\ items' = items /\ UNCHANGED knowledge
    BY <2>1 DEF Proper, Reads
  <2> QED
    BY <2>1, <2>2, AskLinks
<1>3. ASSUME NEW w \in Jobs, WriteEvent(w)
      PROVE  Linked'
  <2>1. Overtakes(w) /\ items' = items /\ UNCHANGED knowledge
    BY <1>3 DEF WriteEvent, Writes
  <2>2. LinksSound' /\ DOMAIN tags' = DOMAIN tags
    BY <2>1 DEF Linked, LinksSound, knowledge, TagsPresent
  <2> QED
    BY <2>1, <2>2, CommitLinks
<1> QED
  BY <1>1, <1>2, <1>3 DEF AgendaNext, ChangeZone, agendaVars

LEMMA AgendaServes ==
    ASSUME Served, LinksSound, [AgendaNext]_agendaVars
    PROVE  Served'
<1>1. CASE [KnowledgeNext]_allVars
  BY <1>1, ServedStep
<1>2. ASSUME NEW w \in Jobs, AskEvent(w) \/ AskCalendar(w) \/ AskOverview(w)
      PROVE  Served'
  <2>1. PICK op, what : /\ Reads(w, op) /\ Asks(w, what)
                        /\ what.op = "event" \/ (what.op = "list" /\ what.page \subseteq items)
    BY <1>2, AgendaAsks
  <2>2. ~Refused(what) /\ items' = items /\ links' = links /\ UNCHANGED knowledge
    BY <2>1 DEF Refused, Reads, Files
  <2> QED
    BY <2>1, <2>2, AskServes
<1>3. ASSUME NEW w \in Jobs, WriteEvent(w)
      PROVE  Served'
  BY <1>3, OvertakingServes DEF WriteEvent, Writes
<1> QED
  BY <1>1, <1>2, <1>3 DEF AgendaNext, ChangeZone, agendaVars

(* LinksSound also with the requests of events and of the calendar, which     *)
(* read the same tables.                                                      *)
THEOREM AgendaLinksCorrect == AgendaSpec => []LinksSound
<1>1. AgendaInit => Linked
  BY LinkedInit DEF AgendaInit
<1>2. Linked /\ [AgendaNext]_agendaVars => Linked'
  BY AgendaLinks
<1>3. Linked => LinksSound
  BY DEF Linked
<1> QED
  BY <1>1, <1>2, <1>3, PTL DEF AgendaSpec

(* LoneRequestServed also with them: the items a calendar names are there     *)
(* when it reads their names, unless another request has committed since.     *)
THEOREM AgendaLoneRequestCorrect == AgendaSpec => []LoneRequestServed
<1>1. AgendaInit => Served
  BY DEF AgendaInit, KnowledgeInit, Served, LoneRequestServed
<1>2. Served /\ LinksSound /\ [AgendaNext]_agendaVars => Served'
  BY AgendaServes
<1>3. Served => LoneRequestServed
  BY DEF Served
<1> QED
  BY <1>1, <1>2, <1>3, AgendaLinksCorrect, PTL DEF AgendaSpec

-----------------------------------------------------------------------------
(* What an item shows, and its updated_at                                     *)

(* What TouchedWhenChanged says of the step of a job.                         *)
TouchedBy(w) ==
    job'[w] # job[w] =>
        LET now == IF job[w] = Idle THEN Moment' ELSE asked[w].now
            alone == job[w] = Idle \/ w \in fresh
        IN  \A i \in items \cap items' :
                (alone /\ View(i)' # View(i)) => (OnlyNames(w, i) \/ touched'[i] = now)

LEMMA ViewRests ==
    ASSUME links' = links, UNCHANGED knowledge
    PROVE  \A i : View(i)' = View(i)
  BY DEF View, Ties, PersonTies, NamesShown, Companions, Relatives, Label, RelationsOf, DatesOf,
         PeopleOf, FileView, FilesOf, knowledge

LEMMA RestTouches ==
    ASSUME NEW w \in Jobs, links' = links, UNCHANGED knowledge
    PROVE  TouchedBy(w)
  BY ViewRests DEF TouchedBy

(* The parts of a view: what an item is tied to, *)
LEMMA TiesParts ==
    ASSUME NEW i, named'[i] = named[i],
           i \in People =>
               /\ RelationsOf(i)' = RelationsOf(i)
               /\ \A r \in RelationsOf(i) : relations'[r] = relations[r]
               /\ DatesOf(i)' = DatesOf(i)
               /\ \A d \in DatesOf(i) : named'[d] = named[d],
           i \notin People => PeopleOf(i)' = PeopleOf(i),
           {pair \in tagging' : pair[1] = i} = {pair \in tagging : pair[1] = i},
           FilesOf(i)' = FilesOf(i),
           \A f \in FilesOf(i) : /\ f \in DOMAIN renamed' <=> f \in DOMAIN renamed
                                 /\ f \in DOMAIN renamed => renamed'[f] = renamed[f]
    PROVE  Ties(i)' = Ties(i)
<1>1. i \in People => PersonTies(i)' = PersonTies(i)
  <2> SUFFICES ASSUME i \in People
               PROVE  PersonTies(i)' = PersonTies(i)
    OBVIOUS
  <2>1. {<<r, relations'[r]>> : r \in RelationsOf(i)'} = {<<r, relations[r]>> : r \in RelationsOf(i)}
    OBVIOUS
  <2>2. {<<d, named'[d]>> : d \in DatesOf(i)'} = {<<d, named[d]>> : d \in DatesOf(i)}
    OBVIOUS
  <2> QED
    BY <2>1, <2>2 DEF PersonTies
<1>2. FileView(i)' = FileView(i)
  <2>1. \A f \in FilesOf(i) : (IF f \in DOMAIN renamed' THEN renamed'[f] ELSE 0)
                              = (IF f \in DOMAIN renamed THEN renamed[f] ELSE 0)
    OBVIOUS
  <2>2. {<<f, IF f \in DOMAIN renamed' THEN renamed'[f] ELSE 0>> : f \in FilesOf(i)'}
        = {<<f, IF f \in DOMAIN renamed THEN renamed[f] ELSE 0>> : f \in FilesOf(i)}
    BY <2>1
  <2> QED
    BY <2>2 DEF FileView
<1> QED
  BY <1>1, <1>2 DEF Ties

(* and the names it shows: of the people around it, who stay the same when    *)
(* its relations and the people of dates do,                                  *)
LEMMA CompanionsRest ==
    ASSUME NEW i,
           i \in People => /\ RelationsOf(i)' = RelationsOf(i)
                           /\ \A r \in RelationsOf(i) : relations'[r] = relations[r],
           i \notin People => PeopleOf(i)' = PeopleOf(i)
    PROVE  Companions(i)' = Companions(i)
<1>1. CASE i \in People
  <2>1. \A r \in RelationsOf(i) : Other(relations'[r], i) = Other(relations[r], i)
    BY <1>1
  <2>2. {Other(relations'[r], i) : r \in RelationsOf(i)'} = {Other(relations[r], i) : r \in RelationsOf(i)}
    BY <1>1, <2>1
  <2> QED
    BY <1>1, <2>2 DEF Companions, Relatives, Other
<1> QED
  BY <1>1 DEF Companions

(* of relations and of tags.                                                  *)
LEMMA NamesParts ==
    ASSUME NEW i, Companions(i)' = Companions(i), \A p \in Companions(i) : named'[p] = named[p],
           i \in People =>
               /\ RelationsOf(i)' = RelationsOf(i)
               /\ \A r \in RelationsOf(i) :
                     /\ relations'[r] = relations[r]
                     /\ relations[r].type \in symmetric' <=> relations[r].type \in symmetric,
           {pair \in tagging' : pair[1] = i} = {pair \in tagging : pair[1] = i},
           \A pair \in tagging : pair[1] = i => tags'[pair[2]] = tags[pair[2]]
    PROVE  NamesShown(i)' = NamesShown(i)
<1>1. {<<p, named'[p]>> : p \in Companions(i)'} = {<<p, named[p]>> : p \in Companions(i)}
  OBVIOUS
<1>2. i \in People => {<<r, Label(relations[r], i)>> : r \in RelationsOf(i)}'
                     = {<<r, Label(relations[r], i)>> : r \in RelationsOf(i)}
  <2> SUFFICES ASSUME i \in People
               PROVE  {<<r, Label(relations[r], i)'>> : r \in RelationsOf(i)'}
                      = {<<r, Label(relations[r], i)>> : r \in RelationsOf(i)}
    OBVIOUS
  <2>1. \A r \in RelationsOf(i) : Label(relations[r], i)' = Label(relations[r], i)
    BY DEF Label
  <2> QED
    BY <2>1
<1>3. {<<pair[2], tags'[pair[2]]>> : pair \in {x \in tagging' : x[1] = i}}
      = {<<pair[2], tags[pair[2]]>> : pair \in {x \in tagging : x[1] = i}}
  OBVIOUS
<1> QED
  BY <1>1, <1>2, <1>3 DEF NamesShown

LEMMA ViewParts ==
    ASSUME NEW i, named'[i] = named[i],
           i \in People =>
               /\ RelationsOf(i)' = RelationsOf(i)
               /\ \A r \in RelationsOf(i) :
                     /\ relations'[r] = relations[r]
                     /\ relations[r].type \in symmetric' <=> relations[r].type \in symmetric
               /\ DatesOf(i)' = DatesOf(i)
               /\ \A d \in DatesOf(i) : named'[d] = named[d],
           i \notin People => PeopleOf(i)' = PeopleOf(i),
           \A p \in Companions(i) : named'[p] = named[p],
           {pair \in tagging' : pair[1] = i} = {pair \in tagging : pair[1] = i},
           \A pair \in tagging : pair[1] = i => tags'[pair[2]] = tags[pair[2]],
           FilesOf(i)' = FilesOf(i),
           \A f \in FilesOf(i) : /\ f \in DOMAIN renamed' <=> f \in DOMAIN renamed
                                 /\ f \in DOMAIN renamed => renamed'[f] = renamed[f]
    PROVE  View(i)' = View(i)
<1>1. Ties(i)' = Ties(i)
  BY TiesParts
<1>2. NamesShown(i)' = NamesShown(i)
  BY CompanionsRest, NamesParts
<1> QED
  BY <1>1, <1>2 DEF View

LEMMA CompanionsPeople ==
    ASSUME TablesType, NEW i
    PROVE  Companions(i) \subseteq People
  BY DEF TablesType, Companions, Relatives, Other, RelationsOf, PeopleOf

(* A save of a person leaves the relations of everyone who is neither in its  *)
(* form nor related by what the form changes.                                 *)
LEMMA SavedApart ==
    ASSUME NEW j, j.near = Neighbours(j.item, j.form),
           Mutated(j.form) \subseteq RelationsOf(j.item),
           relations' = WithDeleted(j),
           NEW i, i # j.item, i \notin {c.other : c \in Named(j.form)}, i \notin j.near
    PROVE  /\ RelationsOf(i)' = RelationsOf(i)
           /\ \A r \in RelationsOf(i) : relations'[r] = relations[r]
<1> DEFINE R == WithUpdated(j)
           gone == {c.id : c \in Of(j.form, "delete")}
<1>1. ASSUME NEW r \in DOMAIN relations, Involves(relations[r], i)
      PROVE  r \notin Mutated(j.form)
  <2>1. ASSUME r \in Mutated(j.form)
        PROVE  FALSE
    <3>1. Involves(relations[r], j.item) /\ Other(relations[r], j.item) \in j.near
      BY <2>1 DEF RelationsOf, Neighbours
    <3>2. Other(relations[r], j.item) = i
      BY <1>1, <3>1 DEF Involves, Other
    <3> QED
      BY <3>1, <3>2
  <2> QED
    BY <2>1
<1>2. ASSUME NEW r \in DOMAIN relations, r \notin Mutated(j.form)
      PROVE  r \in DOMAIN R /\ R[r] = relations[r] /\ r \notin gone
  <2>1. r \in DOMAIN WithCreated(j) /\ WithCreated(j)[r] = relations[r]
    BY DEF WithCreated
  <2>2. \A u \in Of(j.form, "update") \cup Of(j.form, "delete") : u.id # r
    BY <1>2 DEF Mutated
  <2>3. {u \in Of(j.form, "update") : u.id = r /\ Involves(WithCreated(j)[r], j.item)} = {}
    BY <2>2
  <2> QED
    BY <2>1, <2>2, <2>3 DEF WithUpdated
<1>3. relations' = Without(R, gone)
  BY DEF WithDeleted
<1>4. ASSUME NEW r \in DOMAIN R, Involves(R[r], i)
      PROVE  r \in DOMAIN relations /\ R[r] = relations[r]
  <2>1. ASSUME NEW c \in Named(j.form), R[r] = Directed(j.item, c)
        PROVE  FALSE
    <3>1. Involves(Directed(j.item, c), i)
      BY <1>4, <2>1
    <3> QED
      BY <3>1 DEF Directed, Involves
  <2> QED
    BY <2>1, SavedRelations
<1> HIDE DEF R, gone
<1>5. /\ DOMAIN relations' = DOMAIN R \ gone
      /\ \A r \in DOMAIN relations' : relations'[r] = R[r]
  BY <1>3 DEF Without
<1> QED
  BY <1>1, <1>2, <1>4, <1>5 DEF RelationsOf

LEMMA SavePersonTouches ==
    ASSUME FilesInv, ReadSound, Typed, NEW w \in Jobs, SavePerson(w)
    PROVE  TouchedBy(w)
<1> PICK j : j = asked[w]
  OBVIOUS
<1>1. /\ relations' = WithDeleted(j) /\ tagging' = Retagged(j)
      /\ touched' = Touched({j.item} \cup {c.other : c \in Named(j.form)} \cup j.near, j.now)
      /\ UNCHANGED <<items, dated, tags, symmetric, renamed, links>>
      /\ named' = [named EXCEPT ![j.item] = j.name]
      /\ j.op = "person" /\ job[w].op = "other" /\ j.item \in items
  BY DEF SavePerson, UpdatesItem, Writes, Files, In
<1>2. job[w] # Idle /\ items \subseteq Items
  BY <1>1, IdleRecord DEF FilesInv, FilesType
<1>3. j.item \in People /\ named \in [Items -> 0..Moment]
  BY <1>1 DEF Typed, TablesType, AskedTypes, AskedType, AskedAt
<1> DEFINE meant == {j.item} \cup {c.other : c \in Named(j.form)} \cup j.near
<1>4. \A i \in meant \cap items : touched'[i] = j.now
  BY <1>1, <1>2 DEF Touched
<1>5. \A x \in Items : x # j.item => named'[x] = named[x]
  BY <1>1, <1>3
<1> HIDE DEF meant
<1>6. ASSUME NEW i \in items, w \in fresh, View(i)' # View(i), i \notin meant
      PROVE  OnlyNames(w, i)
  <2>1. i # j.item /\ i \notin {c.other : c \in Named(j.form)} /\ i \notin j.near
    BY <1>6 DEF meant
  <2>2. j.near = Neighbours(j.item, j.form) /\ Mutated(j.form) \subseteq RelationsOf(j.item)
    BY <1>1, <1>6 DEF ReadSound, Current
  <2>3. /\ RelationsOf(i)' = RelationsOf(i)
        /\ \A r \in RelationsOf(i) : relations'[r] = relations[r]
    BY <1>1, <2>1, <2>2, SavedApart
  <2>4. {pair \in tagging' : pair[1] = i} = {pair \in tagging : pair[1] = i}
    BY <1>1, <2>1 DEF Retagged
  <2>5. DatesOf(i)' = DatesOf(i) /\ PeopleOf(i)' = PeopleOf(i) /\ FilesOf(i)' = FilesOf(i)
    BY <1>1 DEF DatesOf, PeopleOf, FilesOf
  <2>6. named'[i] = named[i] /\ \A d \in DatesOf(i) : named'[d] = named[d]
    BY <1>2, <1>3, <1>5, <2>1, KnowledgeAssumption DEF DatesOf
  <2>7. Ties(i)' = Ties(i)
    BY <1>1, <2>3, <2>4, <2>5, <2>6, TiesParts
  <2>8. PICK p \in Companions(i) : named'[p] # named[p]
    <3>1. ASSUME \A p \in Companions(i) : named'[p] = named[p]
          PROVE  FALSE
      BY <1>1, <1>6, <2>3, <2>4, <2>5, <2>6, <3>1, ViewParts
    <3> QED
      BY <3>1
  <2>9. p \in Items
    BY CompanionsPeople, KnowledgeAssumption DEF Typed
  <2>10. p = j.item /\ touched'[p] = j.now
    BY <1>1, <1>4, <1>5, <2>8, <2>9 DEF meant
  <2> QED
    BY <2>7, <2>8, <2>10 DEF OnlyNames
<1> QED
  BY <1>1, <1>2, <1>4, <1>6 DEF TouchedBy

LEMMA SaveDateTouches ==
    ASSUME FilesInv, ReadSound, Typed, NEW w \in Jobs, SaveDate(w)
    PROVE  TouchedBy(w)
<1> PICK j : j = asked[w]
  OBVIOUS
<1>1. /\ dated' = Relinked(j) /\ tagging' = Retagged(j)
      /\ touched' = Touched({j.item} \cup j.near \cup j.people, j.now)
      /\ UNCHANGED <<items, relations, tags, symmetric, renamed, links>>
      /\ named' = [named EXCEPT ![j.item] = j.name]
      /\ j.op = "date" /\ job[w].op = "other" /\ j.item \in items
  BY DEF SaveDate, UpdatesItem, Writes, Files, In
<1>2. /\ job[w] # Idle
      /\ \A x \in Items : x # j.item => named'[x] = named[x]
      /\ j.item \in Dates
  BY <1>1, IdleRecord DEF Typed, TablesType, AskedTypes, AskedType, AskedAt
<1>4. items \subseteq Items
  BY DEF FilesInv, FilesType
<1>3. ASSUME NEW i \in items, w \in fresh, View(i)' # View(i)
      PROVE  i \in {j.item} \cup j.near \cup j.people
  <2>1. ASSUME i # j.item, i \notin j.near, i \notin j.people
        PROVE  FALSE
    <3>1. j.near = PeopleOf(j.item)
      BY <1>1, <1>3 DEF ReadSound, Current
    <3>2. i \in People => DatesOf(i)' = DatesOf(i)
      <4>1. i \in People => \A d : <<d, i>> \in dated' <=> <<d, i>> \in dated
        BY <1>1, <2>1, <3>1 DEF Relinked, PeopleOf
      <4> QED
        BY <4>1 DEF DatesOf
    <3>3. PeopleOf(i)' = PeopleOf(i)
      <4>1. \A p : <<i, p>> \in dated' <=> <<i, p>> \in dated
        BY <1>1, <2>1 DEF Relinked
      <4> QED
        BY <4>1 DEF PeopleOf
    <3>4. {pair \in tagging' : pair[1] = i} = {pair \in tagging : pair[1] = i}
      BY <1>1, <2>1 DEF Retagged
    <3>5. RelationsOf(i)' = RelationsOf(i) /\ FilesOf(i)' = FilesOf(i)
      BY <1>1 DEF RelationsOf, FilesOf
    <3>6. i \in People => \A d \in DatesOf(i) : named'[d] = named[d]
      <4>1. i \in People => j.item \notin DatesOf(i)
        BY <2>1, <3>1 DEF DatesOf, PeopleOf
      <4> QED
        BY <1>2, <4>1, KnowledgeAssumption DEF DatesOf
    <3>7. named'[i] = named[i] /\ \A p \in Companions(i) : named'[p] = named[p]
      BY <1>2, <1>4, <2>1, CompanionsPeople, KnowledgeAssumption DEF Typed
    <3> QED
      BY <1>1, <1>3, <3>2, <3>3, <3>4, <3>5, <3>6, <3>7, ViewParts
  <2> QED
    BY <2>1
<1> QED
  BY <1>1, <1>2, <1>3, <1>4 DEF TouchedBy, Touched

LEMMA DeleteTouches ==
    ASSUME FilesInv, ReadSound, TablesType, NEW w \in Jobs, Delete(w)
    PROVE  TouchedBy(w)
<1> PICK i, j : i = job[w].item /\ j = asked[w]
  OBVIOUS
<1>1. /\ relations' = RelationsWithout(i) /\ dated' = DatedWithout(i)
      /\ tagging' = TaggingWithout(i) /\ items' = items \ {i}
      /\ links' = Without(links, job[w].dropped) /\ FilesOf(i) = job[w].dropped
      /\ touched' = [Touched(j.near, j.now) EXCEPT ![i] = Gone]
      /\ UNCHANGED <<tags, symmetric, renamed, named>> /\ job[w].op = "remove"
  BY DEF Delete, CommitRemove, In
<1>2. job[w] # Idle /\ items \subseteq Items
  BY <1>1, IdleRecord DEF FilesInv, FilesType
<1>3. ASSUME NEW x \in items, x # i, w \in fresh, View(x)' # View(x)
      PROVE  x \in j.near
  <2>1. ASSUME x \notin j.near
        PROVE  FALSE
    <3>1. j.near = Around(i)
      BY <1>1, <1>3 DEF ReadSound, Removes, Current
    <3>2. ASSUME x \in People
          PROVE  /\ RelationsOf(x)' = RelationsOf(x)
                 /\ \A r \in RelationsOf(x) : relations'[r] = relations[r]
      <4>1. ASSUME NEW r \in RelationsOf(x), r \in RelationsOf(i)
            PROVE  FALSE
        <5>1. r \in DOMAIN relations /\ i \in {relations[r].from, relations[r].to}
              /\ x \in {relations[r].from, relations[r].to}
          BY <4>1 DEF RelationsOf, Involves
        <5>2. i \in People
          BY <5>1 DEF TablesType
        <5>3. Other(relations[r], i) = x
          BY <1>3, <5>1 DEF Other
        <5>4. x \in Relatives(i)
          BY <4>1, <5>3 DEF Relatives
        <5> QED
          BY <2>1, <3>1, <5>2, <5>4 DEF Around
      <4>2. \A r : r \in RelationsOf(x)' <=> r \in RelationsOf(x) /\ r \notin RelationsOf(i)
        BY <1>1 DEF RelationsWithout, Without, RelationsOf
      <4>3. \A r \in DOMAIN relations \ RelationsOf(i) : relations'[r] = relations[r]
        BY <1>1 DEF RelationsWithout, Without
      <4> QED
        BY <4>1, <4>2, <4>3 DEF RelationsOf
    <3>3. x \in People => DatesOf(x)' = DatesOf(x)
      <4>1. ASSUME x \in People, NEW d \in Dates, <<d, x>> \in dated
            PROVE  <<d, x>> \in dated'
        <5>1. d # i
          BY <2>1, <3>1, <4>1, KnowledgeAssumption DEF Around, PeopleOf
        <5> QED
          BY <1>1, <1>3, <4>1, <5>1 DEF DatedWithout
      <4>2. dated' \subseteq dated
        BY <1>1 DEF DatedWithout
      <4> QED
        BY <4>1, <4>2 DEF DatesOf
    <3>4. x \notin People => PeopleOf(x)' = PeopleOf(x)
      <4>1. ASSUME x \notin People, NEW p \in People, <<x, p>> \in dated
            PROVE  <<x, p>> \in dated'
        <5>1. x \in Dates
          BY <4>1, <1>2, <1>3, KnowledgeAssumption
        <5>2. p # i
          BY <2>1, <3>1, <4>1, <5>1, KnowledgeAssumption DEF Around, DatesOf
        <5> QED
          BY <1>1, <1>3, <4>1, <5>2 DEF DatedWithout
      <4>2. dated' \subseteq dated
        BY <1>1 DEF DatedWithout
      <4> QED
        BY <4>1, <4>2 DEF PeopleOf
    <3>5. {pair \in tagging' : pair[1] = x} = {pair \in tagging : pair[1] = x}
      BY <1>1, <1>3 DEF TaggingWithout
    <3>6. FilesOf(x)' = FilesOf(x)
      BY <1>1, <1>3 DEF FilesOf, Without
    <3> QED
      BY <1>1, <1>3, <3>2, <3>3, <3>4, <3>5, <3>6, ViewParts
  <2> QED
    BY <2>1
<1>4. ASSUME NEW x \in items \cap items', w \in fresh, View(x)' # View(x)
      PROVE  touched'[x] = j.now
  BY <1>1, <1>2, <1>3, <1>4 DEF Touched
<1> QED
  BY <1>2, <1>4 DEF TouchedBy

(* A step of another job, or one that leaves what items show.                 *)
LEMMA StillTouches ==
    ASSUME NEW w \in Jobs, job'[w] = job[w]
    PROVE  TouchedBy(w)
  BY DEF TouchedBy

(* A write that leaves all but the names of tags and of relations.            *)
LEMMA LabelsTouch ==
    ASSUME TablesType, LinksSound,
           NEW w \in Jobs, AddTag(w) \/ Rename(w) \/ Untag(w) \/ Retype(w) \/ Untype(w)
    PROVE  TouchedBy(w)
<1>1. UNCHANGED <<links, relations, dated, tagging, renamed, named>>
  BY DEF AddTag, Rename, Untag, Retype, Untype, Writes, Files
<1>2. ASSUME NEW i
      PROVE  /\ RelationsOf(i)' = RelationsOf(i) /\ DatesOf(i)' = DatesOf(i)
             /\ PeopleOf(i)' = PeopleOf(i) /\ FilesOf(i)' = FilesOf(i)
  BY <1>1 DEF RelationsOf, DatesOf, PeopleOf, FilesOf
<1>3. CASE Rename(w) \/ Retype(w)
  <2>1. asked[w].op \in {"rename", "retype"}
    BY <1>3 DEF Rename, Retype, Writes
  <2>2. \A i : Ties(i)' = Ties(i)
    BY <1>1, <1>2, TiesParts
  <2> QED
    BY <2>1, <2>2 DEF TouchedBy, OnlyNames
<1>4. CASE AddTag(w) \/ Untag(w) \/ Untype(w)
  <2>1. /\ \A r \in DOMAIN relations : relations[r].type \in symmetric' <=> relations[r].type \in symmetric
        /\ \A pair \in tagging : tags'[pair[2]] = tags[pair[2]]
    <3>1. \A pair \in tagging : tags[pair[2]] \in Names /\ pair[2] \in Tags
      BY DEF LinksSound, Sound, TagsPresent
    <3>2. DOMAIN tags = Tags
      BY DEF TablesType
    <3>3. CASE AddTag(w)
      BY <3>1, <3>2, <3>3, NamesAssumption DEF AddTag
    <3>4. CASE Untag(w)
      BY <3>1, <3>2, <3>4 DEF Untag, TagUsed
    <3>5. CASE Untype(w)
      BY <3>5 DEF Untype, TypeUsed
    <3> QED
      BY <1>4, <3>3, <3>4, <3>5
  <2>2. ASSUME NEW i
        PROVE  View(i)' = View(i)
    <3>1. \A r \in RelationsOf(i) :
             /\ relations'[r] = relations[r]
             /\ relations[r].type \in symmetric' <=> relations[r].type \in symmetric
      BY <1>1, <2>1 DEF RelationsOf
    <3> QED
      BY <1>1, <1>2, <2>1, <3>1, ViewParts
  <2> QED
    BY <2>2 DEF TouchedBy
<1> QED
  BY <1>3, <1>4

(* What an item shows of files changes with its own files and their names.    *)
LEMMA FileViews ==
    ASSUME UNCHANGED <<relations, dated, tagging, tags, symmetric, named>>,
           NEW i, FilesOf(i)' = FilesOf(i),
           \A f \in FilesOf(i) : /\ f \in DOMAIN renamed' <=> f \in DOMAIN renamed
                                 /\ f \in DOMAIN renamed => renamed'[f] = renamed[f]
    PROVE  View(i)' = View(i)
<1>1. /\ RelationsOf(i)' = RelationsOf(i) /\ DatesOf(i)' = DatesOf(i)
      /\ PeopleOf(i)' = PeopleOf(i)
  BY DEF RelationsOf, DatesOf, PeopleOf
<1> QED
  BY <1>1, ViewParts

LEMMA TitleTouches ==
    ASSUME FilesInv, ReadSound, NEW w \in Jobs, Title(w)
    PROVE  TouchedBy(w)
<1> PICK j : j = asked[w]
  OBVIOUS
<1>1. /\ renamed' = Retitled(j.file, j.now) /\ touched' = Touched({j.item}, j.now)
      /\ UNCHANGED <<items, relations, dated, tagging, tags, symmetric, named, links>>
      /\ j.op = "title" /\ job[w].op = "other"
  BY DEF Title, Writes, Files, In
<1>2. job[w] # Idle
  BY <1>1, IdleRecord
<1>3. ASSUME NEW i \in items, w \in fresh, View(i)' # View(i)
      PROVE  i = j.item
  <2>1. ASSUME i # j.item
        PROVE  FALSE
    <3>1. links[j.file].item = j.item
      BY <1>1, <1>3 DEF ReadSound, Current
    <3>2. FilesOf(i)' = FilesOf(i) /\ j.file \notin FilesOf(i)
      BY <1>1, <2>1, <3>1 DEF FilesOf
    <3>3. \A f \in FilesOf(i) : /\ f \in DOMAIN renamed' <=> f \in DOMAIN renamed
                                /\ f \in DOMAIN renamed => renamed'[f] = renamed[f]
      BY <1>1, <3>2 DEF Retitled, WithRow
    <3> QED
      BY <1>1, <1>3, <3>2, <3>3, FileViews
  <2> QED
    BY <2>1
<1>4. items \subseteq Items
  BY DEF FilesInv, FilesType
<1> QED
  BY <1>1, <1>2, <1>3, <1>4 DEF TouchedBy, Touched

LEMMA AttachedTouches ==
    ASSUME FilesInv, NEW w \in Jobs, CommitAttach(w) \/ CommitUnanswered(w), Attached(w)
    PROVE  TouchedBy(w)
<1> PICK item, file, dropped, link :
        /\ item = job[w].item /\ file = job[w].file /\ dropped = job[w].dropped
        /\ link = [item |-> item, kind |-> IF job[w].op = "replace" THEN "photo" ELSE "file"]
  OBVIOUS
<1>1. /\ job[w].op \in Attachments /\ job[w].phase # "list"
      /\ links' = WithRow(Without(links, dropped), file, link) /\ items' = items
      /\ touched' = Touched({item}, asked[w].now)
      /\ UNCHANGED <<relations, dated, tagging, tags, symmetric, renamed, named>>
  BY DEF CommitAttach, CommitUnanswered, In, Stored, Attached
<1>2. job[w] # Idle /\ items \subseteq Items
  BY <1>1, IdleRecord DEF FilesInv, FilesType, Attachments
<1>3. /\ file \notin DOMAIN links /\ link.item = item
      /\ \A f \in dropped \cap DOMAIN links : links[f].item = item
  <2>1. file \notin DOMAIN rows /\ dropped = IF job[w].op = "replace" THEN PhotosOf(item) ELSE {}
    BY <1>1, Attaches
  <2> QED
    BY <2>1 DEF FilesInv, FilesType, PhotosOf, FilesOf
<1>4. /\ DOMAIN links' = (DOMAIN links \ dropped) \cup {file} /\ links'[file] = link
      /\ \A f \in DOMAIN links' : f # file => links'[f] = links[f]
  BY <1>1 DEF WithRow, Without
<1>5. ASSUME NEW i, i # item
      PROVE  View(i)' = View(i)
  <2>1. FilesOf(i)' = FilesOf(i)
    BY <1>3, <1>4, <1>5 DEF FilesOf
  <2> QED
    BY <1>1, <2>1, FileViews
<1> QED
  BY <1>1, <1>2, <1>5 DEF TouchedBy, Touched

LEMMA DetachedTouches ==
    ASSUME FilesInv, NEW w \in Jobs, Detached(w)
    PROVE  TouchedBy(w)
<1>1. PICK f \in DOMAIN links : Unlink(w, f)
  BY DEF Detached, Detach, DeleteAttachment, DeletePersonPhoto, PhotosOf, FilesOf
<1>2. /\ job[w] = Idle /\ links' = Without(links, {f}) /\ items' = items
      /\ job'[w].doomed = {f}
  BY <1>1, BecomesRecord DEF Unlink, Request, Cleans
<1>3. /\ touched' = Touched({links[f].item}, Moment')
      /\ UNCHANGED <<relations, dated, tagging, tags, symmetric, renamed, named>>
  BY <1>2 DEF Detached
<1>4. ASSUME NEW i, i # links[f].item
      PROVE  View(i)' = View(i)
  <2>1. FilesOf(i)' = FilesOf(i)
    BY <1>2, <1>4 DEF FilesOf, Without
  <2> QED
    BY <1>3, <2>1, FileViews
<1>5. items \subseteq Items
  BY DEF FilesInv, FilesType
<1> QED
  BY <1>2, <1>3, <1>4, <1>5 DEF TouchedBy, Touched

(* A step of one job touches what it changes.                                 *)
LEMMA ServesTouch ==
    ASSUME FilesInv, ReadSound, Typed, LinksSound, NEW w \in Jobs, Serves(w)
    PROVE  TouchedBy(w)
<1>1. CASE FillDates(w) \/ FillPerson(w)
  <2>1. job' = job
    BY <1>1 DEF FillDates, FillPerson, Continues
  <2> QED
    BY <2>1, StillTouches
<1>2. CASE ShowList(w)
  BY <1>2, RestTouches DEF ShowList, Quietly, Files
<1> QED
  BY <1>1, <1>2, SavePersonTouches, SaveDateTouches, DeleteTouches, LabelsTouch, TitleTouches
     DEF Serves, Typed

LEMMA StartsTouch ==
    ASSUME FilesInv, NEW w \in Jobs, StartFile(w) \/ Prunes(w) \/ KnowledgeStarts(w)
    PROVE  TouchedBy(w)
<1>1. CASE StartFile(w) \/ Prunes(w)
  BY <1>1, StartsLeaveLinks, RestTouches DEF StartFile, Prunes, Quietly
<1>2. CASE CreatePerson(w) \/ CreateDate(w) \/ CreateType(w)
  <2>1. job' = job
    BY <1>2 DEF CreatePerson, CreateDate, NewItem, CreateType
  <2> QED
    BY <2>1, StillTouches
<1>3. CASE DeletePerson(w) \/ DeleteDate(w)
  BY <1>3, RestTouches DEF DeletePerson, DeleteDate, StartDelete, StartRemove, database
<1>4. CASE ~(CreatePerson(w) \/ CreateDate(w) \/ CreateType(w) \/ DeletePerson(w) \/ DeleteDate(w))
           /\ KnowledgeStarts(w)
  <2>1. \E op : Reads(w, op)
    BY <1>4 DEF KnowledgeStarts, StartPerson, StartDate, StartPeople, StartReferences, StartDates,
                StartShow, StartTag, StartRename, StartUntag, StartRetype, StartUntype, StartTitle
  <2> QED
    BY <2>1, RestTouches DEF Reads, Files
<1> QED
  BY <1>1, <1>2, <1>3, <1>4

(* A step is one of at most one job.                                          *)
LEMMA OthersStill ==
    ASSUME FilesInv, NEW w \in Jobs, NEW v \in Jobs, v # w,
           \/ StartFile(w) \/ Detached(w) \/ Prunes(w) \/ KnowledgeStarts(w) \/ Advances(w)
           \/ Breaks(w) /\ Quietly(w)
           \/ CommitUnanswered(w) /\ Attached(w)
    PROVE  job'[v] = job[v]
<1>1. CASE StartFile(w) \/ Prunes(w)
  BY <1>1, StartsGoOn DEF StartFile, Prunes, GoesOn
<1>2. CASE Works(w) \/ Breaks(w)
  BY <1>2, WorksGoOn DEF GoesOn
<1>3. CASE Detached(w)
  <2>1. \E j : Becomes(w, j)
    BY <1>3 DEF Detached, Detach, DeleteAttachment, DeletePersonPhoto, Unlink, Cleans
  <2> QED
    BY <2>1, BecomesRecord
<1>4. CASE CommitAttach(w) \/ CommitUnanswered(w)
  <2>1. \E j : Becomes(w, j)
    BY <1>4 DEF CommitAttach, CommitUnanswered, Cleans, Ends
  <2> QED
    BY <2>1, BecomesRecord
<1>5. CASE KnowledgeStarts(w)
  <2>1. job' = job \/ \E j : Becomes(w, j)
    BY <1>5 DEF KnowledgeStarts, StartPerson, StartDate, StartPeople, StartReferences, StartDates,
                StartShow, StartTag, StartRename, StartUntag, StartRetype, StartUntype, StartTitle,
                CreatePerson, CreateDate, NewItem, CreateType, DeletePerson, DeleteDate,
                StartDelete, StartRemove, Reads
  <2> QED
    BY <2>1, BecomesRecord
<1>6. CASE Serves(w)
  <2>1. job' = job \/ \E j : Becomes(w, j)
    BY <1>6 DEF Serves, SavePerson, SaveDate, UpdatesItem, Delete, CommitRemove, Cleans, FillDates,
                FillPerson, Continues, ShowList, AddTag, Rename, Untag, Retype, Untype, Title, Writes, Ends
  <2> QED
    BY <2>1, BecomesRecord
<1> QED
  BY <1>1, <1>2, <1>3, <1>4, <1>5, <1>6 DEF Advances

LEMMA TouchedStep ==
    ASSUME FilesInv, ReadSound, Typed, LinksSound, [AgendaNext]_agendaVars, NEW v \in Jobs
    PROVE  TouchedBy(v)
<1>1. CASE UNCHANGED job
  BY <1>1, StillTouches
<1>2. CASE \E w \in Jobs : AskEvent(w) \/ AskCalendar(w) \/ AskOverview(w) \/ WriteEvent(w)
  <2>1. links' = links /\ UNCHANGED knowledge
    BY <1>2 DEF AskEvent, AskCalendar, AskOverview, WriteEvent, Reads, Writes, Files
  <2> QED
    BY <2>1, RestTouches
<1>3. ASSUME NEW w \in Jobs,
             \/ StartFile(w) \/ Detached(w) \/ Prunes(w) \/ KnowledgeStarts(w) \/ Advances(w)
             \/ Breaks(w) /\ Quietly(w)
             \/ CommitUnanswered(w) /\ Attached(w)
      PROVE  TouchedBy(v)
  <2>1. CASE v # w
    BY <1>3, <2>1, OthersStill, StillTouches
  <2>2. CASE (Works(w) \/ Breaks(w)) /\ Quietly(w)
    BY <2>2, WorksLeaveLinks, BreaksLeaveLinks, RestTouches DEF Quietly
  <2>3. CASE v = w /\ ~((Works(w) \/ Breaks(w)) /\ Quietly(w))
    BY <1>3, <2>3, ServesTouch, StartsTouch, AttachedTouches, DetachedTouches DEF Advances
  <2> QED
    BY <2>1, <2>2, <2>3
<1>4. Tick \/ (\E r \in Resumes : CreateResume(r)) => UNCHANGED job
  BY DEF Tick, CreateResume
<1> QED
  BY <1>1, <1>2, <1>3, <1>4 DEF AgendaNext, KnowledgeNext, ChangeZone, agendaVars, allVars, vars

(* TouchedWhenChanged: whatever requests are in progress, whenever what an    *)
(* item shows changes it bears the moment of the request that changed it, or  *)
(* what changed is the name of a person around it, of a relation or of a tag. *)
THEOREM TouchedCorrect == AgendaSpec => TouchedWhenChanged
<1>1. FilesInv /\ ReadSound /\ Typed /\ LinksSound /\ [AgendaNext]_agendaVars
      => [\A w \in Jobs : TouchedBy(w)]_allVars
  BY TouchedStep
<1>2. [\A w \in Jobs : TouchedBy(w)]_allVars =>
      [\A w \in Jobs :
          job'[w] # job[w] =>
              LET now == IF job[w] = Idle THEN Moment' ELSE asked[w].now
                  alone == job[w] = Idle \/ w \in fresh
              IN  \A i \in items \cap items' :
                      (alone /\ View(i)' # View(i)) =>
                          (OnlyNames(w, i) \/ touched'[i] = now)]_allVars
  BY DEF TouchedBy
<1> QED
  BY <1>1, <1>2, FilesAlways, ReadsAlways, TypesAlways, AgendaLinksCorrect, PTL
     DEF AgendaSpec, TouchedWhenChanged

-----------------------------------------------------------------------------
(* The calendar: an argument by the least counterexample in an interval       *)

(* What holds at a and passes from each number below b to the next holds up to b. *)
LEMMA Ascends ==
    ASSUME NEW a \in Int, NEW b \in Int, NEW S, a \in S,
           \A k \in a..b : (k \in S /\ k < b) => k + 1 \in S
    PROVE  a..b \subseteq S
<1> DEFINE F == {n \in Nat : a + n <= b /\ a + n \notin S}
<1>1. SUFFICES ASSUME F # {} PROVE FALSE
  <2>1. ASSUME NEW k \in a..b, F = {} PROVE k \in S
    <3>1. k - a \in Nat /\ a + (k - a) = k
      OBVIOUS
    <3>2. k - a \notin F
      BY <2>1
    <3>3. QED
      BY <3>1, <3>2
  <2>2. QED
    BY <2>1
<1>2. F \subseteq Nat
  OBVIOUS
<1>3. PICK n \in F : \A g \in F : ~(<<g, n>> \in OpToRel(<, Nat))
  <2> HIDE DEF F
  <2>1. QED
    BY <1>1, <1>2, NatLessThanWellFounded, WFMin, Zenon
<1>4. \A g \in F : ~(g < n)
  <2> HIDE DEF F
  <2>1. QED
    BY <1>2, <1>3, Zenon DEF OpToRel
<1>5. n \in Nat /\ a + n <= b /\ a + n \notin S
  OBVIOUS
<1>6. n # 0
  <2>1. a + 0 = a
    OBVIOUS
  <2>2. QED
    BY <1>5, <2>1
<1>7. n - 1 \in Nat /\ n - 1 < n /\ a + (n - 1) <= b
  BY <1>5, <1>6
<1>8. a + (n - 1) \in S
  BY <1>4, <1>7
<1>9. a + (n - 1) \in a..b /\ a + (n - 1) < b
  BY <1>5, <1>7
<1>10. (a + (n - 1)) + 1 \in S
  BY <1>8, <1>9
<1>11. (a + (n - 1)) + 1 = a + n
  BY <1>5
<1>12. QED
  BY <1>5, <1>10, <1>11

-----------------------------------------------------------------------------
(* The numbers of days *)

Lasts(y, m) == Years[y][m]
At(y, m, d) == NumberOf[<<y, m, d>>]
IsDay(y, m, d) == y \in 1..Len(Years) /\ m \in 1..Months /\ d \in 1..Lasts(y, m)

LEMMA CalendarBasis ==
    /\ Len(Years) \in Nat \ {0} /\ DOMAIN Years = 1..Len(Years)
    /\ Months \in Nat /\ Months > 2
    /\ \A y \in 1..Len(Years), m \in 1..Months : Lasts(y, m) \in Nat \ {0}
    /\ Week \in Nat \ {0} /\ Ticks \in Nat \ {0}
<1> DEFINE D == Nat \ {0}
           S == Seq(D)
<1>1. Years \in Seq(S) /\ Years # <<>>
  BY CalendarAssumption
<1>2. Len(Years) \in Nat /\ DOMAIN Years = 1..Len(Years) /\ Len(Years) # 0
      /\ \A y \in 1..Len(Years) : Years[y] \in S
  <2> HIDE DEF S
  <2>1. QED
    BY <1>1
<1>3. \A y \in 1..Len(Years) : Len(Years[y]) = Months /\ Len(Years[y]) > 2
  <2>1. \A x, y \in DOMAIN Years : Len(Years[x]) = Len(Years[y]) /\ Len(Years[x]) > 2
    BY CalendarAssumption
  <2>2. 1 \in DOMAIN Years
    BY <1>2
  <2> HIDE DEF S
  <2>3. QED
    BY <1>2, <2>1, <2>2 DEF Months
<1>4. ASSUME NEW y \in 1..Len(Years)
      PROVE  Months \in Nat /\ \A m \in 1..Months : Years[y][m] \in D
  <2>1. PICK q \in Seq(D) : q = Years[y]
    BY <1>2
  <2>2. Len(q) \in Nat /\ \A m \in 1..Len(q) : q[m] \in D
    <3> HIDE DEF D
    <3>1. QED
      BY <2>1
  <2>3. QED
    BY <1>3, <2>1, <2>2
<1>5. 1 \in 1..Len(Years)
  BY <1>2
<1>6. QED
  BY <1>2, <1>3, <1>4, <1>5, CalendarAssumption DEF Lasts

LEMMA DayIn == \A y, m, d : <<y, m, d>> \in AllDays <=> IsDay(y, m, d)
<1> DEFINE Part(y, m) == {<<y, m, d>> : d \in 1..Years[y][m]}
           Parts == {Part(y, m) : y \in DOMAIN Years, m \in 1..Months}
<1>1. AllDays = UNION Parts
  BY DEF AllDays
<1>2. ASSUME NEW y, NEW m, NEW d, IsDay(y, m, d)
      PROVE  <<y, m, d>> \in UNION Parts
  <2>1. y \in DOMAIN Years /\ m \in 1..Months
    BY <1>2, CalendarBasis DEF IsDay
  <2>2. <<y, m, d>> \in Part(y, m)
    BY <1>2 DEF IsDay, Lasts
  <2> HIDE DEF Part
  <2>3. Part(y, m) \in Parts
    BY <2>1
  <2>4. QED
    BY <2>2, <2>3
<1>3. ASSUME NEW y, NEW m, NEW d, <<y, m, d>> \in UNION Parts
      PROVE  IsDay(y, m, d)
  <2>1. PICK a \in DOMAIN Years, b \in 1..Months : <<y, m, d>> \in Part(a, b)
    BY <1>3
  <2>2. a = y /\ b = m /\ d \in 1..Years[y][m]
    BY <2>1
  <2>3. QED
    BY <2>1, <2>2, CalendarBasis DEF IsDay, Lasts
<1>4. QED
  BY <1>1, <1>2, <1>3

LEMMA ImageFinite ==
    ASSUME NEW S, IsFiniteSet(S), NEW f, DOMAIN f = S, f = [x \in S |-> f[x]]
    PROVE  IsFiniteSet({f[x] : x \in S})
<1> DEFINE T == {f[x] : x \in S}
<1>1. f \in Surjection(S, T)
  <2>1. f \in [S -> T]
    OBVIOUS
  <2>2. \A y \in T : \E x \in S : f[x] = y
    OBVIOUS
  <2> HIDE DEF T
  <2>3. QED
    BY <2>1, <2>2 DEF Surjection
<1>2. QED
  <2> HIDE DEF T
  <2>1. IsFiniteSet(T)
    BY <1>1, FS_Surjection
  <2>2. QED
    BY <2>1 DEF T

LEMMA DayParts ==
    ASSUME NEW t \in AllDays
    PROVE  \E y, m, d : t = <<y, m, d>> /\ IsDay(y, m, d)
<1>1. PICK y \in DOMAIN Years, m \in 1..Months : t \in {<<y, m, d>> : d \in 1..Years[y][m]}
  BY DEF AllDays
<1>2. QED
  BY <1>1, CalendarBasis DEF IsDay, Lasts

LEMMA DaysFinite == IsFiniteSet(AllDays)
<1> DEFINE Y == 1..Len(Years)
           M == 1..Months
           Part(p) == {<<p[1], p[2], d>> : d \in 1..Lasts(p[1], p[2])}
           Parts == {Part(p) : p \in Y \X M}
<1>1. IsFiniteSet(Y \X M)
  <2>1. IsFiniteSet(Y) /\ IsFiniteSet(M)
    BY CalendarBasis, FS_Interval
  <2> HIDE DEF Y, M
  <2>2. QED
    BY <2>1, FS_Product
<1>2. IsFiniteSet(Parts)
  <2> DEFINE f == [p \in Y \X M |-> Part(p)]
  <2>1. Parts = {f[p] : p \in Y \X M} /\ DOMAIN f = Y \X M /\ f = [p \in Y \X M |-> f[p]]
    <3> HIDE DEF Part, Y, M
    <3>1. QED
      OBVIOUS
  <2> HIDE DEF f, Parts
  <2>2. QED
    BY <1>1, <2>1, ImageFinite
<1>3. ASSUME NEW p \in Y \X M
      PROVE  IsFiniteSet(Part(p))
  <2>1. Lasts(p[1], p[2]) \in Nat
    BY CalendarBasis
  <2>2. IsFiniteSet(1..Lasts(p[1], p[2]))
    BY <2>1, FS_Interval
  <2> DEFINE N == 1..Lasts(p[1], p[2])
             f == [d \in N |-> <<p[1], p[2], d>>]
  <2>3. Part(p) = {f[d] : d \in N} /\ DOMAIN f = N /\ f = [d \in N |-> f[d]]
    <3> HIDE DEF N
    <3>1. QED
      BY DEF N
  <2>4. IsFiniteSet(N)
    BY <2>2
  <2> HIDE DEF f, Part, N
  <2>5. QED
    BY <2>3, <2>4, ImageFinite
<1>4. IsFiniteSet(UNION Parts)
  <2>1. \A x \in Parts : IsFiniteSet(x)
    BY <1>3
  <2> HIDE DEF Parts
  <2>2. QED
    BY <1>2, <2>1, FS_UNION
<1>5. AllDays \subseteq UNION Parts
  <2>1. ASSUME NEW t \in AllDays
        PROVE  t \in UNION Parts
    <3>1. PICK y, m, d : t = <<y, m, d>> /\ IsDay(y, m, d)
      BY DayParts
    <3>2. <<y, m>> \in Y \X M /\ t \in Part(<<y, m>>)
      BY <3>1 DEF IsDay
    <3>3. Part(<<y, m>>) \in Parts
      BY <3>2
    <3>4. QED
      BY <3>2, <3>3
  <2>2. QED
    BY <2>1
<1>6. QED
  <2> HIDE DEF Parts
  <2>1. QED
    BY <1>4, <1>5, FS_Subset

Sooner(t) == {s \in AllDays : Earlier(s, t)}

LEMMA SoonerNumbers ==
    ASSUME NEW t \in AllDays
    PROVE  /\ IsFiniteSet(Sooner(t)) /\ NumberOf[t] = Cardinality(Sooner(t)) /\ NumberOf[t] \in Nat
           /\ t \notin Sooner(t)
<1>1. IsFiniteSet(Sooner(t))
  BY DaysFinite, FS_Subset DEF Sooner
<1>2. NumberOf[t] = Cardinality(Sooner(t))
  BY DEF NumberOf, Sooner
<1>3. t \notin Sooner(t)
  <2>1. PICK y, m, d : t = <<y, m, d>> /\ IsDay(y, m, d)
    BY DayParts
  <2>2. QED
    BY <2>1, CalendarBasis DEF Sooner, Earlier, IsDay
<1>4. QED
  BY <1>1, <1>2, <1>3, FS_CardinalityType

(* What is in the way from one day to the next.                               *)
LEMMA NextNumber ==
    ASSUME NEW s \in AllDays, NEW t \in AllDays, Sooner(t) = Sooner(s) \cup {s}
    PROVE  NumberOf[t] = NumberOf[s] + 1
<1>1. Cardinality(Sooner(s) \cup {s}) = Cardinality(Sooner(s)) + 1
  BY SoonerNumbers, FS_AddElement
<1>2. QED
  BY <1>1, SoonerNumbers

LEMMA FirstNumber == IsDay(1, 1, 1) /\ At(1, 1, 1) = 0
<1>1. IsDay(1, 1, 1)
  BY CalendarBasis DEF IsDay
<1>2. <<1, 1, 1>> \in AllDays
  BY <1>1, DayIn
<1>3. Sooner(<<1, 1, 1>>) = {}
  <2>1. ASSUME NEW s \in AllDays
        PROVE  ~Earlier(s, <<1, 1, 1>>)
    <3>1. PICK y, m, d : s = <<y, m, d>> /\ IsDay(y, m, d)
      BY DayParts
    <3>2. QED
      BY <3>1, CalendarBasis DEF Earlier, IsDay
  <2>2. QED
    BY <2>1 DEF Sooner
<1>4. QED
  BY <1>1, <1>2, <1>3, SoonerNumbers, FS_EmptySet DEF At

LEMMA Tomorrow ==
    ASSUME NEW y, NEW m, NEW d, IsDay(y, m, d)
    PROVE  /\ d < Lasts(y, m) => IsDay(y, m, d + 1) /\ At(y, m, d + 1) = At(y, m, d) + 1
           /\ (d = Lasts(y, m) /\ m < Months) =>
                  IsDay(y, m + 1, 1) /\ At(y, m + 1, 1) = At(y, m, d) + 1
           /\ (d = Lasts(y, m) /\ m = Months /\ y < Len(Years)) =>
                  IsDay(y + 1, 1, 1) /\ At(y + 1, 1, 1) = At(y, m, d) + 1
<1> DEFINE s == <<y, m, d>>
<1>0. s \in AllDays /\ y \in Int /\ m \in Int /\ d \in Int /\ Lasts(y, m) \in Nat
  <2>1. s \in AllDays
    BY DayIn
  <2>2. y \in 1..Len(Years) /\ m \in 1..Months /\ d \in 1..Lasts(y, m)
    BY DEF IsDay
  <2>3. Len(Years) \in Int /\ Months \in Int /\ Lasts(y, m) \in Nat
    BY <2>2, CalendarBasis
  <2>4. QED
    BY <2>1, <2>2, <2>3
<1>1. CASE d < Lasts(y, m)
  <2>1. IsDay(y, m, d + 1)
    BY <1>0, <1>1, CalendarBasis DEF IsDay
  <2>2. <<y, m, d + 1>> \in AllDays
    BY <2>1, DayIn
  <2>3. Sooner(<<y, m, d + 1>>) = Sooner(s) \cup {s}
    <3>1. ASSUME NEW u \in AllDays
          PROVE  Earlier(u, <<y, m, d + 1>>) <=> (Earlier(u, s) \/ u = s)
      <4>1. PICK a, b, c : u = <<a, b, c>> /\ IsDay(a, b, c)
        BY DayParts
      <4>2. a \in Int /\ b \in Int /\ c \in Int
        BY <4>1, CalendarBasis DEF IsDay
      <4>3. QED
        BY <1>0, <4>1, <4>2 DEF Earlier
    <3>2. QED
      BY <1>0, <3>1 DEF Sooner
  <2>4. QED
    BY <1>0, <1>1, <2>1, <2>2, <2>3, NextNumber DEF At
<1>2. CASE d = Lasts(y, m) /\ m < Months
  <2>1. IsDay(y, m + 1, 1)
    <3>1. m + 1 \in 1..Months /\ y \in 1..Len(Years)
      BY <1>2, CalendarBasis DEF IsDay
    <3>2. Lasts(y, m + 1) \in Nat \ {0}
      BY <3>1, CalendarBasis
    <3>3. QED
      BY <3>1, <3>2 DEF IsDay
  <2>2. <<y, m + 1, 1>> \in AllDays
    BY <2>1, DayIn
  <2>3. Sooner(<<y, m + 1, 1>>) = Sooner(s) \cup {s}
    <3>1. ASSUME NEW u \in AllDays
          PROVE  Earlier(u, <<y, m + 1, 1>>) <=> (Earlier(u, s) \/ u = s)
      <4>1. PICK a, b, c : u = <<a, b, c>> /\ IsDay(a, b, c)
        BY DayParts
      <4>2. a \in Int /\ b \in Int /\ c \in Int /\ c >= 1
            /\ ((a = y /\ b = m) => c <= d)
        BY <1>2, <4>1, CalendarBasis DEF IsDay
      <4>3. QED
        BY <1>0, <1>2, <4>1, <4>2 DEF Earlier
    <3>2. QED
      BY <1>0, <3>1 DEF Sooner
  <2>4. QED
    BY <1>0, <1>2, <2>1, <2>2, <2>3, NextNumber DEF At
<1>3. CASE d = Lasts(y, m) /\ m = Months /\ y < Len(Years)
  <2>1. IsDay(y + 1, 1, 1)
    <3>1. y + 1 \in 1..Len(Years) /\ 1 \in 1..Months
      BY <1>3, CalendarBasis DEF IsDay
    <3>2. Lasts(y + 1, 1) \in Nat \ {0}
      BY <3>1, CalendarBasis
    <3>3. QED
      BY <3>1, <3>2 DEF IsDay
  <2>2. <<y + 1, 1, 1>> \in AllDays
    BY <2>1, DayIn
  <2>3. Sooner(<<y + 1, 1, 1>>) = Sooner(s) \cup {s}
    <3>1. ASSUME NEW u \in AllDays
          PROVE  Earlier(u, <<y + 1, 1, 1>>) <=> (Earlier(u, s) \/ u = s)
      <4>1. PICK a, b, c : u = <<a, b, c>> /\ IsDay(a, b, c)
        BY DayParts
      <4>2. a \in Int /\ b \in Int /\ c \in Int /\ b >= 1 /\ c >= 1
            /\ b <= m /\ ((a = y /\ b = m) => c <= d)
        BY <1>3, <4>1, CalendarBasis DEF IsDay
      <4>3. QED
        BY <1>0, <1>3, <4>1, <4>2 DEF Earlier
    <3>2. QED
      BY <1>0, <3>1 DEF Sooner
  <2>4. QED
    BY <1>0, <1>3, <2>1, <2>2, <2>3, NextNumber DEF At
<1>4. QED
  BY <1>0, <1>1, <1>2, <1>3, CalendarBasis

LEMMA DaysInMonth ==
    ASSUME NEW y \in 1..Len(Years), NEW m \in 1..Months, NEW d \in 1..Lasts(y, m)
    PROVE  IsDay(y, m, d) /\ At(y, m, d) = At(y, m, 1) + d - 1
<1> DEFINE S == {k \in 1..Lasts(y, m) : At(y, m, k) = At(y, m, 1) + k - 1}
<1>1. Lasts(y, m) \in Nat \ {0}
  BY CalendarBasis
<1>2. \A k \in 1..Lasts(y, m) : IsDay(y, m, k) /\ At(y, m, k) \in Nat
  <2>1. \A k \in 1..Lasts(y, m) : IsDay(y, m, k)
    BY DEF IsDay
  <2>2. QED
    BY <2>1, DayIn, SoonerNumbers DEF At
<1>3. 1 \in S
  BY <1>1, <1>2
<1>4. ASSUME NEW k \in 1..Lasts(y, m), k \in S, k < Lasts(y, m)
      PROVE  k + 1 \in S
  <2>1. At(y, m, k + 1) = At(y, m, k) + 1
    BY <1>2, <1>4, Tomorrow
  <2>2. k + 1 \in 1..Lasts(y, m) /\ At(y, m, 1) \in Nat /\ k \in Nat
    BY <1>1, <1>2, <1>4
  <2>3. At(y, m, k) = At(y, m, 1) + k - 1
    BY <1>4
  <2>4. QED
    BY <2>1, <2>2, <2>3
<1>5. 1..Lasts(y, m) \subseteq S
  <2>1. 1 \in Int /\ Lasts(y, m) \in Int
    BY <1>1
  <2> HIDE DEF S
  <2>2. \A k \in 1..Lasts(y, m) : (k \in S /\ k < Lasts(y, m)) => k + 1 \in S
    BY <1>4
  <2>3. QED
    BY <1>3, <2>1, <2>2, Ascends
<1>6. QED
  BY <1>2, <1>5

(* The first day of a month, and that of the next.                            *)
LEMMA MonthAfter ==
    ASSUME NEW y \in 1..Len(Years), NEW m \in 1..Months
    PROVE  /\ At(y, m, 1) \in Nat
           /\ m < Months => At(y, m + 1, 1) = At(y, m, 1) + Lasts(y, m)
           /\ (m = Months /\ y < Len(Years)) => At(y + 1, 1, 1) = At(y, m, 1) + Lasts(y, m)
<1>1. Lasts(y, m) \in Nat \ {0}
  BY CalendarBasis
<1>2. IsDay(y, m, 1) /\ IsDay(y, m, Lasts(y, m))
      /\ At(y, m, Lasts(y, m)) = At(y, m, 1) + Lasts(y, m) - 1
  BY <1>1, DaysInMonth
<1>3. At(y, m, 1) \in Nat
  BY <1>2, DayIn, SoonerNumbers DEF At
<1>4. QED
  BY <1>1, <1>2, <1>3, Tomorrow

LEMMA DaysOrdered ==
    ASSUME NEW s \in AllDays, NEW t \in AllDays, Earlier(s, t)
    PROVE  NumberOf[s] < NumberOf[t]
<1>1. Sooner(s) \cup {s} \subseteq Sooner(t)
  <2>1. PICK a, b, c : s = <<a, b, c>> /\ IsDay(a, b, c)
    BY DayParts
  <2>2. PICK y, m, d : t = <<y, m, d>> /\ IsDay(y, m, d)
    BY DayParts
  <2>3. /\ a \in Int /\ b \in Int /\ c \in Int
        /\ y \in Int /\ m \in Int /\ d \in Int
    BY <2>1, <2>2, CalendarBasis DEF IsDay
  <2>4. ASSUME NEW u \in AllDays, Earlier(u, s)
        PROVE  Earlier(u, t)
    <3>1. PICK i, j, k : u = <<i, j, k>> /\ IsDay(i, j, k)
      BY DayParts
    <3>2. i \in Int /\ j \in Int /\ k \in Int
      BY <3>1, CalendarBasis DEF IsDay
    <3>3. QED
      BY <2>1, <2>2, <2>3, <2>4, <3>1, <3>2 DEF Earlier
  <2>5. QED
    BY <2>4 DEF Sooner
<1>2. Cardinality(Sooner(s) \cup {s}) = Cardinality(Sooner(s)) + 1
  BY SoonerNumbers, FS_AddElement
<1>3. Cardinality(Sooner(s) \cup {s}) <= Cardinality(Sooner(t))
  BY <1>1, SoonerNumbers, FS_Subset
<1>4. QED
  BY <1>2, <1>3, SoonerNumbers

LEMMA DaysDiffer ==
    ASSUME NEW s \in AllDays, NEW t \in AllDays
    PROVE  /\ s # t => Earlier(s, t) \/ Earlier(t, s)
           /\ NumberOf[s] = NumberOf[t] => s = t
           /\ Earlier(s, t) <=> NumberOf[s] < NumberOf[t]
<1>1. s # t => Earlier(s, t) \/ Earlier(t, s)
  <2>1. PICK a, b, c : s = <<a, b, c>> /\ IsDay(a, b, c)
    BY DayParts
  <2>2. PICK y, m, d : t = <<y, m, d>> /\ IsDay(y, m, d)
    BY DayParts
  <2>3. /\ a \in Int /\ b \in Int /\ c \in Int
        /\ y \in Int /\ m \in Int /\ d \in Int
    BY <2>1, <2>2, CalendarBasis DEF IsDay
  <2>4. QED
    BY <2>1, <2>2, <2>3 DEF Earlier
<1>2. NumberOf[s] \in Nat /\ NumberOf[t] \in Nat
  BY SoonerNumbers
<1>3. QED
  BY <1>1, <1>2, DaysOrdered

LEMMA LastNumber ==
    /\ LastDay \in Nat
    /\ \A t \in AllDays : NumberOf[t] \in 0..LastDay
    /\ \A y, m, d : IsDay(y, m, d) /\ At(y, m, d) < LastDay =>
          d < Lasts(y, m) \/ m < Months \/ y < Len(Years)
<1>1. Cardinality(AllDays) \in Nat
  BY DaysFinite, FS_CardinalityType
<1>2. <<1, 1, 1>> \in AllDays
  BY FirstNumber, DayIn
<1>3. Cardinality(AllDays) # 0
  BY <1>2, DaysFinite, FS_EmptySet
<1>4. LastDay \in Nat
  BY <1>1, <1>3 DEF LastDay
<1>5. ASSUME NEW t \in AllDays
      PROVE  NumberOf[t] <= LastDay
  <2>1. Sooner(t) \subseteq AllDays \ {t}
    BY SoonerNumbers DEF Sooner
  <2>2. IsFiniteSet(AllDays \ {t}) /\ Cardinality(AllDays \ {t}) = LastDay
    BY DaysFinite, FS_RemoveElement DEF LastDay
  <2>3. QED
    BY <2>1, <2>2, SoonerNumbers, FS_Subset
<1>6. ASSUME NEW y, NEW m, NEW d, IsDay(y, m, d),
             ~(d < Lasts(y, m) \/ m < Months \/ y < Len(Years))
      PROVE  At(y, m, d) >= LastDay
  <2> DEFINE t == <<y, m, d>>
  <2>0. t \in AllDays
    BY <1>6, DayIn
  <2>1. AllDays \ {t} \subseteq Sooner(t)
    <3>1. ASSUME NEW s \in AllDays, s # t
          PROVE  Earlier(s, t)
      <4>1. PICK a, b, c : s = <<a, b, c>> /\ IsDay(a, b, c)
        BY DayParts
      <4>2. y = Len(Years) /\ m = Months /\ d = Lasts(y, m) /\ d \in Int
        <5>1. y \in 1..Len(Years) /\ m \in 1..Months /\ d \in 1..Lasts(y, m)
          BY <1>6 DEF IsDay
        <5>2. Len(Years) \in Int /\ Months \in Int /\ Lasts(y, m) \in Int
          BY <5>1, CalendarBasis
        <5>3. QED
          BY <1>6, <5>1, <5>2
      <4>3. a \in Int /\ b \in Int /\ c \in Int /\ a <= y /\ b <= m
            /\ ((a = y /\ b = m) => c <= d)
        BY <4>1, <4>2, CalendarBasis DEF IsDay
      <4>4. y \in Int /\ m \in Int
        BY <4>2, CalendarBasis
      <4>5. QED
        BY <3>1, <4>1, <4>2, <4>3, <4>4 DEF Earlier
    <3>2. QED
      BY <3>1 DEF Sooner
  <2>2. IsFiniteSet(AllDays \ {t}) /\ Cardinality(AllDays \ {t}) = LastDay
    BY <2>0, DaysFinite, FS_RemoveElement DEF LastDay
  <2>3. Cardinality(AllDays \ {t}) <= Cardinality(Sooner(t))
    BY <2>0, <2>1, SoonerNumbers, FS_Subset
  <2>4. QED
    BY <2>0, <2>2, <2>3, SoonerNumbers DEF At
<1>7. ASSUME NEW t \in AllDays PROVE NumberOf[t] \in 0..LastDay
  BY <1>4, <1>5, SoonerNumbers
<1>8. ASSUME NEW y, NEW m, NEW d, IsDay(y, m, d), At(y, m, d) < LastDay
      PROVE  d < Lasts(y, m) \/ m < Months \/ y < Len(Years)
  <2>1. At(y, m, d) \in Nat
    BY <1>8, DayIn, SoonerNumbers DEF At
  <2>2. QED
    BY <1>4, <1>6, <1>8, <2>1
<1>9. QED
  BY <1>4, <1>7, <1>8

LEMMA DaysOnto ==
    ASSUME NEW n \in 0..LastDay
    PROVE  \E t \in AllDays : NumberOf[t] = n
<1> DEFINE S == {k \in Int : \E t \in AllDays : NumberOf[t] = k}
<1>1. 0 \in S
  BY FirstNumber, DayIn DEF At
<1>2. ASSUME NEW k \in 0..LastDay, k \in S, k < LastDay
      PROVE  k + 1 \in S
  <2>1. PICK t \in AllDays : NumberOf[t] = k
    BY <1>2
  <2>2. PICK y, m, d : t = <<y, m, d>> /\ IsDay(y, m, d)
    BY DayParts
  <2>3. At(y, m, d) = k /\ k \in Int
    BY <2>1, <2>2, LastNumber DEF At
  <2>4. d < Lasts(y, m) \/ m < Months \/ y < Len(Years)
    BY <1>2, <2>2, <2>3, LastNumber
  <2>5. /\ d <= Lasts(y, m) /\ m <= Months /\ y <= Len(Years)
        /\ d \in Int /\ m \in Int /\ y \in Int /\ Lasts(y, m) \in Int
    BY <2>2, CalendarBasis DEF IsDay
  <2>6. \E a, b, c : IsDay(a, b, c) /\ At(a, b, c) = k + 1
    <3>1. CASE d < Lasts(y, m)
      BY <2>2, <2>3, <3>1, Tomorrow
    <3>2. CASE d = Lasts(y, m) /\ m < Months
      BY <2>2, <2>3, <3>2, Tomorrow
    <3>3. CASE d = Lasts(y, m) /\ m = Months /\ y < Len(Years)
      BY <2>2, <2>3, <3>3, Tomorrow
    <3>4. QED
      BY <2>4, <2>5, <3>1, <3>2, <3>3, CalendarBasis
  <2>7. QED
    BY <2>3, <2>6, DayIn DEF At
<1>3. 0..LastDay \subseteq S
  <2> HIDE DEF S
  <2>1. QED
    BY <1>1, <1>2, LastNumber, Ascends
<1>4. QED
  BY <1>3

(* Days and their numbers.                                                    *)
LEMMA DayNumbers ==
    /\ \A n \in 0..LastDay : DayAt[n] \in AllDays /\ NumberOf[DayAt[n]] = n
    /\ \A t \in AllDays : NumberOf[t] \in 0..LastDay /\ DayAt[NumberOf[t]] = t
<1>1. ASSUME NEW n \in 0..LastDay
      PROVE  DayAt[n] \in AllDays /\ NumberOf[DayAt[n]] = n
  <2>1. DayAt[n] = CHOOSE t \in AllDays : NumberOf[t] = n
    BY DEF DayAt
  <2>2. QED
    BY <2>1, DaysOnto
<1>2. ASSUME NEW t \in AllDays
      PROVE  NumberOf[t] \in 0..LastDay /\ DayAt[NumberOf[t]] = t
  <2>1. NumberOf[t] \in 0..LastDay
    BY LastNumber
  <2>2. QED
    BY <1>1, <2>1, DaysDiffer
<1>3. QED
  BY <1>1, <1>2

-----------------------------------------------------------------------------
(* Months as intervals of days *)

DayOf(n) == DayAt[n][3]

LEMMA DayOfNumber ==
    ASSUME NEW n \in 0..LastDay
    PROVE  IsDay(YearOf(n), MonthOf(n), DayOf(n)) /\ At(YearOf(n), MonthOf(n), DayOf(n)) = n
<1>1. DayAt[n] \in AllDays /\ NumberOf[DayAt[n]] = n
  BY DayNumbers
<1>2. PICK y, m, d : DayAt[n] = <<y, m, d>> /\ IsDay(y, m, d)
  BY <1>1, DayParts
<1>3. YearOf(n) = y /\ MonthOf(n) = m /\ DayOf(n) = d
  BY <1>2 DEF YearOf, MonthOf, DayOf
<1>4. QED
  BY <1>1, <1>2, <1>3 DEF At

LEMMA NumberOfDay ==
    ASSUME NEW y, NEW m, NEW d, IsDay(y, m, d)
    PROVE  /\ At(y, m, d) \in 0..LastDay
           /\ YearOf(At(y, m, d)) = y /\ MonthOf(At(y, m, d)) = m /\ DayOf(At(y, m, d)) = d
<1>1. <<y, m, d>> \in AllDays
  BY DayIn
<1>2. At(y, m, d) \in 0..LastDay /\ DayAt[At(y, m, d)] = <<y, m, d>>
  BY <1>1, DayNumbers DEF At
<1>3. QED
  BY <1>2 DEF YearOf, MonthOf, DayOf

(* The days of a month.                                                       *)
Within(n, y, m) == At(y, m, 1) <= n /\ n < At(y, m, 1) + Lasts(y, m)

LEMMA MonthSpan ==
    ASSUME NEW y \in 1..Len(Years), NEW m \in 1..Months
    PROVE  /\ At(y, m, 1) \in 0..LastDay /\ At(y, m, 1) + Lasts(y, m) - 1 \in 0..LastDay
           /\ \A n \in 0..LastDay : (YearOf(n) = y /\ MonthOf(n) = m) <=> Within(n, y, m)
           /\ \A n \in Int : Within(n, y, m) =>
                  n \in 0..LastDay /\ DayOf(n) = n - At(y, m, 1) + 1
<1>1. Lasts(y, m) \in Nat \ {0}
  BY CalendarBasis
<1>2. \A d \in 1..Lasts(y, m) : IsDay(y, m, d) /\ At(y, m, d) = At(y, m, 1) + d - 1
  BY DaysInMonth
<1>3. \A d \in 1..Lasts(y, m) : At(y, m, d) \in 0..LastDay
  BY <1>2, NumberOfDay
<1>4. At(y, m, 1) \in 0..LastDay /\ At(y, m, Lasts(y, m)) \in 0..LastDay
  BY <1>1, <1>3
<1>5. At(y, m, 1) + Lasts(y, m) - 1 \in 0..LastDay
  <2>1. Lasts(y, m) \in 1..Lasts(y, m)
    BY <1>1
  <2>2. QED
    BY <1>2, <1>4, <2>1
<1>6. ASSUME NEW n \in 0..LastDay, YearOf(n) = y, MonthOf(n) = m
      PROVE  Within(n, y, m)
  <2>1. IsDay(y, m, DayOf(n)) /\ At(y, m, DayOf(n)) = n
    BY <1>6, DayOfNumber
  <2>2. DayOf(n) \in 1..Lasts(y, m)
    BY <2>1 DEF IsDay
  <2>3. n = At(y, m, 1) + DayOf(n) - 1
    BY <1>2, <2>1, <2>2
  <2>4. At(y, m, 1) \in Int /\ DayOf(n) \in Int /\ Lasts(y, m) \in Int
    BY <1>1, <1>4, <2>2
  <2>5. QED
    BY <2>2, <2>3, <2>4 DEF Within
<1>7. ASSUME NEW n \in Int, Within(n, y, m)
      PROVE  /\ n \in 0..LastDay /\ DayOf(n) = n - At(y, m, 1) + 1
             /\ YearOf(n) = y /\ MonthOf(n) = m
  <2>1. PICK d \in Int : d = n - At(y, m, 1) + 1
    BY <1>4
  <2>2. d \in 1..Lasts(y, m) /\ At(y, m, 1) + d - 1 = n
    BY <1>1, <1>4, <1>7, <2>1 DEF Within
  <2>3. IsDay(y, m, d) /\ At(y, m, d) = n
    BY <1>2, <2>2
  <2>4. QED
    BY <2>1, <2>3, NumberOfDay
<1>8. QED
  BY <1>4, <1>5, <1>6, <1>7

LEMMA YearsGrow ==
    ASSUME NEW n \in 0..LastDay, NEW k \in 0..LastDay, n <= k
    PROVE  YearOf(n) <= YearOf(k)
<1>1. DayAt[n] \in AllDays /\ DayAt[k] \in AllDays
      /\ NumberOf[DayAt[n]] = n /\ NumberOf[DayAt[k]] = k
  BY DayNumbers
<1>2. ~Earlier(DayAt[k], DayAt[n])
  BY <1>1, DaysDiffer, LastNumber
<1>3. YearOf(n) \in Int /\ YearOf(k) \in Int
  BY DayOfNumber, CalendarBasis DEF IsDay
<1>4. QED
  BY <1>2, <1>3 DEF Earlier, YearOf

-----------------------------------------------------------------------------
(* Annual dates *)

DaysShown(a, window) == {n \in window.from..(window.to - 1) : MonthOf(n) = a.month /\ DayOf(n) = a.day}
DaysLacking(a, window) == {n \in window.from..(window.to - 1) : MonthOf(n) = a.month /\ a.day > LastOf(n)}

AnnualDate(a) ==
    /\ a.month \in 1..Months /\ a.day \in Nat \ {0}
    /\ a.month # February => \A y \in DOMAIN Years : Placed(a, y)

InCalendar(window) == {window.from, window.to} \subseteq 0..LastDay /\ window.from < window.to

LEMMA DaysOfWindow ==
    ASSUME NEW window, InCalendar(window), NEW n \in window.from..(window.to - 1)
    PROVE  /\ n \in 0..LastDay /\ n \in Int /\ YearOf(n) \in YearsOf(window)
           /\ YearOf(n) \in 1..Len(Years) /\ MonthOf(n) \in 1..Months
           /\ LastOf(n) = Lasts(YearOf(n), MonthOf(n))
           /\ Within(n, YearOf(n), MonthOf(n))
<1>1. window.from \in 0..LastDay /\ window.to \in 0..LastDay /\ LastDay \in Nat
  BY LastNumber DEF InCalendar
<1>2. n \in 0..LastDay /\ n \in Int /\ window.from <= n /\ n <= window.to
  BY <1>1
<1>3. YearOf(window.from) <= YearOf(n) /\ YearOf(n) <= YearOf(window.to)
  BY <1>1, <1>2, YearsGrow
<1>4. /\ IsDay(YearOf(n), MonthOf(n), DayOf(n))
      /\ IsDay(YearOf(window.from), MonthOf(window.from), DayOf(window.from))
      /\ IsDay(YearOf(window.to), MonthOf(window.to), DayOf(window.to))
  BY <1>1, <1>2, DayOfNumber
<1>5. YearOf(n) \in YearsOf(window)
  BY <1>3, <1>4, CalendarBasis DEF IsDay, YearsOf
<1>6. QED
  BY <1>2, <1>4, <1>5, MonthSpan DEF IsDay, LastOf, Lasts

LEMMA WindowYears ==
    ASSUME NEW window, InCalendar(window), NEW y \in YearsOf(window)
    PROVE  y \in 1..Len(Years)
<1>1. /\ IsDay(YearOf(window.from), MonthOf(window.from), DayOf(window.from))
      /\ IsDay(YearOf(window.to), MonthOf(window.to), DayOf(window.to))
  BY DayOfNumber DEF InCalendar
<1>2. QED
  BY <1>1, CalendarBasis DEF IsDay, YearsOf

LEMMA AnnualShown ==
    ASSUME NEW a, AnnualDate(a), NEW window, InCalendar(window)
    PROVE  AnnualDays(a, window) = DaysShown(a, window)
<1> DEFINE days == window.from..(window.to - 1)
<1>1. ASSUME NEW n \in AnnualDays(a, window)
      PROVE  n \in DaysShown(a, window)
  <2>1. PICK y \in YearsOf(window) : Placed(a, y) /\ n = NumberOf[<<y, a.month, a.day>>] /\ n \in days
    BY DEF AnnualDays
  <2>2. IsDay(y, a.month, a.day)
    BY <2>1, WindowYears, CalendarBasis DEF Placed, AnnualDate, IsDay, Lasts
  <2>3. MonthOf(n) = a.month /\ DayOf(n) = a.day
    BY <2>1, <2>2, NumberOfDay DEF At
  <2>4. QED
    BY <2>1, <2>3 DEF DaysShown
<1>2. ASSUME NEW n \in DaysShown(a, window)
      PROVE  n \in AnnualDays(a, window)
  <2>1. n \in days /\ MonthOf(n) = a.month /\ DayOf(n) = a.day
    BY DEF DaysShown
  <2>2. n \in 0..LastDay /\ YearOf(n) \in YearsOf(window)
    BY <2>1, DaysOfWindow
  <2>3. IsDay(YearOf(n), a.month, a.day) /\ NumberOf[<<YearOf(n), a.month, a.day>>] = n
    BY <2>1, <2>2, DayOfNumber DEF At
  <2>4. Placed(a, YearOf(n))
    BY <2>3, CalendarBasis DEF IsDay, Placed, Lasts
  <2>5. QED
    BY <2>1, <2>2, <2>3, <2>4 DEF AnnualDays
<1>3. QED
  BY <1>1, <1>2

LEMMA AnnualLacking ==
    ASSUME NEW a, AnnualDate(a), NEW window, InCalendar(window)
    PROVE  Unplaced(a, window) <=> DaysLacking(a, window) # {}
<1> DEFINE days == window.from..(window.to - 1)
<1>0. February \in 1..Months /\ February + 1 \in 1..Months /\ February < Months
  BY CalendarBasis DEF February
<1>1. ASSUME Unplaced(a, window)
      PROVE  DaysLacking(a, window) # {}
  <2>1. PICK y \in YearsOf(window) :
            /\ ~Placed(a, y)
            /\ window.from < At(y, February + 1, 1)
            /\ window.to > At(y, February, 1)
    BY <1>1 DEF Unplaced, At
  <2>2. y \in 1..Len(Years) /\ a.month = February
    BY <2>1, WindowYears, CalendarBasis DEF AnnualDate
  <2>3. /\ At(y, February + 1, 1) = At(y, February, 1) + Lasts(y, February)
        /\ At(y, February, 1) \in Nat /\ Lasts(y, February) \in Nat \ {0}
    BY <1>0, <2>2, MonthAfter, CalendarBasis
  <2>4. window.from \in Int /\ window.to \in Int /\ window.from < window.to
    BY DEF InCalendar
  <2>5. \E n \in Int : /\ window.from <= n /\ n < window.to
                       /\ At(y, February, 1) <= n /\ n < At(y, February + 1, 1)
    <3>1. CASE window.from <= At(y, February, 1)
      BY <2>1, <2>3, <2>4, <3>1
    <3>2. CASE window.from > At(y, February, 1)
      BY <2>1, <2>3, <2>4, <3>2
    <3>3. QED
      BY <2>3, <2>4, <3>1, <3>2
  <2>6. PICK n \in days : Within(n, y, February)
    BY <2>3, <2>4, <2>5 DEF Within
  <2>7. n \in 0..LastDay /\ LastOf(n) = Lasts(YearOf(n), MonthOf(n))
    BY <2>6, DaysOfWindow
  <2>8. YearOf(n) = y /\ MonthOf(n) = February
    BY <1>0, <2>2, <2>6, <2>7, MonthSpan
  <2>9. a.day > Lasts(y, February)
    BY <2>1, <2>2, <2>3 DEF Placed, Lasts, AnnualDate
  <2>10. QED
    BY <2>2, <2>6, <2>7, <2>8, <2>9 DEF DaysLacking
<1>2. ASSUME DaysLacking(a, window) # {}
      PROVE  Unplaced(a, window)
  <2>1. PICK n \in days : MonthOf(n) = a.month /\ a.day > LastOf(n)
    BY <1>2 DEF DaysLacking
  <2>2. PICK y : y = YearOf(n)
    OBVIOUS
  <2>3. /\ n \in Int /\ y \in YearsOf(window) /\ y \in 1..Len(Years)
        /\ LastOf(n) = Lasts(y, a.month) /\ Within(n, y, a.month)
    BY <2>1, <2>2, DaysOfWindow
  <2>4. ~Placed(a, y) /\ a.month = February
    <3>1. Lasts(y, a.month) \in Int /\ a.day \in Int /\ y \in DOMAIN Years
      BY <2>3, CalendarBasis DEF AnnualDate
    <3>2. ~(a.day <= Lasts(y, a.month))
      BY <2>1, <2>3, <3>1
    <3>3. ~Placed(a, y)
      BY <3>2 DEF Placed, Lasts
    <3>4. QED
      BY <3>1, <3>3 DEF AnnualDate
  <2>5. /\ At(y, February + 1, 1) = At(y, February, 1) + Lasts(y, February)
        /\ At(y, February, 1) \in Nat /\ Lasts(y, February) \in Nat \ {0}
    BY <1>0, <2>3, MonthAfter, CalendarBasis
  <2>6. window.from \in Int /\ window.to \in Int /\ window.from <= n /\ n < window.to
    BY DEF InCalendar
  <2>7. window.from < At(y, February + 1, 1) /\ window.to > At(y, February, 1)
    BY <2>3, <2>4, <2>5, <2>6 DEF Within
  <2>8. QED
    BY <2>3, <2>4, <2>7 DEF Unplaced, At
<1>3. QED
  BY <1>1, <1>2

-----------------------------------------------------------------------------
(* The overview and the calendar *)

(* The days of the months that an overview shows.                             *)
OverviewWindow(reference, both) ==
    LET first == NumberOf[<<YearOf(reference), MonthOf(reference), 1>>]
        shown == LastOf(first)
        length == IF both /\ first + shown <= LastDay THEN shown + LastOf(first + shown) ELSE shown
    IN  [from |-> first, to |-> first + length]

LEMMA SmallMod ==
    ASSUME NEW a \in Nat, NEW b \in Nat \ {0}, a < b
    PROVE  a % b = a /\ b % b = 0
  OBVIOUS

(* The year of the month after y, m.                                          *)
YearAfter(y, m) == IF m = Months THEN y + 1 ELSE y

LEMMA OverviewDays ==
    ASSUME NEW r \in 0..LastDay, YearOf(r) < Len(Years), NEW both \in BOOLEAN
    PROVE  LET y == YearOf(r)
               m == MonthOf(r)
               z == YearAfter(y, m)
               k == Following(m)
               v == OverviewWindow(r, both)
           IN  /\ InCalendar(v)
               /\ y \in 1..Len(Years) /\ m \in 1..Months /\ z \in 1..Len(Years) /\ k \in 1..Months
               /\ k # m /\ YearFor(r, m) = y /\ YearFor(r, k) = z
               /\ \A n \in Int : n \in v.from..(v.to - 1)
                                     <=> (Within(n, y, m) \/ (both /\ Within(n, z, k)))
<1> DEFINE y == YearOf(r)
           m == MonthOf(r)
           z == YearAfter(y, m)
           k == Following(m)
           v == OverviewWindow(r, both)
           first == At(y, m, 1)
           second == At(z, k, 1)
<1>1. y \in 1..Len(Years) /\ m \in 1..Months /\ y \in Int /\ m \in Int
  BY DayOfNumber, CalendarBasis DEF IsDay
<1>2. /\ k \in 1..Months /\ k \in Int /\ k # m
      /\ k = IF m = Months THEN 1 ELSE m + 1
  <2>1. CASE m = Months
    <3>1. Months % Months = 0
      BY CalendarBasis, SmallMod
    <3>2. QED
      BY <2>1, <3>1, CalendarBasis DEF Following
  <2>2. CASE m # Months
    <3>1. m \in Nat /\ Months \in Nat \ {0} /\ m < Months
      BY <1>1, <2>2, CalendarBasis
    <3> HIDE DEF m
    <3>3. m % Months = m
      BY <3>1, SmallMod
    <3>2. QED
      BY <1>1, <2>2, <3>3, CalendarBasis DEF Following, k
  <2>3. QED
    BY <2>1, <2>2
<1>3. z \in 1..Len(Years) /\ z \in Int
  BY <1>1, CalendarBasis DEF YearAfter
<1>4. YearFor(r, m) = y /\ YearFor(r, k) = z
  BY <1>1, <1>2, CalendarBasis DEF YearFor, YearAfter
<1>5. second = first + Lasts(y, m)
  <2>1. CASE m = Months
    <3>1. z = y + 1 /\ k = 1 /\ y < Len(Years)
      BY <1>2, <2>1 DEF YearAfter
    <3>2. QED
      BY <1>1, <2>1, <3>1, MonthAfter
  <2>2. CASE m # Months
    <3>1. z = y /\ k = m + 1 /\ m < Months
      BY <1>1, <1>2, <2>2, CalendarBasis DEF YearAfter
    <3>2. QED
      BY <1>1, <3>1, MonthAfter
  <2>3. QED
    BY <2>1, <2>2
<1>6. second + Lasts(z, k) \in 0..LastDay
  <2>1. CASE k < Months
    <3>1. At(z, k + 1, 1) = second + Lasts(z, k)
      BY <1>2, <1>3, <2>1, MonthAfter
    <3>2. k + 1 \in 1..Months
      BY <1>2, <2>1, CalendarBasis
    <3>3. QED
      BY <1>3, <3>1, <3>2, MonthSpan
  <2>2. CASE k = Months
    <3>1. z = y /\ z < Len(Years)
      BY <1>2, <2>2, CalendarBasis DEF YearAfter
    <3>2. At(z + 1, 1, 1) = second + Lasts(z, k)
      BY <1>2, <1>3, <2>2, <3>1, MonthAfter
    <3>3. z + 1 \in 1..Len(Years) /\ 1 \in 1..Months
      BY <1>3, <3>1, CalendarBasis
    <3>4. QED
      BY <3>2, <3>3, MonthSpan
  <2>3. QED
    BY <1>2, <2>1, <2>2, CalendarBasis
<1>7. /\ first \in 0..LastDay /\ second \in 0..LastDay
      /\ Lasts(y, m) \in Nat \ {0} /\ Lasts(z, k) \in Nat \ {0} /\ LastDay \in Nat
  BY <1>1, <1>2, <1>3, MonthSpan, CalendarBasis, LastNumber
<1>8. LastOf(first) = Lasts(y, m) /\ LastOf(second) = Lasts(z, k)
  <2>1. Within(first, y, m) /\ Within(second, z, k)
    BY <1>7 DEF Within
  <2> HIDE DEF first, second, y, m, z, k
  <2>2. YearOf(first) = y /\ MonthOf(first) = m
    BY <1>1, <1>7, <2>1, MonthSpan
  <2>4. YearOf(second) = z /\ MonthOf(second) = k
    BY <1>2, <1>3, <1>7, <2>1, MonthSpan
  <2>3. QED
    BY <2>2, <2>4 DEF LastOf, Lasts
<1>9. first + Lasts(y, m) <= LastDay
  BY <1>5, <1>7
<1>10. v = [from |-> first,
            to |-> IF both THEN first + (Lasts(y, m) + Lasts(z, k)) ELSE first + Lasts(y, m)]
  BY <1>5, <1>8, <1>9 DEF OverviewWindow, At
<1>11. v.from = first /\ v.to = IF both THEN second + Lasts(z, k) ELSE second
  <2>1. first + (Lasts(y, m) + Lasts(z, k)) = second + Lasts(z, k)
    BY <1>5, <1>7
  <2>2. QED
    BY <1>5, <1>10, <2>1
<1> HIDE DEF first, second, v
<1>12. v.to \in 0..LastDay /\ v.from < v.to
  BY <1>5, <1>6, <1>7, <1>11
<1>13. InCalendar(v)
  BY <1>7, <1>11, <1>12 DEF InCalendar
<1>14. \A n \in Int : n \in v.from..(v.to - 1) <=> (Within(n, y, m) \/ (both /\ Within(n, z, k)))
  <2>1. \A n \in Int : /\ Within(n, y, m) <=> first <= n /\ n < second
                       /\ Within(n, z, k) <=> second <= n /\ n < second + Lasts(z, k)
    BY <1>5 DEF Within, first, second
  <2>2. CASE both
    <3>1. v.from = first /\ v.to = second + Lasts(z, k)
      BY <1>11, <2>2
    <3>2. first \in Int /\ second \in Int /\ v.to \in Int /\ first <= second /\ second <= v.to
      BY <1>5, <1>7, <1>12, <3>1
    <3>3. \A n \in Int : n \in v.from..(v.to - 1) <=> first <= n /\ n < v.to
      BY <3>1, <3>2
    <3>4. QED
      BY <2>1, <2>2, <3>1, <3>2, <3>3
  <2>3. CASE ~both
    BY <1>5, <1>7, <1>11, <2>1, <2>3
  <2>4. QED
    BY <2>2, <2>3
<1>15. QED
  BY <1>1, <1>2, <1>3, <1>4, <1>13, <1>14 DEF v

(* An annual date in the window of an overview, in one of its months or in    *)
(* none.                                                                      *)
LEMMA OverviewAgrees ==
    ASSUME NEW r \in 0..LastDay, YearOf(r) < Len(Years), NEW both \in BOOLEAN,
           NEW a, AnnualDate(a)
    PROVE  LET v == OverviewWindow(r, both)
               days == AnnualDays(a, v)
           IN  /\ a.month \in MonthsShown(r, both) =>
                      /\ \A n \in days : YearOf(n) = YearFor(r, a.month)
                      /\ days = {} <=> Unplaced(a, v)
               /\ a.month \notin MonthsShown(r, both) => days = {} /\ ~Unplaced(a, v)
<1> DEFINE y == YearOf(r)
           m == MonthOf(r)
           z == YearAfter(y, m)
           k == Following(m)
           v == OverviewWindow(r, both)
           shown == v.from..(v.to - 1)
<1>1. /\ InCalendar(v)
      /\ y \in 1..Len(Years) /\ m \in 1..Months /\ z \in 1..Len(Years) /\ k \in 1..Months
      /\ k # m /\ YearFor(r, m) = y /\ YearFor(r, k) = z
      /\ \A n \in Int : n \in shown <=> (Within(n, y, m) \/ (both /\ Within(n, z, k)))
  BY OverviewDays
<1>2. \A n \in shown : /\ n \in 0..LastDay /\ n \in Int /\ LastOf(n) = Lasts(YearOf(n), MonthOf(n))
                       /\ IsDay(YearOf(n), MonthOf(n), DayOf(n))
                       /\ \/ YearOf(n) = y /\ MonthOf(n) = m
                          \/ both /\ YearOf(n) = z /\ MonthOf(n) = k
  <2>1. ASSUME NEW n \in shown
        PROVE  /\ n \in 0..LastDay /\ n \in Int /\ LastOf(n) = Lasts(YearOf(n), MonthOf(n))
               /\ \/ YearOf(n) = y /\ MonthOf(n) = m
                  \/ both /\ YearOf(n) = z /\ MonthOf(n) = k
    <3>1. n \in 0..LastDay /\ n \in Int /\ LastOf(n) = Lasts(YearOf(n), MonthOf(n))
      BY <1>1, <2>1, DaysOfWindow
    <3>2. Within(n, y, m) \/ (both /\ Within(n, z, k))
      BY <1>1, <2>1, <3>1
    <3>3. CASE Within(n, y, m)
      BY <1>1, <3>1, <3>3, MonthSpan
    <3>4. CASE both /\ Within(n, z, k)
      <4> HIDE DEF z, k
      <4>1. YearOf(n) = z /\ MonthOf(n) = k
        BY <1>1, <3>1, <3>4, MonthSpan
      <4>2. QED
        BY <3>1, <3>4, <4>1
    <3>5. QED
      BY <3>2, <3>3, <3>4
  <2>2. QED
    BY <2>1, DayOfNumber
<1> HIDE DEF v, shown, z, k
<1>3. AnnualDays(a, v) = {n \in shown : MonthOf(n) = a.month /\ DayOf(n) = a.day}
  BY <1>1, AnnualShown DEF DaysShown, shown
<1>4. Unplaced(a, v) <=> \E n \in shown : MonthOf(n) = a.month /\ a.day > LastOf(n)
  BY <1>1, AnnualLacking DEF DaysLacking, shown
<1>5. a.day \in Nat \ {0} /\ a.month \in 1..Months
  BY DEF AnnualDate
<1>6. CASE a.month \in MonthsShown(r, both)
  <2>1. PICK x \in 1..Len(Years) :
            /\ x = YearFor(r, a.month)
            /\ \A n \in shown : MonthOf(n) = a.month => YearOf(n) = x
            /\ \A n \in Int : Within(n, x, a.month) => n \in shown
    <3>1. CASE a.month = m
      BY <1>1, <1>2, <3>1 DEF z, k
    <3>2. CASE both /\ a.month = k
      BY <1>1, <1>2, <3>2
    <3>3. QED
      BY <1>6, <3>1, <3>2 DEF MonthsShown, k
  <2>2. Lasts(x, a.month) \in Nat \ {0}
    BY <1>5, CalendarBasis
  <2>3. \A n \in AnnualDays(a, v) : YearOf(n) = x
    BY <1>3, <2>1
  <2>4. CASE a.day <= Lasts(x, a.month)
    <3>1. IsDay(x, a.month, a.day) /\ a.day \in 1..Lasts(x, a.month)
      BY <1>5, <2>2, <2>4 DEF IsDay
    <3>2. PICK n \in 0..LastDay : n = At(x, a.month, a.day)
      BY <3>1, NumberOfDay
    <3>3. YearOf(n) = x /\ MonthOf(n) = a.month /\ DayOf(n) = a.day
      BY <3>1, <3>2, NumberOfDay
    <3>4. n \in Int /\ Within(n, x, a.month)
      BY <1>5, <3>2, <3>3, MonthSpan, LastNumber
    <3>5. n \in AnnualDays(a, v)
      BY <1>3, <2>1, <3>3, <3>4
    <3>6. ~Unplaced(a, v)
      <4>1. ASSUME NEW u \in shown, MonthOf(u) = a.month
            PROVE  ~(a.day > LastOf(u))
        <5>1. LastOf(u) = Lasts(x, a.month)
          BY <1>2, <2>1, <4>1
        <5>2. QED
          BY <1>5, <2>2, <2>4, <5>1
      <4>2. QED
        BY <1>4, <4>1
    <3>7. QED
      BY <1>6, <2>1, <2>3, <3>5, <3>6 DEF v
  <2>5. CASE a.day > Lasts(x, a.month)
    <3>1. AnnualDays(a, v) = {}
      <4>1. ASSUME NEW n \in AnnualDays(a, v)
            PROVE  FALSE
        <5>1. IsDay(x, a.month, a.day)
          BY <1>2, <1>3, <2>1
        <5>2. QED
          BY <1>5, <2>2, <2>5, <5>1 DEF IsDay
      <4>2. QED
        BY <4>1
    <3>2. PICK n \in 0..LastDay : n = At(x, a.month, 1)
      BY <1>5, MonthSpan
    <3>3. n \in Int /\ Within(n, x, a.month)
      BY <2>2, <3>2, LastNumber DEF Within
    <3>4. n \in shown /\ MonthOf(n) = a.month /\ YearOf(n) = x
      BY <1>5, <2>1, <3>3, MonthSpan
    <3>5. a.day > LastOf(n)
      BY <1>2, <2>5, <3>4
    <3>6. Unplaced(a, v)
      BY <1>4, <3>4, <3>5
    <3>7. QED
      BY <1>6, <3>1, <3>6 DEF v
  <2>6. QED
    BY <1>5, <2>2, <2>4, <2>5, <1>6 DEF v
<1>7. CASE a.month \notin MonthsShown(r, both)
  <2>1. \A n \in shown : MonthOf(n) # a.month
    BY <1>2, <1>7 DEF MonthsShown, k
  <2>2. QED
    BY <1>3, <1>4, <1>7, <2>1 DEF v
<1>8. QED
  BY <1>6, <1>7 DEF v

-----------------------------------------------------------------------------
(* Quotients *)

LEMMA Grown ==
    ASSUME NEW b \in Nat, NEW x \in Int, NEW y \in Int, x < y
    PROVE  x * b \in Int /\ y * b \in Int /\ x * b + b <= y * b
<1>1. PICK k \in Nat : y = x + 1 + k
  <2>1. y - x - 1 \in Nat /\ y = x + 1 + (y - x - 1)
    OBVIOUS
  <2>2. QED
    BY <2>1
<1>2. y * b = x * b + b + k * b /\ k * b >= 0
  BY <1>1
<1>3. QED
  BY <1>2

LEMMA Divided ==
    ASSUME NEW a \in Int, NEW b \in Nat \ {0}
    PROVE  /\ a \div b \in Int /\ a % b \in 0..(b - 1)
           /\ (a \div b) * b \in Int /\ a = (a \div b) * b + (a % b)
<1>1. a \div b \in Int /\ a % b \in 0..(b - 1)
  OBVIOUS
<1>2. a = b * (a \div b) + (a % b)
  OBVIOUS
<1>3. PICK q \in Int : q = a \div b
  BY <1>1
<1>4. q * b \in Int /\ b * q = q * b
  OBVIOUS
<1>5. QED
  BY <1>1, <1>2, <1>3, <1>4

LEMMA Divides ==
    ASSUME NEW b \in Nat \ {0}, NEW q \in Int, NEW r \in 0..(b - 1)
    PROVE  (q * b + r) \div b = q /\ (q * b + r) % b = r
<1>1. PICK a \in Int : a = q * b + r
  OBVIOUS
<1>2. PICK p \in Int : p = a \div b
  OBVIOUS
<1>3. PICK s \in 0..(b - 1) : s = a % b
  BY Divided
<1>4. q * b + r = p * b + s /\ q * b \in Int /\ p * b \in Int
  <2>1. a = (a \div b) * b + (a % b)
    BY Divided
  <2>2. a = p * b + s
    BY <1>2, <1>3, <2>1
  <2>3. QED
    BY <1>1, <2>2
<1>5. ~(q < p)
  BY <1>3, <1>4, Grown
<1>6. ~(p < q)
  BY <1>3, <1>4, Grown
<1>7. p = q
  BY <1>5, <1>6
<1>8. QED
  BY <1>1, <1>2, <1>3, <1>4, <1>7

LEMMA QuotientsGrow ==
    ASSUME NEW b \in Nat \ {0}, NEW x \in Int, NEW y \in Int, x <= y
    PROVE  x \div b <= y \div b
<1>1. PICK p \in Int, q \in Int : p = x \div b /\ q = y \div b
  OBVIOUS
<1>2. x = p * b + (x % b) /\ y = q * b + (y % b) /\ x % b \in 0..(b - 1) /\ y % b \in 0..(b - 1)
      /\ p * b \in Int /\ q * b \in Int
  BY <1>1, Divided
<1>3. ~(q < p)
  BY <1>2, Grown
<1>4. QED
  BY <1>1, <1>3

-----------------------------------------------------------------------------
(* Months and years, counted *)

MonthNumber(n) == YearOf(n) * Months + MonthOf(n) - 1

LEMMA MonthNumbers ==
    ASSUME NEW n \in 0..LastDay, NEW k \in 0..LastDay
    PROVE  /\ MonthNumber(n) \in Int /\ YearOf(n) \in 1..Len(Years) /\ MonthOf(n) \in 1..Months
           /\ n <= k => MonthNumber(n) <= MonthNumber(k) /\ YearOf(n) <= YearOf(k)
<1>1. \A u \in 0..LastDay : /\ YearOf(u) \in 1..Len(Years) /\ MonthOf(u) \in 1..Months
                            /\ YearOf(u) \in Int /\ MonthOf(u) \in Int
  BY DayOfNumber, CalendarBasis DEF IsDay
<1>2. Months \in Nat
  BY CalendarBasis
<1>3. ASSUME n <= k
      PROVE  MonthNumber(n) <= MonthNumber(k) /\ YearOf(n) <= YearOf(k)
  <2>1. DayAt[n] \in AllDays /\ DayAt[k] \in AllDays
        /\ NumberOf[DayAt[n]] = n /\ NumberOf[DayAt[k]] = k
    BY DayNumbers
  <2>2. ~Earlier(DayAt[k], DayAt[n])
    BY <1>3, <2>1, DaysDiffer, LastNumber
  <2>3. YearOf(n) <= YearOf(k)
    BY <1>3, YearsGrow
  <2>4. CASE YearOf(n) = YearOf(k)
    <3>1. MonthOf(n) <= MonthOf(k)
      BY <1>1, <2>2, <2>4 DEF Earlier, YearOf, MonthOf
    <3>2. YearOf(n) * Months \in Int
      BY <1>1, <1>2
    <3>3. QED
      BY <1>1, <2>3, <2>4, <3>1, <3>2 DEF MonthNumber
  <2>5. CASE YearOf(n) < YearOf(k)
    <3>1. /\ YearOf(n) * Months \in Int /\ YearOf(k) * Months \in Int
          /\ YearOf(n) * Months + Months <= YearOf(k) * Months
      BY <1>1, <1>2, <2>5, Grown
    <3>2. PICK a \in Int, b \in Int : a = YearOf(n) * Months /\ b = YearOf(k) * Months /\ a + Months <= b
      BY <3>1
    <3>3. MonthNumber(n) = a + MonthOf(n) - 1 /\ MonthNumber(k) = b + MonthOf(k) - 1
      BY <3>2 DEF MonthNumber
    <3>4. PICK i \in Int, j \in Int : /\ i = MonthOf(n) /\ j = MonthOf(k)
                                     /\ 1 <= i /\ i <= Months /\ 1 <= j
      BY <1>1, <1>2
    <3>5. MonthNumber(n) = a + i - 1 /\ MonthNumber(k) = b + j - 1
      BY <3>3, <3>4
    <3>6. MonthNumber(n) <= MonthNumber(k)
      BY <1>2, <3>2, <3>4, <3>5
    <3>7. QED
      BY <2>3, <3>6
  <2>6. QED
    BY <1>1, <2>3, <2>4, <2>5
<1>4. MonthNumber(n) \in Int
  <2>1. YearOf(n) * Months \in Int
    BY <1>1, <1>2
  <2>2. QED
    BY <1>1, <2>1 DEF MonthNumber
<1>5. QED
  BY <1>1, <1>3, <1>4

(* A day later it is at most a month, and a year, later.                      *)
LEMMA NextDay ==
    ASSUME NEW n \in 0..LastDay, n + 1 <= LastDay
    PROVE  MonthNumber(n + 1) <= MonthNumber(n) + 1 /\ YearOf(n + 1) <= YearOf(n) + 1
<1> DEFINE y == YearOf(n)
           m == MonthOf(n)
           d == DayOf(n)
<1>1. IsDay(y, m, d) /\ At(y, m, d) = n
  BY DayOfNumber
<1>2. y \in 1..Len(Years) /\ m \in 1..Months /\ d \in 1..Lasts(y, m) /\ Lasts(y, m) \in Nat
  BY <1>1, CalendarBasis DEF IsDay
<1>3. y \in Int /\ m \in Int /\ d \in Int /\ Months \in Nat /\ Len(Years) \in Nat /\ y * Months \in Int
  BY <1>2, CalendarBasis
<1>4. d < Lasts(y, m) \/ m < Months \/ y < Len(Years)
  <2>1. n < LastDay
    BY LastNumber
  <2> HIDE DEF y, m, d
  <2>2. QED
    BY <1>1, <2>1, LastNumber
<1> HIDE DEF y, m, d
<1>5. CASE d < Lasts(y, m)
  <2>1. IsDay(y, m, d + 1) /\ At(y, m, d + 1) = n + 1
    BY <1>1, <1>5, Tomorrow
  <2>2. YearOf(n + 1) = y /\ MonthOf(n + 1) = m
    BY <2>1, NumberOfDay
  <2>3. QED
    BY <1>3, <2>2 DEF MonthNumber, y, m
<1>6. CASE d = Lasts(y, m) /\ m < Months
  <2>1. IsDay(y, m + 1, 1) /\ At(y, m + 1, 1) = n + 1
    BY <1>1, <1>6, Tomorrow
  <2>2. YearOf(n + 1) = y /\ MonthOf(n + 1) = m + 1
    BY <2>1, NumberOfDay
  <2>3. MonthNumber(n + 1) = (y * Months) + (m + 1) - 1 /\ MonthNumber(n) = (y * Months) + m - 1
    BY <2>2 DEF MonthNumber, y, m
  <2>4. QED
    BY <1>3, <2>2, <2>3 DEF y
<1>7. CASE d = Lasts(y, m) /\ m = Months /\ y < Len(Years)
  <2>1. IsDay(y + 1, 1, 1) /\ At(y + 1, 1, 1) = n + 1
    BY <1>1, <1>7, Tomorrow
  <2>2. YearOf(n + 1) = y + 1 /\ MonthOf(n + 1) = 1
    BY <2>1, NumberOfDay
  <2>3. MonthNumber(n + 1) = ((y + 1) * Months) + 1 - 1 /\ MonthNumber(n) = (y * Months) + Months - 1
    BY <1>7, <2>2 DEF MonthNumber, y, m
  <2>4. (y + 1) * Months = y * Months + Months
    BY <1>3
  <2>5. QED
    BY <1>3, <2>2, <2>3, <2>4 DEF y
<1>8. QED
  BY <1>2, <1>3, <1>4, <1>5, <1>6, <1>7

LEMMA MonthsPass ==
    ASSUME NEW f \in 0..LastDay, NEW d \in 0..LastDay, f <= d
    PROVE  /\ MonthNumber(d) - MonthNumber(f) <= d - f
           /\ YearOf(d) - YearOf(f) <= d - f
<1> DEFINE S == {k \in 0..LastDay : /\ MonthNumber(k) - MonthNumber(f) <= k - f
                                    /\ YearOf(k) - YearOf(f) <= k - f}
<1>1. f \in Int /\ d \in Int /\ LastDay \in Nat
  BY LastNumber
<1>2. \A k \in 0..LastDay : MonthNumber(k) \in Int /\ YearOf(k) \in Int
  BY MonthNumbers, CalendarBasis
<1>3. f \in S
  BY <1>2
<1>4. ASSUME NEW k \in f..d, k \in S, k < d
      PROVE  k + 1 \in S
  <2>1. k \in 0..LastDay /\ k + 1 \in 0..LastDay /\ k + 1 <= LastDay
    BY <1>1, <1>4
  <2>2. MonthNumber(k + 1) <= MonthNumber(k) + 1 /\ YearOf(k + 1) <= YearOf(k) + 1
    BY <2>1, NextDay
  <2>3. /\ MonthNumber(k) \in Int /\ YearOf(k) \in Int /\ MonthNumber(k + 1) \in Int
        /\ YearOf(k + 1) \in Int /\ MonthNumber(f) \in Int /\ YearOf(f) \in Int
    BY <1>2, <2>1
  <2>4. MonthNumber(k) - MonthNumber(f) <= k - f /\ YearOf(k) - YearOf(f) <= k - f
    BY <1>4
  <2>5. QED
    BY <1>1, <2>1, <2>2, <2>3, <2>4
<1>5. f..d \subseteq S
  <2> HIDE DEF S
  <2>1. QED
    BY <1>1, <1>3, <1>4, Ascends
<1>6. d \in f..d
  BY <1>1
<1>7. QED
  BY <1>5, <1>6

-----------------------------------------------------------------------------
(* The days of a recurrence, by their index *)

Recurring == Frequencies \ {"none"}

(* How many times later than the day f a day is.                              *)
IndexOf(freq, f, d) ==
    CASE freq = "daily" -> d - f
      [] freq = "weekly" -> (d - f) \div Week
      [] freq = "monthly" -> MonthNumber(d) - MonthNumber(f)
      [] freq = "yearly" -> YearOf(d) - YearOf(f)

(* A day as far from the start of its month as the last day lets it.          *)
Kept(f, d) == DayOf(d) = Smaller(DayOf(f), LastOf(d))

OnPattern(freq, f, d) ==
    CASE freq = "daily" -> TRUE
      [] freq = "weekly" -> (d - f) % Week = 0
      [] freq = "monthly" -> Kept(f, d)
      [] freq = "yearly" -> Kept(f, d) /\ MonthOf(d) = MonthOf(f)

LEMMA Frequent ==
    ASSUME NEW freq \in Recurring
    PROVE  freq \in {"daily", "weekly", "monthly", "yearly"}
  BY DEF Recurring, Frequencies

LEMMA IndexGrows ==
    ASSUME NEW freq \in Recurring, NEW f \in 0..LastDay, NEW n \in 0..LastDay, NEW k \in 0..LastDay
    PROVE  /\ IndexOf(freq, f, n) \in Int
           /\ n <= k => IndexOf(freq, f, n) <= IndexOf(freq, f, k)
           /\ n >= f => IndexOf(freq, f, n) \in 0..(n - f)
<1>1. LastDay \in Nat /\ Week \in Nat \ {0} /\ f \in Int /\ n \in Int /\ k \in Int
  BY LastNumber, CalendarBasis
<1>2. CASE freq = "daily"
  BY <1>1, <1>2 DEF IndexOf
<1>3. CASE freq = "weekly"
  <2>1. IndexOf(freq, f, n) = (n - f) \div Week /\ IndexOf(freq, f, k) = (k - f) \div Week
    BY <1>3 DEF IndexOf
  <2>2. n - f \in Int /\ k - f \in Int /\ (n <= k => n - f <= k - f)
    BY <1>1
  <2>3. (n - f) \div Week \in Int /\ (n <= k => (n - f) \div Week <= (k - f) \div Week)
    BY <1>1, <2>2, QuotientsGrow, Divided
  <2>4. ASSUME n >= f
        PROVE  (n - f) \div Week \in 0..(n - f)
    <3>1. PICK a \in Nat : a = n - f
      BY <1>1, <2>4
    <3>2. PICK q \in Int, r \in 0..(Week - 1) : q = a \div Week /\ a = q * Week + r /\ q * Week \in Int
      BY <1>1, <3>1, Divided
    <3>3. ~(q < 0)
      <4>1. q < 0 => q * Week + Week <= 0 * Week
        BY <1>1, Grown
      <4>2. QED
        BY <1>1, <3>1, <3>2, <4>1
    <3>4. q * Week = q + q * (Week - 1) /\ q * (Week - 1) >= 0
      BY <1>1, <3>3
    <3>5. QED
      BY <1>1, <3>1, <3>2, <3>3, <3>4
  <2>5. QED
    BY <2>1, <2>3, <2>4
<1>4. CASE freq = "monthly"
  <2>1. /\ MonthNumber(n) \in Int /\ MonthNumber(k) \in Int /\ MonthNumber(f) \in Int
        /\ n <= k => MonthNumber(n) <= MonthNumber(k)
        /\ n >= f => MonthNumber(n) >= MonthNumber(f) /\ MonthNumber(n) - MonthNumber(f) <= n - f
    BY <1>1, MonthNumbers, MonthsPass
  <2>2. QED
    BY <1>1, <1>4, <2>1 DEF IndexOf
<1>5. CASE freq = "yearly"
  <2>1. /\ YearOf(n) \in Int /\ YearOf(k) \in Int /\ YearOf(f) \in Int
        /\ n <= k => YearOf(n) <= YearOf(k)
        /\ n >= f => YearOf(n) >= YearOf(f) /\ YearOf(n) - YearOf(f) <= n - f
    <3>1. \A u \in 0..LastDay : YearOf(u) \in Int
      BY MonthNumbers, CalendarBasis
    <3>2. n <= k => YearOf(n) <= YearOf(k)
      BY MonthNumbers
    <3>3. n >= f => YearOf(n) >= YearOf(f) /\ YearOf(n) - YearOf(f) <= n - f
      BY <1>1, <3>1, MonthNumbers, MonthsPass
    <3>4. QED
      BY <3>1, <3>2, <3>3
  <2>2. QED
    BY <1>1, <1>5, <2>1 DEF IndexOf
<1>6. QED
  BY <1>2, <1>3, <1>4, <1>5, Frequent

LEMMA ClampedDay ==
    ASSUME NEW y \in Int, NEW m \in 1..Months, NEW d \in Nat \ {0}
    PROVE  /\ y \notin 1..Len(Years) => Clamped(y, m, d) = Nowhere
           /\ y \in 1..Len(Years) =>
                 LET n == Clamped(y, m, d)
                 IN  /\ n \in 0..LastDay /\ YearOf(n) = y /\ MonthOf(n) = m
                     /\ DayOf(n) = Smaller(d, Lasts(y, m)) /\ n = At(y, m, Smaller(d, Lasts(y, m)))
                     /\ LastOf(n) = Lasts(y, m)
<1>1. ASSUME y \in 1..Len(Years)
      PROVE  LET n == Clamped(y, m, d)
             IN  /\ n \in 0..LastDay /\ YearOf(n) = y /\ MonthOf(n) = m
                 /\ DayOf(n) = Smaller(d, Lasts(y, m)) /\ n = At(y, m, Smaller(d, Lasts(y, m)))
                 /\ LastOf(n) = Lasts(y, m)
  <2>1. Lasts(y, m) \in Nat \ {0}
    BY <1>1, CalendarBasis
  <2>2. PICK c : c = Smaller(d, Lasts(y, m))
    OBVIOUS
  <2>3. IsDay(y, m, c)
    BY <1>1, <2>1, <2>2 DEF IsDay, Smaller
  <2>4. Clamped(y, m, d) = At(y, m, c)
    BY <1>1, <2>2, CalendarBasis DEF Clamped, At, Lasts
  <2>5. At(y, m, c) \in 0..LastDay /\ YearOf(At(y, m, c)) = y /\ MonthOf(At(y, m, c)) = m
        /\ DayOf(At(y, m, c)) = c
    BY <2>3, NumberOfDay
  <2>6. LastOf(At(y, m, c)) = Lasts(y, m)
    BY <2>5 DEF LastOf, Lasts
  <2>7. QED
    BY <2>2, <2>4, <2>5, <2>6
<1>2. QED
  BY <1>1, CalendarBasis DEF Clamped

LEMMA DayClamped ==
    ASSUME NEW f \in 0..LastDay, NEW d \in 0..LastDay
    PROVE  /\ DayOf(f) \in Nat \ {0} /\ DayOf(f) <= LastOf(f) /\ LastOf(f) \in Nat
           /\ Kept(f, f)
           /\ Kept(f, d) => Clamped(YearOf(d), MonthOf(d), DayOf(f)) = d
<1>1. \A n \in 0..LastDay : /\ YearOf(n) \in 1..Len(Years) /\ MonthOf(n) \in 1..Months
                            /\ DayOf(n) \in 1..LastOf(n) /\ LastOf(n) = Lasts(YearOf(n), MonthOf(n))
                            /\ LastOf(n) \in Nat \ {0} /\ YearOf(n) \in Int
  BY DayOfNumber, CalendarBasis DEF IsDay, LastOf, Lasts
<1>2. DayOf(f) \in Nat \ {0} /\ DayOf(f) <= LastOf(f) /\ LastOf(f) \in Nat
  BY <1>1
<1>3. Kept(f, f)
  BY <1>2 DEF Kept, Smaller
<1>4. ASSUME Kept(f, d)
      PROVE  Clamped(YearOf(d), MonthOf(d), DayOf(f)) = d
  <2>1. Clamped(YearOf(d), MonthOf(d), DayOf(f)) = At(YearOf(d), MonthOf(d), DayOf(d))
    BY <1>1, <1>2, <1>4, ClampedDay DEF Kept
  <2>2. QED
    BY <2>1, DayOfNumber
<1>5. QED
  BY <1>2, <1>3, <1>4

-----------------------------------------------------------------------------
(* _shift_date                                                                *)

ShiftTo(freq, f, i) ==
    CASE freq = "daily" -> f + i
      [] freq = "weekly" -> f + Week * i
      [] freq = "monthly" -> Clamped((MonthNumber(f) + i) \div Months,
                                     ((MonthNumber(f) + i) % Months) + 1, DayOf(f))
      [] freq = "yearly" -> Clamped(YearOf(f) + i, MonthOf(f), DayOf(f))

LEMMA ShiftedTo ==
    ASSUME NEW e, e.freq \in Recurring, NEW f \in 0..LastDay, NEW i \in Nat
    PROVE  Shifted(e, f, i) = IF ShiftTo(e.freq, f, i) \in 0..LastDay THEN ShiftTo(e.freq, f, i)
                              ELSE Nowhere
  BY Frequent DEF Shifted, ShiftTo, MonthNumber, YearOf, MonthOf, DayOf

(* The month after so many.                                                   *)
LEMMA MonthOfNumber ==
    ASSUME NEW q \in Int
    PROVE  /\ q \div Months \in Int /\ (q % Months) + 1 \in 1..Months
           /\ q = (q \div Months) * Months + ((q % Months) + 1) - 1
<1>1. Months \in Nat \ {0}
  BY CalendarBasis
<1>2. q \div Months \in Int /\ q % Months \in 0..(Months - 1)
      /\ (q \div Months) * Months \in Int /\ q = (q \div Months) * Months + (q % Months)
  BY <1>1, Divided
<1> QED
  BY <1>1, <1>2

LEMMA NumberOfMonth ==
    ASSUME NEW y \in Int, NEW m \in 1..Months
    PROVE  (y * Months + m - 1) \div Months = y /\ ((y * Months + m - 1) % Months) + 1 = m
<1>1. Months \in Nat \ {0} /\ m - 1 \in 0..(Months - 1) /\ y * Months \in Int
  BY CalendarBasis
<1>2. (y * Months + (m - 1)) \div Months = y /\ (y * Months + (m - 1)) % Months = m - 1
  BY <1>1, Divides
<1>3. y * Months + m - 1 = y * Months + (m - 1)
  BY <1>1
<1> QED
  BY <1>1, <1>2, <1>3

(* A day that a recurrence is shifted to has its pattern, and its index.      *)
LEMMA ShiftSound ==
    ASSUME NEW e, e.freq \in Recurring, NEW f \in 0..LastDay, NEW i \in Nat,
           Shifted(e, f, i) # Nowhere
    PROVE  LET d == Shifted(e, f, i)
           IN  /\ d \in 0..LastDay /\ d >= f /\ OnPattern(e.freq, f, d)
               /\ IndexOf(e.freq, f, d) = i
<1> DEFINE d == Shifted(e, f, i)
           freq == e.freq
<1> SUFFICES d \in 0..LastDay /\ d >= f /\ OnPattern(freq, f, d) /\ IndexOf(freq, f, d) = i
  OBVIOUS
<1>1. LastDay \in Nat /\ f \in Int /\ Week \in Nat \ {0} /\ Months \in Nat \ {0}
  BY LastNumber, CalendarBasis
<1>2. d = ShiftTo(freq, f, i) /\ d \in 0..LastDay
  BY ShiftedTo
<1>3. /\ YearOf(f) \in 1..Len(Years) /\ YearOf(f) \in Int /\ MonthOf(f) \in 1..Months
      /\ MonthOf(f) \in Int /\ MonthNumber(f) \in Int
      /\ DayOf(f) \in Nat \ {0} /\ Clamped(YearOf(f), MonthOf(f), DayOf(f)) = f
  <2>1. DayOf(f) \in Nat \ {0} /\ Clamped(YearOf(f), MonthOf(f), DayOf(f)) = f
    BY DayClamped
  <2>2. YearOf(f) \in 1..Len(Years) /\ MonthOf(f) \in 1..Months /\ MonthNumber(f) \in Int
    BY MonthNumbers
  <2>3. QED
    BY <1>1, <2>1, <2>2, CalendarBasis
<1> HIDE DEF d
<1>4. CASE freq = "daily"
  BY <1>1, <1>2, <1>4 DEF ShiftTo, OnPattern, IndexOf
<1>5. CASE freq = "weekly"
  <2>1. d = f + Week * i
    BY <1>2, <1>5 DEF ShiftTo
  <2>2. Week * i \in Nat /\ i * Week + 0 = Week * i /\ d - f = i * Week + 0
    BY <1>1, <2>1
  <2>3. (i * Week + 0) \div Week = i /\ (i * Week + 0) % Week = 0
    BY <1>1, Divides
  <2>4. QED
    BY <1>1, <1>2, <1>5, <2>1, <2>2, <2>3 DEF OnPattern, IndexOf
<1>6. CASE freq = "monthly"
  <2>1. PICK q \in Int : q = MonthNumber(f) + i
    BY <1>3
  <2>2. PICK y \in Int, m \in 1..Months : y = q \div Months /\ m = (q % Months) + 1
                                            /\ q = y * Months + m - 1
    BY MonthOfNumber
  <2>3. d = Clamped(y, m, DayOf(f))
    BY <1>2, <1>6, <2>1, <2>2 DEF ShiftTo
  <2>4. y \in 1..Len(Years)
    <3>1. Clamped(y, m, DayOf(f)) # Nowhere
      BY <1>1, <1>2, <2>3 DEF Nowhere
    <3>2. y \in Int /\ m \in 1..Months /\ DayOf(f) \in Nat \ {0}
      BY <1>3
    <3>3. QED
      BY <3>1, <3>2, ClampedDay
  <2>5. YearOf(d) = y /\ MonthOf(d) = m /\ DayOf(d) = Smaller(DayOf(f), LastOf(d))
    <3>1. y \in Int /\ m \in 1..Months /\ DayOf(f) \in Nat \ {0}
      BY <1>3
    <3>2. QED
      BY <2>3, <2>4, <3>1, ClampedDay
  <2>6. MonthNumber(d) = MonthNumber(f) + i
    BY <2>1, <2>2, <2>5 DEF MonthNumber
  <2>7. d >= f
    <3>1. CASE i = 0
      <4>1. q = YearOf(f) * Months + MonthOf(f) - 1
        BY <1>3, <2>1, <3>1 DEF MonthNumber
      <4>2. y = YearOf(f) /\ m = MonthOf(f)
        BY <1>3, <2>2, <4>1, NumberOfMonth
      <4>3. QED
        BY <1>1, <1>3, <2>3, <4>2
    <3>2. CASE i > 0
      <4>1. ~(d <= f)
        BY <1>2, <1>3, <2>6, <3>2, MonthNumbers
      <4>2. QED
        BY <1>1, <1>2, <4>1
    <3>3. QED
      BY <3>1, <3>2
  <2>8. QED
    BY <1>2, <1>3, <1>6, <2>5, <2>6, <2>7 DEF OnPattern, IndexOf, Kept
<1>7. CASE freq = "yearly"
  <2>1. d = Clamped(YearOf(f) + i, MonthOf(f), DayOf(f))
    BY <1>2, <1>7 DEF ShiftTo
  <2>2. YearOf(f) + i \in Int
    BY <1>3
  <2>3. YearOf(f) + i \in 1..Len(Years)
    <3>1. Clamped(YearOf(f) + i, MonthOf(f), DayOf(f)) # Nowhere
      BY <1>1, <1>2, <2>1 DEF Nowhere
    <3>2. QED
      BY <1>3, <2>2, <3>1, ClampedDay
  <2>4. YearOf(d) = YearOf(f) + i /\ MonthOf(d) = MonthOf(f) /\ DayOf(d) = Smaller(DayOf(f), LastOf(d))
    <3>1. PICK y \in Int, m \in 1..Months, c \in Nat \ {0} :
              y = YearOf(f) + i /\ m = MonthOf(f) /\ c = DayOf(f)
      BY <1>3, <2>2
    <3>2. d = Clamped(y, m, c) /\ y \in 1..Len(Years)
      BY <2>1, <2>3, <3>1
    <3>3. YearOf(d) = y /\ MonthOf(d) = m /\ DayOf(d) = Smaller(c, LastOf(d))
      BY <3>2, ClampedDay
    <3>4. QED
      BY <3>1, <3>3
  <2>5. d >= f
    <3>1. CASE i = 0
      <4>1. YearOf(f) + i = YearOf(f)
        BY <1>3, <3>1
      <4>2. QED
        BY <1>1, <1>3, <2>1, <4>1
    <3>2. CASE i > 0
      <4>1. ~(d <= f)
        BY <1>2, <1>3, <2>4, <3>2, MonthNumbers
      <4>2. QED
        BY <1>1, <1>2, <4>1
    <3>3. QED
      BY <3>1, <3>2
  <2>6. QED
    BY <1>2, <1>3, <1>7, <2>4, <2>5 DEF OnPattern, IndexOf, Kept
<1>8. QED
  BY <1>4, <1>5, <1>6, <1>7, Frequent

(* Every day with the pattern is shifted to.                                  *)
LEMMA ShiftComplete ==
    ASSUME NEW e, e.freq \in Recurring, NEW f \in 0..LastDay, NEW d \in 0..LastDay, d >= f,
           OnPattern(e.freq, f, d)
    PROVE  IndexOf(e.freq, f, d) \in 0..LastDay /\ Shifted(e, f, IndexOf(e.freq, f, d)) = d
<1> DEFINE freq == e.freq
           i == IndexOf(freq, f, d)
<1>1. LastDay \in Nat /\ f \in Int /\ d \in Int /\ Week \in Nat \ {0}
  BY LastNumber, CalendarBasis
<1>2. i \in 0..(d - f) /\ i \in Nat /\ i \in 0..LastDay
  <2>1. i \in 0..(d - f)
    BY IndexGrows
  <2>2. QED
    BY <1>1, <2>1
<1>3. /\ YearOf(f) \in Int /\ MonthNumber(f) \in Int
      /\ YearOf(d) \in Int /\ MonthOf(d) \in 1..Months /\ MonthNumber(d) \in Int
  BY MonthNumbers, CalendarBasis
<1>4. ShiftTo(freq, f, i) = d
  <2>1. CASE freq = "daily"
    BY <1>1, <2>1 DEF ShiftTo, IndexOf
  <2>2. CASE freq = "weekly"
    <3>1. PICK a \in Int : a = d - f
      BY <1>1
    <3>2. i = a \div Week /\ a % Week = 0
      BY <2>2, <3>1 DEF IndexOf, OnPattern
    <3>3. a = (a \div Week) * Week + (a % Week)
      BY <1>1, <3>1, Divided
    <3>4. a = i * Week
      BY <1>1, <1>2, <3>2, <3>3
    <3>5. Week * i = i * Week
      BY <1>1, <1>2
    <3>6. QED
      BY <1>1, <2>2, <3>1, <3>4, <3>5 DEF ShiftTo
  <2>3. CASE freq = "monthly"
    <3>1. MonthNumber(f) + i = MonthNumber(d) /\ Kept(f, d)
      BY <1>3, <2>3 DEF IndexOf, OnPattern
    <3>2. MonthNumber(d) \div Months = YearOf(d) /\ (MonthNumber(d) % Months) + 1 = MonthOf(d)
      BY <1>3, NumberOfMonth DEF MonthNumber
    <3>3. QED
      BY <2>3, <3>1, <3>2, DayClamped DEF ShiftTo
  <2>4. CASE freq = "yearly"
    <3>1. YearOf(f) + i = YearOf(d) /\ Kept(f, d) /\ MonthOf(d) = MonthOf(f)
      BY <1>3, <2>4 DEF IndexOf, OnPattern
    <3>2. QED
      BY <2>4, <3>1, DayClamped DEF ShiftTo
  <2>5. QED
    BY <2>1, <2>2, <2>3, <2>4, Frequent
<1>5. QED
  BY <1>2, <1>4, ShiftedTo

(* The days of a recurrence come in the order of their indices, without a gap *)
(* before the end of the calendar.                                            *)
LEMMA ShiftGrows ==
    ASSUME NEW e, e.freq \in Recurring, NEW f \in 0..LastDay, NEW i \in Nat, NEW j \in Nat, i < j,
           Shifted(e, f, j) # Nowhere
    PROVE  Shifted(e, f, i) # Nowhere /\ Shifted(e, f, i) < Shifted(e, f, j)
<1> DEFINE freq == e.freq
           k == Shifted(e, f, j)
           d == Shifted(e, f, i)
<1>1. LastDay \in Nat /\ f \in Int /\ Week \in Nat \ {0} /\ Months \in Nat \ {0} /\ Len(Years) \in Nat
  BY LastNumber, CalendarBasis
<1>2. k \in 0..LastDay /\ IndexOf(freq, f, k) = j
  BY ShiftSound
<1>3. k = ShiftTo(freq, f, j)
  BY ShiftedTo, <1>2
<1>4. /\ YearOf(f) \in 1..Len(Years) /\ YearOf(f) \in Int /\ MonthOf(f) \in 1..Months
      /\ MonthNumber(f) \in Int /\ DayOf(f) \in Nat \ {0}
      /\ YearOf(k) \in 1..Len(Years) /\ YearOf(k) \in Int /\ MonthNumber(k) \in Int
  <2>1. DayOf(f) \in Nat \ {0}
    BY DayClamped
  <2> HIDE DEF k
  <2>2. YearOf(f) \in 1..Len(Years) /\ MonthOf(f) \in 1..Months /\ MonthNumber(f) \in Int
        /\ YearOf(k) \in 1..Len(Years) /\ MonthNumber(k) \in Int
    BY <1>2, MonthNumbers
  <2>3. QED
    BY <1>1, <2>1, <2>2
<1> HIDE DEF k
<1>5. ShiftTo(freq, f, i) \in 0..LastDay
  <2>1. CASE freq = "daily"
    BY <1>1, <1>2, <1>3, <2>1 DEF ShiftTo
  <2>2. CASE freq = "weekly"
    <3>1. i * Week + Week <= j * Week /\ i * Week \in Nat /\ j * Week \in Nat
      BY <1>1, Grown
    <3>2. Week * i = i * Week /\ Week * j = j * Week
      BY <1>1
    <3>3. PICK a \in Nat, b \in Nat : a = i * Week /\ b = j * Week /\ a <= b
      BY <1>1, <3>1
    <3>4. ShiftTo(freq, f, i) = f + a /\ k = f + b
      BY <1>3, <2>2, <3>2, <3>3 DEF ShiftTo
    <3>5. k \in Int /\ k <= LastDay /\ f >= 0
      BY <1>1, <1>2
    <3>6. QED
      BY <1>1, <3>3, <3>4, <3>5
  <2>3. CASE freq = "monthly"
    <3>1. PICK q \in Int : q = MonthNumber(f) + i
      BY <1>4
    <3>2. PICK y \in Int, m \in 1..Months : y = q \div Months /\ m = (q % Months) + 1
                                              /\ q = y * Months + m - 1
      BY MonthOfNumber
    <3>3. MonthNumber(f) <= q /\ q <= MonthNumber(k)
      BY <1>2, <1>4, <2>3, <3>1 DEF IndexOf
    <3>4. YearOf(f) <= y
      <4>1. MonthNumber(f) \div Months <= q \div Months
        BY <1>1, <1>4, <3>3, QuotientsGrow
      <4>2. MonthNumber(f) \div Months = YearOf(f)
        BY <1>4, NumberOfMonth DEF MonthNumber
      <4>3. QED
        BY <3>2, <4>1, <4>2
    <3>5. y <= YearOf(k)
      <4>1. q \div Months <= MonthNumber(k) \div Months
        BY <1>1, <1>4, <3>3, QuotientsGrow
      <4>2. MonthNumber(k) \div Months = YearOf(k)
        BY <1>2, <1>4, MonthNumbers, NumberOfMonth DEF MonthNumber
      <4>3. QED
        BY <3>2, <4>1, <4>2
    <3>6. y \in 1..Len(Years)
      BY <1>1, <1>4, <3>4, <3>5
    <3>7. ShiftTo(freq, f, i) = Clamped(y, m, DayOf(f))
      BY <2>3, <3>1, <3>2 DEF ShiftTo
    <3>8. Clamped(y, m, DayOf(f)) \in 0..LastDay
      BY <1>4, <3>2, <3>6, ClampedDay
    <3>9. QED
      BY <3>7, <3>8
  <2>4. CASE freq = "yearly"
    <3>1. YearOf(k) = YearOf(f) + j
      BY <1>2, <1>4, <2>4 DEF IndexOf
    <3>2. YearOf(f) + i \in 1..Len(Years) /\ YearOf(f) + i \in Int
      BY <1>1, <1>4, <3>1
    <3>3. QED
      BY <1>4, <2>4, <3>2, ClampedDay DEF ShiftTo
  <2>5. QED
    BY <2>1, <2>2, <2>3, <2>4, Frequent
<1>6. d # Nowhere
  BY <1>1, <1>5, ShiftedTo DEF Nowhere
<1>7. d \in 0..LastDay /\ IndexOf(freq, f, d) = i
  BY <1>6, ShiftSound
<1> HIDE DEF d
<1>8. ~(k <= d)
  BY <1>2, <1>7, IndexGrows
<1>9. QED
  BY <1>1, <1>2, <1>6, <1>7, <1>8 DEF k, d

-----------------------------------------------------------------------------
(* Wall clocks *)

LEMMA ShowsWhere ==
    ASSUME NEW z, ZoneFits(z), NEW wall \in Int, NEW fold \in {0, 1}
    PROVE  LET p == wall - z.before
               q == wall - z.after
           IN  /\ p \in Int /\ q \in Int
               /\ p < z.at /\ q < z.at => Shows(z, wall, fold) = p
               /\ p >= z.at /\ q >= z.at => Shows(z, wall, fold) = q
               /\ p >= z.at /\ q < z.at => Shows(z, wall, fold) = p
               /\ p < z.at /\ q >= z.at => Shows(z, wall, fold) = IF fold = 0 THEN p ELSE q
<1> DEFINE p == wall - z.before
           q == wall - z.after
           shown == {t \in {p, q} : Local(z, t) = wall}
           chosen == CHOOSE t \in shown : \A u \in shown : IF fold = 0 THEN t <= u ELSE t >= u
<1> SUFFICES /\ p \in Int /\ q \in Int
             /\ p < z.at /\ q < z.at => Shows(z, wall, fold) = p
             /\ p >= z.at /\ q >= z.at => Shows(z, wall, fold) = q
             /\ p >= z.at /\ q < z.at => Shows(z, wall, fold) = p
             /\ p < z.at /\ q >= z.at => Shows(z, wall, fold) = IF fold = 0 THEN p ELSE q
  OBVIOUS
<1>1. z.at \in Int /\ z.before \in Int /\ z.after \in Int
  BY DEF ZoneFits
<1>2. p \in Int /\ q \in Int /\ z.before + p = wall /\ z.after + q = wall
  BY <1>1
<1>3. Shows(z, wall, fold) = IF shown = {} THEN p ELSE chosen
  BY DEF Shows
<1> HIDE DEF p, q, chosen
<1>4. \A t \in Int : Local(z, t) = wall <=> t = (IF t < z.at THEN p ELSE q)
  BY <1>1, <1>2 DEF Local
<1>5. CASE p < z.at /\ q < z.at
  <2>1. shown = {p}
    BY <1>2, <1>4, <1>5
  <2> HIDE DEF shown
  <2>2. chosen = p
    BY <1>2, <2>1 DEF chosen
  <2>3. QED
    BY <1>1, <1>2, <1>3, <1>5, <2>1, <2>2
<1>6. CASE p >= z.at /\ q >= z.at
  <2>1. shown = {q}
    BY <1>1, <1>2, <1>4, <1>6
  <2> HIDE DEF shown
  <2>2. chosen = q
    BY <1>2, <2>1 DEF chosen
  <2>3. QED
    BY <1>1, <1>2, <1>3, <1>6, <2>1, <2>2
<1>7. CASE p >= z.at /\ q < z.at
  <2>1. shown = {}
    BY <1>1, <1>2, <1>4, <1>7
  <2>2. QED
    BY <1>1, <1>2, <1>3, <1>7, <2>1
<1>8. CASE p < z.at /\ q >= z.at
  <2>1. shown = {p, q} /\ p < q
    BY <1>1, <1>2, <1>4, <1>8
  <2> HIDE DEF shown
  <2>2. chosen = IF fold = 0 THEN p ELSE q
    BY <1>2, <2>1 DEF chosen
  <2>3. QED
    BY <1>1, <1>2, <1>3, <1>8, <2>1, <2>2
<1>9. QED
  BY <1>1, <1>2, <1>5, <1>6, <1>7, <1>8

(* The code's search for an instant finds it.                                 *)
LEMMA ResolveShows ==
    ASSUME NEW z, ZoneFits(z), NEW wall \in Int, NEW fold \in {0, 1}
    PROVE  /\ Resolve(z, wall, fold) = Shows(z, wall, fold)
           /\ Utc(z, wall, 0) = Shows(z, wall, 0)
<1> DEFINE p == wall - z.before
           q == wall - z.after
           shows == Shows(z, wall, fold)
           first == Shows(z, wall, 0)
           candidate == Utc(z, wall, fold)
           forward == {u \in {Utc(z, wall, 0), Utc(z, wall, 1)} : Local(z, u) > wall}
           next == CHOOSE u \in forward : \A v \in forward : Local(z, u) <= Local(z, v)
<1>1. z.at \in Int /\ z.before \in Int /\ z.after \in Int
  BY DEF ZoneFits
<1>2. /\ p \in Int /\ q \in Int
      /\ p < z.at /\ q < z.at => shows = p /\ first = p
      /\ p >= z.at /\ q >= z.at => shows = q /\ first = q
      /\ p >= z.at /\ q < z.at => shows = p /\ first = p
      /\ p < z.at /\ q >= z.at => shows = (IF fold = 0 THEN p ELSE q) /\ first = p
  <2>1. 0 \in {0, 1}
    OBVIOUS
  <2>2. QED
    BY <2>1, ShowsWhere
<1>3. Resolve(z, wall, fold) = IF Local(z, candidate) = wall THEN candidate ELSE next
  BY DEF Resolve
<1>4. /\ Utc(z, wall, 0) = IF wall < z.at + Larger(z.before, z.after) THEN p ELSE q
      /\ Utc(z, wall, 1) = IF wall < z.at + Smaller(z.before, z.after) THEN p ELSE q
  BY DEF Utc
<1>5. candidate = IF fold = 0 THEN Utc(z, wall, 0) ELSE Utc(z, wall, 1)
  OBVIOUS
<1>6. /\ Local(z, p) = IF p < z.at THEN wall ELSE p + z.after
      /\ Local(z, q) = IF q < z.at THEN q + z.before ELSE wall
  BY <1>1 DEF Local
<1>7. p + z.before = wall /\ q + z.after = wall
  BY <1>1
<1> HIDE DEF p, q, shows, first, candidate, next
<1>8. CASE p < z.at /\ q < z.at
  <2>1. Utc(z, wall, 0) = p /\ Utc(z, wall, 1) = p
    BY <1>1, <1>2, <1>4, <1>7, <1>8 DEF Larger, Smaller
  <2>2. QED
    BY <1>2, <1>3, <1>5, <1>6, <1>8, <2>1 DEF shows, first
<1>9. CASE p >= z.at /\ q >= z.at
  <2>1. Utc(z, wall, 0) = q /\ Utc(z, wall, 1) = q
    BY <1>1, <1>2, <1>4, <1>7, <1>9 DEF Larger, Smaller
  <2>2. Local(z, q) = wall
    BY <1>1, <1>2, <1>6, <1>9
  <2>3. QED
    BY <1>2, <1>3, <1>5, <1>9, <2>1, <2>2 DEF shows, first
<1>10. CASE p >= z.at /\ q < z.at
  <2>1. Utc(z, wall, 0) = p /\ Utc(z, wall, 1) = q
    BY <1>1, <1>2, <1>4, <1>7, <1>10 DEF Larger, Smaller
  <2>2. Local(z, p) > wall /\ Local(z, q) < wall
    BY <1>1, <1>2, <1>6, <1>7, <1>10
  <2>3. candidate \in {p, q} /\ Local(z, candidate) # wall /\ Local(z, p) \in Int
        /\ Local(z, q) \in Int
    BY <1>1, <1>2, <1>5, <1>6, <1>10, <2>1, <2>2
  <2>4. forward = {p}
    BY <2>1, <2>2, <2>3
  <2> HIDE DEF forward
  <2>5. next = p
    BY <2>3, <2>4 DEF next
  <2>6. QED
    BY <1>2, <1>3, <1>10, <2>1, <2>3, <2>5 DEF shows, first
<1>11. CASE p < z.at /\ q >= z.at
  <2>1. Utc(z, wall, 0) = p /\ Utc(z, wall, 1) = q
    BY <1>1, <1>2, <1>4, <1>7, <1>11 DEF Larger, Smaller
  <2>2. Local(z, p) = wall /\ Local(z, q) = wall
    BY <1>1, <1>2, <1>6, <1>11
  <2>3. QED
    BY <1>2, <1>3, <1>5, <1>11, <2>1, <2>2 DEF shows, first
<1>12. QED
  BY <1>1, <1>2, <1>8, <1>9, <1>10, <1>11

(* A zone shows a wall time, or a later one on its day or the next, and as    *)
(* far from others as they are, but for the change of its clock.              *)
LEMMA ShownDay ==
    ASSUME NEW z, ZoneFits(z), NEW wall \in Int, NEW fold \in {0, 1}
    PROVE  /\ Shows(z, wall, fold) \in {wall - z.before, wall - z.after}
           /\ Shows(z, wall, fold) \in Int
           /\ Local(z, Shows(z, wall, fold)) \in Int /\ wall <= Local(z, Shows(z, wall, fold))
           /\ 4 * (Local(z, Shows(z, wall, fold)) - wall) <= Ticks
           /\ DateIn(z, Shows(z, wall, fold)) \in {wall \div Ticks, (wall \div Ticks) + 1}
<1> DEFINE p == wall - z.before
           q == wall - z.after
           t == Shows(z, wall, fold)
<1>1. z.at \in Int /\ z.before \in Int /\ z.after \in Int /\ Ticks \in Nat \ {0}
  BY CalendarBasis DEF ZoneFits
<1>2. /\ p \in Int /\ q \in Int
      /\ p < z.at /\ q < z.at => t = p
      /\ p >= z.at /\ q >= z.at => t = q
      /\ p >= z.at /\ q < z.at => t = p
      /\ p < z.at /\ q >= z.at => t = (IF fold = 0 THEN p ELSE q)
  BY ShowsWhere
<1>3. p + z.before = wall /\ q + z.after = wall
  BY <1>1
<1> SUFFICES /\ t \in {p, q} /\ t \in Int /\ Local(z, t) \in Int /\ wall <= Local(z, t)
             /\ 4 * (Local(z, t) - wall) <= Ticks
             /\ Local(z, t) \div Ticks \in {wall \div Ticks, (wall \div Ticks) + 1}
  BY DEF DateIn
<1> HIDE DEF p, q, t
<1>4. t \in {p, q} /\ t \in Int
  BY <1>1, <1>2
<1>5. PICK g \in Int : Local(z, t) = wall + g /\ g >= 0 /\ 4 * g <= Ticks
  <2>1. CASE ~(p >= z.at /\ q < z.at)
    <3>1. Local(z, t) = wall
      BY <1>1, <1>2, <1>3, <2>1 DEF Local
    <3>2. Local(z, t) = wall + 0 /\ 4 * 0 <= Ticks /\ 0 \in Int
      BY <1>1, <3>1
    <3>3. QED
      BY <3>2
  <2>2. CASE p >= z.at /\ q < z.at
    <3>1. PICK g \in Int : g = z.after - z.before
      BY <1>1
    <3>2. Local(z, t) = wall + g /\ g >= 0 /\ 4 * g <= Ticks
      BY <1>1, <1>2, <1>3, <2>2, <3>1 DEF Local, ZoneFits
    <3>3. QED
      BY <3>2
  <2>3. QED
    BY <2>1, <2>2
<1>6. PICK k \in Int, r \in 0..(Ticks - 1) : k = wall \div Ticks /\ wall = k * Ticks + r /\ k * Ticks \in Int
  <2>1. wall \div Ticks \in Int
    BY <1>1, Divided
  <2>2. wall % Ticks \in 0..(Ticks - 1) /\ wall = (wall \div Ticks) * Ticks + (wall % Ticks)
        /\ (wall \div Ticks) * Ticks \in Int
    BY <1>1, Divided
  <2>3. QED
    BY <2>1, <2>2
<1>7. Local(z, t) \div Ticks \in {k, k + 1}
  <2>1. CASE r + g < Ticks
    <3>1. r + g \in 0..(Ticks - 1) /\ Local(z, t) = k * Ticks + (r + g)
      BY <1>1, <1>5, <1>6, <2>1
    <3>2. (k * Ticks + (r + g)) \div Ticks = k
      BY <1>1, <1>6, <3>1, Divides
    <3>3. QED
      BY <3>1, <3>2
  <2>2. CASE r + g >= Ticks
    <3>1. PICK u \in 0..(Ticks - 1) : u = r + g - Ticks
      BY <1>1, <1>5, <1>6, <2>2
    <3>2. (k + 1) * Ticks = k * Ticks + Ticks
      BY <1>1, <1>6
    <3>3. Local(z, t) = (k + 1) * Ticks + u
      BY <1>1, <1>5, <1>6, <3>1, <3>2
    <3>4. k + 1 \in Int
      BY <1>6
    <3>5. ((k + 1) * Ticks + u) \div Ticks = k + 1
      BY <1>1, <3>1, <3>4, Divides
    <3>6. QED
      BY <3>3, <3>5
  <2>3. QED
    BY <1>1, <1>5, <1>6, <2>1, <2>2
<1>8. QED
  BY <1>4, <1>5, <1>6, <1>7

LEMMA ShownApart ==
    ASSUME NEW z, ZoneFits(z), NEW v \in Int, NEW w \in Int, NEW f \in {0, 1}, NEW g \in {0, 1}
    PROVE  LET s == Shows(z, v, f)
               t == Shows(z, w, g)
           IN  s \in Int /\ t \in Int /\ 4 * (t - s) >= 4 * (w - v) - Ticks
<1>1. z.at \in Int /\ z.before \in Int /\ z.after \in Int /\ Ticks \in Nat \ {0}
      /\ 4 * (z.after - z.before) <= Ticks /\ 4 * (z.before - z.after) <= Ticks
  BY CalendarBasis DEF ZoneFits
<1>2. PICK s : s = Shows(z, v, f) /\ s \in Int /\ s \in {v - z.before, v - z.after}
  BY ShownDay
<1>3. PICK t : t = Shows(z, w, g) /\ t \in Int /\ t \in {w - z.before, w - z.after}
  BY ShownDay
<1>4. 4 * (t - s) >= 4 * (w - v) - Ticks
  BY <1>1, <1>2, <1>3
<1>5. QED
  BY <1>2, <1>3, <1>4

(* An instant is shown once, or told apart by its fold.                       *)
LEMMA ShownBack ==
    ASSUME NEW z, ZoneFits(z), NEW t \in Int
    PROVE  Local(z, t) \in Int /\ FoldOf(z, t) \in {0, 1} /\ Shows(z, Local(z, t), FoldOf(z, t)) = t
<1>1. z.at \in Int /\ z.before \in Int /\ z.after \in Int
  BY DEF ZoneFits
<1>2. PICK wall \in Int : wall = Local(z, t)
  BY <1>1 DEF Local
<1>3. PICK fold \in {0, 1} : fold = FoldOf(z, t)
  BY DEF FoldOf
<1> DEFINE p == wall - z.before
           q == wall - z.after
           first == Shows(z, wall, 0)
           shows == Shows(z, wall, fold)
<1>4. /\ p \in Int /\ q \in Int
      /\ p < z.at /\ q < z.at => shows = p /\ first = p
      /\ p >= z.at /\ q >= z.at => shows = q /\ first = q
      /\ p >= z.at /\ q < z.at => shows = p /\ first = p
      /\ p < z.at /\ q >= z.at => shows = (IF fold = 0 THEN p ELSE q) /\ first = p
  <2>1. 0 \in {0, 1}
    OBVIOUS
  <2>2. QED
    BY <2>1, ShowsWhere
<1>5. fold = IF t >= z.at /\ first # t THEN 1 ELSE 0
  <2>1. Utc(z, wall, 0) = first
    BY ResolveShows
  <2>2. QED
    BY <1>2, <1>3, <2>1 DEF FoldOf
<1>6. t = IF t < z.at THEN p ELSE q
  BY <1>1, <1>2 DEF Local
<1> HIDE DEF p, q, first, shows
<1>7. shows = t
  BY <1>1, <1>4, <1>5, <1>6
<1>8. QED
  BY <1>2, <1>3, <1>7 DEF shows

-----------------------------------------------------------------------------
(* Occurrences *)

(* Wall times at which a timed event begins and ends on the day d.            *)
OpensOn(e, d) == d * Ticks + Local(e.anchor, e.start) - FirstDay(e) * Ticks
ClosesOn(e, d) == OpensOn(e, d) + (Local(e.anchor, e.end) - Local(e.anchor, e.start))

LEMMA EventDays ==
    ASSUME NEW e, EventFits(e)
    PROVE  /\ FirstDay(e) \in Int /\ FinalDay(e) \in Int /\ e.start \in Int /\ e.end \in Int
           /\ Local(e.anchor, e.start) \in Int /\ Local(e.anchor, e.end) \in Int
           /\ FoldOf(e.anchor, e.start) \in {0, 1} /\ FoldOf(e.anchor, e.end) \in {0, 1}
           /\ e.allDay => FirstDay(e) = e.start /\ FinalDay(e) = e.end
           /\ ~e.allDay => /\ FirstDay(e) = Local(e.anchor, e.start) \div Ticks
                           /\ FinalDay(e) = Local(e.anchor, e.end) \div Ticks
<1>1. e.start \in Int /\ e.end \in Int /\ ZoneFits(e.anchor) /\ Ticks \in Nat \ {0}
  BY CalendarBasis DEF EventFits
<1>2. /\ Local(e.anchor, e.start) \in Int /\ Local(e.anchor, e.end) \in Int
      /\ FoldOf(e.anchor, e.start) \in {0, 1} /\ FoldOf(e.anchor, e.end) \in {0, 1}
  BY <1>1, ShownBack
<1>3. /\ Local(e.anchor, e.start) \div Ticks \in Int /\ Local(e.anchor, e.end) \div Ticks \in Int
  BY <1>1, <1>2, Divided
<1>4. QED
  BY <1>1, <1>2, <1>3 DEF EventFits, FirstDay, FinalDay, DateIn

LEMMA WallTimes ==
    ASSUME NEW e, EventFits(e), ~e.allDay, NEW d \in Int
    PROVE  /\ OpensOn(e, d) \in Int /\ ClosesOn(e, d) \in Int /\ d * Ticks \in Int
           /\ d * Ticks <= OpensOn(e, d) /\ OpensOn(e, d) < d * Ticks + Ticks
           /\ OpensOn(e, d) = d * Ticks + (Local(e.anchor, e.start) % Ticks)
           /\ OpensOn(e, d) \div Ticks = d
           /\ (d + FinalDay(e) - FirstDay(e)) * Ticks \in Int
           /\ (d + FinalDay(e) - FirstDay(e)) * Ticks <= ClosesOn(e, d)
           /\ ClosesOn(e, d) < (d + FinalDay(e) - FirstDay(e)) * Ticks + Ticks
           /\ ClosesOn(e, d) \div Ticks = d + FinalDay(e) - FirstDay(e)
<1>1. PICK opens \in Int, closes \in Int :
          opens = Local(e.anchor, e.start) /\ closes = Local(e.anchor, e.end)
  BY EventDays
<1>2. PICK f \in Int, g \in Int : f = FirstDay(e) /\ g = FinalDay(e)
  BY EventDays
<1>3. Ticks \in Nat \ {0} /\ f = opens \div Ticks /\ g = closes \div Ticks
  BY <1>1, <1>2, EventDays, CalendarBasis
<1>4. PICK r \in 0..(Ticks - 1), s \in 0..(Ticks - 1) :
          /\ r = opens % Ticks /\ s = closes % Ticks
          /\ opens = f * Ticks + r /\ closes = g * Ticks + s
          /\ f * Ticks \in Int /\ g * Ticks \in Int
  <2>1. opens % Ticks \in 0..(Ticks - 1) /\ opens = f * Ticks + (opens % Ticks) /\ f * Ticks \in Int
    BY <1>3, Divided
  <2>2. closes % Ticks \in 0..(Ticks - 1) /\ closes = g * Ticks + (closes % Ticks) /\ g * Ticks \in Int
    BY <1>3, Divided
  <2>3. QED
    BY <2>1, <2>2
<1>5. PICK u \in Int, v \in Int, w \in Int :
          /\ u = d * Ticks /\ v = f * Ticks /\ w = g * Ticks
          /\ (d + g - f) * Ticks = u + w - v
  BY <1>3
<1>6. OpensOn(e, d) = u + r
  <2>1. OpensOn(e, d) = u + opens - v
    BY <1>1, <1>2, <1>5 DEF OpensOn
  <2>2. QED
    BY <1>4, <1>5, <2>1
<1>7. ClosesOn(e, d) = (u + w - v) + s
  <2>1. ClosesOn(e, d) = (u + r) + (closes - opens)
    BY <1>1, <1>6 DEF ClosesOn
  <2>2. opens = v + r /\ closes = w + s
    BY <1>4, <1>5
  <2>3. QED
    BY <2>1, <2>2
<1>8. (u + r) \div Ticks = d /\ ((u + w - v) + s) \div Ticks = d + g - f
  <2>1. (d * Ticks + r) \div Ticks = d /\ ((d + g - f) * Ticks + s) \div Ticks = d + g - f
    BY <1>3, Divides
  <2>2. QED
    BY <1>5, <2>1
<1>9. /\ OpensOn(e, d) \in Int /\ u <= OpensOn(e, d) /\ OpensOn(e, d) < u + Ticks
      /\ OpensOn(e, d) = u + (Local(e.anchor, e.start) % Ticks) /\ OpensOn(e, d) \div Ticks = d
  <2>1. Local(e.anchor, e.start) % Ticks = r
    BY <1>1, <1>4
  <2>2. OpensOn(e, d) \div Ticks = d
    BY <1>6, <1>8
  <2>3. OpensOn(e, d) \in Int /\ u <= OpensOn(e, d) /\ OpensOn(e, d) < u + Ticks
    BY <1>3, <1>6
  <2>4. QED
    BY <1>6, <2>1, <2>2, <2>3
<1>10. /\ ClosesOn(e, d) \in Int /\ u + w - v <= ClosesOn(e, d)
       /\ ClosesOn(e, d) < (u + w - v) + Ticks /\ ClosesOn(e, d) \div Ticks = d + g - f
  BY <1>3, <1>7, <1>8
<1>11. (d + g - f) * Ticks = u + w - v /\ d * Ticks = u /\ u + w - v \in Int /\ u \in Int
  BY <1>5
<1>12. QED
  BY <1>2, <1>9, <1>10, <1>11

(* On a day an event occurs once.                                             *)
LEMMA OnDays ==
    ASSUME NEW e, EventFits(e), NEW d \in Int, NEW z, ZoneFits(z)
    PROVE  LET o == OnDay(e, d, z)
               opens == Shows(z, OpensOn(e, d), FoldOf(e.anchor, e.start))
               closes == Shows(z, ClosesOn(e, d), FoldOf(e.anchor, e.end))
           IN  /\ o = [start |-> o.start, end |-> o.end]
               /\ o.start \in Int /\ o.end \in Int /\ o.start < o.end
               /\ e.allDay => o.start = d /\ o.end = d + (e.end - e.start)
               /\ ~e.allDay => /\ o.start = opens /\ opens \in Int /\ closes \in Int
                               /\ o.end = IF closes > opens THEN closes ELSE opens + (e.end - e.start)
                               /\ DateIn(z, o.start) \in {d, d + 1}
<1> DEFINE o == OnDay(e, d, z)
           opens == Shows(z, OpensOn(e, d), FoldOf(e.anchor, e.start))
           closes == Shows(z, ClosesOn(e, d), FoldOf(e.anchor, e.end))
<1>1. e.start \in Int /\ e.end \in Int /\ e.start < e.end
  BY DEF EventFits
<1>2. CASE e.allDay
  <2>1. o = [start |-> d, end |-> d + (e.end - e.start)]
    BY <1>2 DEF OnDay
  <2>2. QED
    BY <1>1, <1>2, <2>1
<1>3. CASE ~e.allDay
  <2>1. o = [start |-> opens, end |-> IF closes > opens THEN closes ELSE opens + (e.end - e.start)]
    BY <1>3 DEF OnDay, OpensOn, ClosesOn
  <2>2. /\ opens \in Int /\ closes \in Int
        /\ DateIn(z, opens) \in {OpensOn(e, d) \div Ticks, (OpensOn(e, d) \div Ticks) + 1}
    <3>1. OpensOn(e, d) \in Int /\ ClosesOn(e, d) \in Int
      BY <1>3, WallTimes
    <3>2. FoldOf(e.anchor, e.start) \in {0, 1} /\ FoldOf(e.anchor, e.end) \in {0, 1}
      BY EventDays
    <3>3. QED
      BY <3>1, <3>2, ShownDay
  <2>3. OpensOn(e, d) \div Ticks = d
    BY <1>3, WallTimes
  <2> HIDE DEF opens, closes, o
  <2>4. /\ o = [start |-> o.start, end |-> o.end] /\ o.start = opens
        /\ o.end = IF closes > opens THEN closes ELSE opens + (e.end - e.start)
    BY <2>1
  <2>5. o.start \in Int /\ o.end \in Int /\ o.start < o.end
    BY <1>1, <2>2, <2>4
  <2>6. QED
    BY <1>3, <2>2, <2>3, <2>4, <2>5 DEF o, opens, closes
<1>4. QED
  BY <1>2, <1>3

(* The day on which the occurrence of d begins, as the reader's zone has it.  *)
ShownOn(e, d, z) == IF e.allDay THEN d ELSE DateIn(z, OnDay(e, d, z).start)

LEMMA ShownOnDay ==
    ASSUME NEW e, EventFits(e), NEW d \in Int, NEW z, ZoneFits(z)
    PROVE  ShownOn(e, d, z) \in Int /\ d <= ShownOn(e, d, z) /\ ShownOn(e, d, z) <= d + 1
<1>1. ~e.allDay => DateIn(z, OnDay(e, d, z).start) \in {d, d + 1}
  BY OnDays
<1>2. QED
  BY <1>1 DEF ShownOn

(* occurrence_at on the day of an index                                       *)
LEMMA FirstShift ==
    ASSUME NEW e, EventFits(e), e.freq \in Recurring
    PROVE  Shifted(e, FirstDay(e), 0) = FirstDay(e)
<1>1. PICK f \in 0..LastDay : f = FirstDay(e)
  BY DEF EventFits
<1>2. f \in Int /\ f >= f /\ f - f = 0 /\ LastDay \in Nat /\ Week \in Nat \ {0}
  BY LastNumber, CalendarBasis
<1>3. IndexOf(e.freq, f, f) = 0
  BY <1>2, IndexGrows
<1>4. 0 % Week = 0
  BY <1>2
<1>5. OnPattern(e.freq, f, f)
  BY <1>2, <1>4, DayClamped, Frequent DEF OnPattern
<1>6. QED
  BY <1>1, <1>2, <1>3, <1>5, ShiftComplete

LEMMA FirstOnDay ==
    ASSUME NEW e, EventFits(e)
    PROVE  OnDay(e, FirstDay(e), e.anchor) = Itself(e)
<1> DEFINE o == OnDay(e, FirstDay(e), e.anchor)
<1>1. FirstDay(e) \in Int /\ ZoneFits(e.anchor) /\ e.start \in Int /\ e.end \in Int /\ e.start < e.end
  BY EventDays DEF EventFits
<1>2. CASE e.allDay
  <2>1. o = [start |-> e.start, end |-> e.start + (e.end - e.start)]
    BY <1>2 DEF OnDay, FirstDay
  <2>2. QED
    BY <1>1, <2>1 DEF Itself
<1>3. CASE ~e.allDay
  <2>1. OpensOn(e, FirstDay(e)) = Local(e.anchor, e.start)
        /\ ClosesOn(e, FirstDay(e)) = Local(e.anchor, e.end)
    <3>1. PICK u \in Int, v \in Int, w \in Int :
              /\ u = FirstDay(e) * Ticks /\ v = Local(e.anchor, e.start) /\ w = Local(e.anchor, e.end)
      BY <1>1, EventDays, CalendarBasis
    <3>2. OpensOn(e, FirstDay(e)) = u + v - u
      BY <3>1 DEF OpensOn
    <3>3. OpensOn(e, FirstDay(e)) = v
      BY <3>2
    <3>4. QED
      BY <3>1, <3>3 DEF ClosesOn
  <2>2. Shows(e.anchor, Local(e.anchor, e.start), FoldOf(e.anchor, e.start)) = e.start
        /\ Shows(e.anchor, Local(e.anchor, e.end), FoldOf(e.anchor, e.end)) = e.end
    BY <1>1, ShownBack
  <2>3. o = [start |-> o.start, end |-> o.end]
        /\ o.start = e.start /\ o.end = IF e.end > e.start THEN e.end ELSE e.start + (e.end - e.start)
    BY <1>1, <1>3, <2>1, <2>2, OnDays
  <2> HIDE DEF o
  <2>4. o.end = e.end
    BY <1>1, <2>3
  <2>5. QED
    BY <2>3, <2>4 DEF Itself, o
<1>4. QED
  BY <1>2, <1>3

LEMMA OccurrenceOn ==
    ASSUME NEW e, EventFits(e), e.freq \in Recurring, NEW z, ZoneFits(z), NEW i \in Nat
    PROVE  LET d == Shifted(e, FirstDay(e), i)
           IN  OccurrenceAt(e, i, z) =
                   IF d = Nowhere \/ d + FinalDay(e) - FirstDay(e) > LastDay THEN NoOccurrence
                   ELSE OnDay(e, d, z)
<1> DEFINE d == Shifted(e, FirstDay(e), i)
           last == d + FinalDay(e) - FirstDay(e)
<1>1. e.freq # "none" /\ FirstDay(e) \in 0..LastDay
  BY DEF Recurring, EventFits
<1>2. LastDay \in Nat /\ FirstDay(e) \in Int /\ FinalDay(e) \in Int /\ FinalDay(e) <= LastDay
  BY EventDays, LastNumber DEF EventFits
<1>3. CASE i = 0 /\ z = e.anchor
  <2>1. d = FirstDay(e)
    BY <1>3, FirstShift
  <2>2. d # Nowhere /\ ~(last > LastDay)
    BY <1>1, <1>2, <2>1 DEF Nowhere
  <2>3. OccurrenceAt(e, i, z) = Itself(e)
    BY <1>3 DEF OccurrenceAt
  <2>4. OnDay(e, d, z) = Itself(e)
    BY <1>3, <2>1, FirstOnDay
  <2>5. QED
    BY <2>2, <2>3, <2>4
<1>4. CASE ~(i = 0 /\ z = e.anchor)
  <2>1. OccurrenceAt(e, i, z) =
            IF d = Nowhere \/ last > LastDay THEN NoOccurrence
            ELSE IF e.allDay THEN [start |-> d, end |-> d + (e.end - e.start)] ELSE Timed(e, d, z)
    BY <1>1, <1>4 DEF OccurrenceAt
  <2>2. ASSUME d # Nowhere
        PROVE  d \in Int
    BY <1>1, <2>2, ShiftSound
  <2>3. ASSUME d \in Int, ~e.allDay
        PROVE  Timed(e, d, z) = OnDay(e, d, z)
    <3> DEFINE wall == d * Ticks + (Local(e.anchor, e.start) % Ticks)
               length == Local(e.anchor, e.end) - Local(e.anchor, e.start)
               opens == Resolve(z, wall, FoldOf(e.anchor, e.start))
               closes == Resolve(z, wall + length, FoldOf(e.anchor, e.end))
    <3>1. OpensOn(e, d) = wall /\ ClosesOn(e, d) = wall + length
      BY <2>3, WallTimes DEF ClosesOn
    <3>2. OpensOn(e, d) \in Int /\ ClosesOn(e, d) \in Int
      BY <2>3, WallTimes
    <3>3. FoldOf(e.anchor, e.start) \in {0, 1} /\ FoldOf(e.anchor, e.end) \in {0, 1}
      BY EventDays
    <3>4. /\ opens = Shows(z, OpensOn(e, d), FoldOf(e.anchor, e.start))
          /\ closes = Shows(z, ClosesOn(e, d), FoldOf(e.anchor, e.end))
      BY <3>1, <3>2, <3>3, ResolveShows
    <3>5. Timed(e, d, z) = [start |-> opens,
                            end |-> IF closes <= opens THEN opens + (e.end - e.start) ELSE closes]
      BY DEF Timed
    <3>6. /\ OnDay(e, d, z) = [start |-> OnDay(e, d, z).start, end |-> OnDay(e, d, z).end]
          /\ OnDay(e, d, z).start = opens /\ opens \in Int /\ closes \in Int
          /\ OnDay(e, d, z).end = IF closes > opens THEN closes ELSE opens + (e.end - e.start)
      BY <2>3, <3>4, OnDays
    <3> HIDE DEF opens, closes
    <3>7. (closes <= opens) = ~(closes > opens)
      BY <3>6
    <3>8. QED
      BY <3>5, <3>6, <3>7
  <2>4. ASSUME d \in Int, e.allDay
        PROVE  OnDay(e, d, z) = [start |-> d, end |-> d + (e.end - e.start)]
    BY <2>4 DEF OnDay
  <2>5. e.allDay \in BOOLEAN
    BY DEF EventFits
  <2> HIDE DEF d
  <2>6. QED
    BY <2>1, <2>2, <2>3, <2>4, <2>5 DEF last, d
<1>5. QED
  BY <1>3, <1>4

(* Later days have later occurrences.                                         *)
LEMMA OccurrencesOrdered ==
    ASSUME NEW e, EventFits(e), NEW z, ZoneFits(z), NEW d \in Int, NEW k \in Int, d < k
    PROVE  OnDay(e, d, z).start < OnDay(e, k, z).start
<1>1. PICK s \in Int, t \in Int : s = OnDay(e, d, z).start /\ t = OnDay(e, k, z).start
  BY OnDays
<1>2. CASE e.allDay
  BY <1>1, <1>2, OnDays
<1>3. CASE ~e.allDay
  <2>1. PICK v \in Int, w \in Int : v = OpensOn(e, d) /\ w = OpensOn(e, k)
    BY <1>3, WallTimes
  <2>2. Ticks \in Nat \ {0}
    BY CalendarBasis
  <2>3. PICK x \in Int, y \in Int : x = d * Ticks /\ y = k * Ticks /\ x + Ticks <= y
    BY <2>2, Grown
  <2>4. v - x = w - y
    <3>1. /\ v = x + (Local(e.anchor, e.start) % Ticks) /\ w = y + (Local(e.anchor, e.start) % Ticks)
      BY <1>3, <2>1, <2>3, WallTimes
    <3>2. Local(e.anchor, e.start) % Ticks \in Int
      BY <2>2, EventDays, Divided
    <3>3. QED
      BY <2>3, <3>1, <3>2
  <2>5. FoldOf(e.anchor, e.start) \in {0, 1}
    BY EventDays
  <2>6. s = Shows(z, v, FoldOf(e.anchor, e.start)) /\ t = Shows(z, w, FoldOf(e.anchor, e.start))
    BY <1>1, <1>3, <2>1, OnDays
  <2>7. 4 * (t - s) >= 4 * (w - v) - Ticks
    BY <2>1, <2>5, <2>6, ShownApart
  <2>8. QED
    BY <1>1, <2>1, <2>2, <2>3, <2>4, <2>7
<1>4. QED
  BY <1>2, <1>3

LEMMA MidnightShown ==
    ASSUME NEW z, ZoneFits(z), NEW day \in Int
    PROVE  /\ day * Ticks \in Int /\ Midnight(z, day) = Shows(z, day * Ticks, 0)
           /\ Midnight(z, day) \in Int /\ DateIn(z, Midnight(z, day)) = day
<1>1. Ticks \in Nat \ {0} /\ 0 \in {0, 1} /\ 0 \in 0..(Ticks - 1)
  BY CalendarBasis
<1>2. PICK w \in Int : w = day * Ticks
  BY <1>1
<1>3. Midnight(z, day) = Shows(z, w, 0)
  BY <1>1, <1>2, ResolveShows DEF Midnight
<1>4. PICK t \in Int, x \in Int : t = Shows(z, w, 0) /\ x = Local(z, t) /\ w <= x /\ 4 * (x - w) <= Ticks
  BY <1>1, <1>2, ShownDay
<1>5. PICK r \in 0..(Ticks - 1) : x = w + r
  <2>1. x - w \in 0..(Ticks - 1) /\ x = w + (x - w)
    BY <1>1, <1>2, <1>4
  <2>2. QED
    BY <2>1
<1>6. (day * Ticks + r) \div Ticks = day
  BY <1>1, Divides
<1>7. DateIn(z, t) = day
  BY <1>2, <1>4, <1>5, <1>6 DEF DateIn
<1>8. QED
  BY <1>2, <1>3, <1>4, <1>7

(* Before the earliest day no occurrence reaches into the window.             *)
LEMMA EarlierOver ==
    ASSUME NEW e, EventFits(e), NEW z, ZoneFits(z), NEW k \in Int, NEW d \in Int, d < Earliest(e, k)
    PROVE  OnDay(e, d, z).end <= Bound(e, z, k)
<1>1. /\ FirstDay(e) \in Int /\ FinalDay(e) \in Int /\ e.start \in Int /\ e.end \in Int
      /\ Ticks \in Nat \ {0}
  BY EventDays, CalendarBasis
<1>2. PICK span \in Int : span = FinalDay(e) - FirstDay(e)
  BY <1>1
<1>3. d + 2 <= k /\ d + span + 3 <= k
  BY <1>1, <1>2 DEF Earliest, Larger
<1>4. CASE e.allDay
  <2>1. OnDay(e, d, z).end = d + span
    BY <1>2, <1>4, OnDays, EventDays
  <2>2. QED
    BY <1>2, <1>3, <1>4, <2>1 DEF Bound
<1>5. CASE ~e.allDay
  <2>1. PICK v \in Int, w \in Int : v = OpensOn(e, d) /\ w = ClosesOn(e, d)
    BY <1>5, WallTimes
  <2>2. PICK x \in Int, y \in Int, n \in Int :
            x = d * Ticks /\ y = (d + FinalDay(e) - FirstDay(e)) * Ticks /\ n = k * Ticks
    BY <1>1
  <2>3. v < x + Ticks /\ w < y + Ticks
    BY <1>5, <2>1, <2>2, WallTimes
  <2>4. n >= x + Ticks + Ticks
    <3>1. d + 1 < k /\ (d + 1) * Ticks = x + Ticks
      BY <1>1, <1>3, <2>2
    <3>2. (d + 1) * Ticks + Ticks <= n
      BY <1>1, <2>2, <3>1, Grown
    <3>3. QED
      BY <1>1, <2>2, <3>1, <3>2
  <2>5. n >= y + Ticks + Ticks
    <3>1. PICK c \in Int : c = d + FinalDay(e) - FirstDay(e)
      BY <1>1
    <3>2. c + 1 < k /\ (c + 1) * Ticks = y + Ticks
      BY <1>1, <1>2, <1>3, <2>2, <3>1
    <3>3. (c + 1) * Ticks + Ticks <= n
      BY <1>1, <2>2, <3>1, <3>2, Grown
    <3>4. QED
      BY <1>1, <2>2, <3>2, <3>3
  <2>6. /\ FoldOf(e.anchor, e.start) \in {0, 1} /\ FoldOf(e.anchor, e.end) \in {0, 1} /\ 0 \in {0, 1}
        /\ ZoneFits(e.anchor) /\ Local(e.anchor, e.start) \in Int /\ Local(e.anchor, e.end) \in Int
    BY EventDays DEF EventFits
  <2>7. PICK s \in Int, t \in Int, m \in Int :
            /\ s = Shows(z, v, FoldOf(e.anchor, e.start)) /\ t = Shows(z, w, FoldOf(e.anchor, e.end))
            /\ m = Shows(z, n, 0)
    BY <2>1, <2>2, <2>6, ShownDay
  <2>8. /\ 4 * (m - s) >= 4 * (n - v) - Ticks /\ 4 * (m - t) >= 4 * (n - w) - Ticks
        /\ 4 * (t - s) >= 4 * (w - v) - Ticks
    BY <2>1, <2>2, <2>6, <2>7, ShownApart
  <2>9. 4 * (e.start - e.end) >= 4 * (v - w) - Ticks
    <3>1. Shows(e.anchor, Local(e.anchor, e.start), FoldOf(e.anchor, e.start)) = e.start
          /\ Shows(e.anchor, Local(e.anchor, e.end), FoldOf(e.anchor, e.end)) = e.end
      BY <1>1, <2>6, ShownBack
    <3>2. 4 * (e.start - e.end) >= 4 * (Local(e.anchor, e.start) - Local(e.anchor, e.end)) - Ticks
      BY <2>6, <3>1, ShownApart
    <3>3. w - v = Local(e.anchor, e.end) - Local(e.anchor, e.start)
      BY <2>1, <2>6 DEF ClosesOn
    <3>4. QED
      BY <1>1, <2>1, <2>6, <3>2, <3>3
  <2>10. OnDay(e, d, z).end = IF t > s THEN t ELSE s + (e.end - e.start)
    <3>1. LET opens == Shows(z, OpensOn(e, d), FoldOf(e.anchor, e.start))
              closes == Shows(z, ClosesOn(e, d), FoldOf(e.anchor, e.end))
          IN  OnDay(e, d, z).end = IF closes > opens THEN closes ELSE opens + (e.end - e.start)
      BY <1>5 DEF OnDay, OpensOn, ClosesOn
    <3>2. QED
      BY <2>1, <2>7, <3>1
  <2>11. Bound(e, z, k) = m
    BY <1>5, <2>2, <2>7, MidnightShown DEF Bound
  <2>12. t <= m
    BY <1>1, <2>2, <2>1, <2>3, <2>5, <2>7, <2>8
  <2>13. t <= s => s + (e.end - e.start) <= m
    BY <1>1, <2>2, <2>1, <2>3, <2>4, <2>7, <2>8, <2>9
  <2>14. QED
    BY <2>7, <2>10, <2>11, <2>12, <2>13
<1>6. QED
  BY <1>4, <1>5

-----------------------------------------------------------------------------
(* The expansion of an event over a window *)

(* first_candidate_index passes over nothing that reaches into the window.    *)
LEMMA CandidatesPassed ==
    ASSUME NEW e, EventFits(e), e.freq \in Recurring, NEW from \in 0..LastDay, Earliest(e, from) >= 0
    PROVE  /\ FirstCandidate(e, from) \in Nat
           /\ \A i \in Nat : i < FirstCandidate(e, from) /\ Shifted(e, FirstDay(e), i) # Nowhere
                                 => Shifted(e, FirstDay(e), i) < Earliest(e, from)
<1>1. PICK f \in 0..LastDay : f = FirstDay(e)
  BY DEF EventFits
<1>2. PICK early \in 0..LastDay : early = Earliest(e, from)
  <2>1. Earliest(e, from) \in Int /\ Earliest(e, from) <= from
    BY EventDays, LastNumber DEF Earliest, Larger
  <2>2. QED
    BY <2>1, LastNumber
<1>3. /\ YearOf(early) \in Int /\ YearOf(f) \in Int /\ MonthOf(early) \in Int /\ MonthOf(f) \in Int
      /\ Week \in Nat \ {0} /\ Months \in Nat /\ early \in Int /\ f \in Int /\ LastDay \in Nat
  <2>1. \A u \in 0..LastDay : YearOf(u) \in 1..Len(Years) /\ MonthOf(u) \in 1..Months
    BY MonthNumbers
  <2>2. Week \in Nat \ {0} /\ Months \in Nat /\ Len(Years) \in Nat /\ LastDay \in Nat
    BY CalendarBasis, LastNumber
  <2>3. QED
    BY <2>1, <2>2
<1>4. PICK index : /\ FirstCandidate(e, from) = Larger(0, index)
                   /\ index \in Int /\ index <= IndexOf(e.freq, f, early)
  <2> DEFINE years == YearOf(early) - YearOf(f)
             months == MonthOf(early) - MonthOf(f)
  <2>1. CASE e.freq = "daily"
    <3>1. FirstCandidate(e, from) = Larger(0, early - f)
      BY <1>1, <1>2, <2>1 DEF FirstCandidate
    <3>2. QED
      BY <1>3, <2>1, <3>1 DEF IndexOf
  <2>2. CASE e.freq = "weekly"
    <3>1. FirstCandidate(e, from) = Larger(0, (early - f) \div Week)
      BY <1>1, <1>2, <2>2 DEF FirstCandidate
    <3>2. (early - f) \div Week \in Int
      BY <1>3, Divided
    <3>3. QED
      BY <2>2, <3>1, <3>2 DEF IndexOf
  <2>3. CASE e.freq = "monthly"
    <3>1. FirstCandidate(e, from) = Larger(0, years * Months + months - 1)
      BY <1>1, <1>2, <2>3 DEF FirstCandidate
    <3>2. PICK a \in Int, b \in Int : a = YearOf(early) * Months /\ b = YearOf(f) * Months
                                      /\ years * Months = a - b
      BY <1>3
    <3>3. MonthNumber(early) = a + MonthOf(early) - 1 /\ MonthNumber(f) = b + MonthOf(f) - 1
      BY <3>2 DEF MonthNumber
    <3>4. IndexOf(e.freq, f, early) = MonthNumber(early) - MonthNumber(f)
      BY <2>3 DEF IndexOf
    <3>5. years * Months + months - 1 = IndexOf(e.freq, f, early) - 1
      BY <1>3, <3>2, <3>3, <3>4
    <3>6. IndexOf(e.freq, f, early) \in Int
      BY IndexGrows
    <3>7. QED
      BY <3>1, <3>5, <3>6
  <2>4. CASE e.freq = "yearly"
    <3>1. FirstCandidate(e, from) = Larger(0, years - 1)
      BY <1>1, <1>2, <2>4 DEF FirstCandidate
    <3>2. QED
      BY <1>3, <2>4, <3>1 DEF IndexOf
  <2>5. QED
    BY <2>1, <2>2, <2>3, <2>4, Frequent
<1>5. FirstCandidate(e, from) \in Nat
  BY <1>4 DEF Larger
<1>6. ASSUME NEW i \in Nat, i < FirstCandidate(e, from), Shifted(e, f, i) # Nowhere
      PROVE  Shifted(e, f, i) < early
  <2>1. PICK d \in 0..LastDay : d = Shifted(e, f, i) /\ IndexOf(e.freq, f, d) = i
    BY <1>6, ShiftSound
  <2>2. i < index
    BY <1>4, <1>6 DEF Larger
  <2>3. IndexOf(e.freq, f, early) \in Int
    BY IndexGrows
  <2>4. ~(early <= d)
    BY <1>4, <2>1, <2>2, <2>3, IndexGrows
  <2>5. QED
    BY <1>3, <2>1, <2>4
<1>7. QED
  BY <1>1, <1>2, <1>5, <1>6

LEMMA RecursOn ==
    ASSUME NEW e, EventFits(e), e.freq \in Recurring, NEW d \in 0..LastDay
    PROVE  Recurs(e, d) <=> /\ d >= FirstDay(e) /\ (e.until # Endless => d <= e.until)
                            /\ d + FinalDay(e) - FirstDay(e) <= LastDay
                            /\ OnPattern(e.freq, FirstDay(e), d)
  BY Frequent DEF Recurs, OnPattern, SameDay, Kept, DayOf

(* What is listed of a recurring event, by index.                             *)
Lists(e, window, z, i) ==
    LET d == Shifted(e, FirstDay(e), i)
    IN  /\ d # Nowhere /\ d + FinalDay(e) - FirstDay(e) <= LastDay
        /\ e.until # Endless => ShownOn(e, d, z) <= e.until
        /\ Overlaps(e, OnDay(e, d, z), window, z)

LEMMA PastOn ==
    ASSUME NEW e, EventFits(e), NEW z, ZoneFits(z), NEW window, InCalendar(window), NEW d \in Int
    PROVE  Past(e, OnDay(e, d, z), window, z) <=>
               \/ OnDay(e, d, z).start >= Bound(e, z, window.to)
               \/ e.until # Endless /\ ShownOn(e, d, z) > e.until
<1> DEFINE o == OnDay(e, d, z)
<1>1. o = [start |-> o.start, end |-> o.end] /\ (e.allDay => o.start = d)
      /\ (~e.allDay => ShownOn(e, d, z) = DateIn(z, o.start)) /\ (e.allDay => ShownOn(e, d, z) = d)
  BY OnDays DEF ShownOn
<1> HIDE DEF o
<1>2. o # NoOccurrence
  <2>1. "end" \in DOMAIN o /\ "end" \notin DOMAIN NoOccurrence
    BY <1>1 DEF NoOccurrence
  <2>2. QED
    BY <2>1
<1>3. (IF e.allDay THEN o.start ELSE DateIn(z, o.start)) = ShownOn(e, d, z)
  BY <1>1
<1>4. Past(e, o, window, z) <=>
          \/ o.start >= Bound(e, z, window.to)
          \/ e.until # Endless /\ ShownOn(e, d, z) > e.until
  BY <1>2, <1>3 DEF Past
<1>5. QED
  BY <1>4 DEF o

LEMMA BoundDay ==
    ASSUME NEW e, NEW z, ZoneFits(z), NEW day \in Int
    PROVE  Bound(e, z, day) \in Int
  BY MidnightShown DEF Bound

LEMMA ExpandedIndices ==
    ASSUME NEW e, EventFits(e), e.freq \in Recurring, NEW z, ZoneFits(z), NEW window, InCalendar(window),
           Earliest(e, window.from) >= 0
    PROVE  LET listed == Expanded(e, window, z)
               first == FirstCandidate(e, window.from)
           IN  /\ DOMAIN listed = {i \in first..(LastDay + 1) : Lists(e, window, z, i)}
               /\ \A i \in DOMAIN listed : listed[i] = OccurrenceAt(e, i, z)
<1> DEFINE listed == Expanded(e, window, z)
           first == FirstCandidate(e, window.from)
           at == [i \in first..(LastDay + 1) |-> OccurrenceAt(e, i, z)]
           stops == {i \in first..(LastDay + 1) : Past(e, OccurrenceAt(e, i, z), window, z)}
           shown == {k \in first..(LastDay + 1) :
                        (\A j \in stops : k < j) /\ Overlaps(e, OccurrenceAt(e, k, z), window, z)}
           f == FirstDay(e)
           span == FinalDay(e) - FirstDay(e)
           Day(i) == Shifted(e, f, i)
<1>1. window.from \in Int /\ window.to \in Int /\ LastDay \in Nat
  BY LastNumber DEF InCalendar
<1>2. e.freq # "none" /\ DateIn(z, Midnight(z, window.from)) = window.from
  BY <1>1, MidnightShown DEF Recurring
<1>3. listed = [i \in shown |-> OccurrenceAt(e, i, z)]
  <2>1. listed = [i \in {k \in DOMAIN at : /\ \A j \in {i \in DOMAIN at : Past(e, at[i], window, z)} : k < j
                                           /\ Overlaps(e, at[k], window, z)} |-> at[i]]
    BY <1>2 DEF Expanded
  <2>2. DOMAIN at = first..(LastDay + 1) /\ \A i \in first..(LastDay + 1) : at[i] = OccurrenceAt(e, i, z)
    OBVIOUS
  <2> HIDE DEF at, listed, first
  <2>3. {i \in DOMAIN at : Past(e, at[i], window, z)} = stops
    BY <2>2
  <2>4. {k \in DOMAIN at : /\ \A j \in stops : k < j
                           /\ Overlaps(e, at[k], window, z)} = shown
    BY <2>2
  <2> HIDE DEF stops, shown
  <2>5. \A i \in shown : at[i] = OccurrenceAt(e, i, z)
    BY <2>2 DEF shown
  <2>6. QED
    BY <2>1, <2>3, <2>4, <2>5
<1> HIDE DEF listed
<1>4. f \in Int /\ span \in Int /\ f \in 0..LastDay /\ (FinalDay(e) - FirstDay(e)) = span
      /\ FinalDay(e) \in Int
  BY EventDays DEF EventFits
<1>5. \A i \in Nat : OccurrenceAt(e, i, z) = IF Day(i) = Nowhere \/ Day(i) + FinalDay(e) - f > LastDay
                                             THEN NoOccurrence ELSE OnDay(e, Day(i), z)
  BY OccurrenceOn
<1>6. ASSUME NEW k \in Nat
      PROVE  OccurrenceAt(e, k, z) =
                 IF Day(k) = Nowhere \/ Day(k) + span > LastDay THEN NoOccurrence ELSE OnDay(e, Day(k), z)
  <2>1. Day(k) = Nowhere \/ Day(k) + FinalDay(e) - f = Day(k) + span
    <3>1. Day(k) # Nowhere => Day(k) \in 0..LastDay
      BY ShiftSound, <1>4
    <3>2. QED
      BY <1>1, <1>4, <3>1
  <2>2. QED
    BY <1>5, <2>1
<1> DEFINE Exists(k) == Day(k) # Nowhere /\ Day(k) + span <= LastDay
<1>7. first \in Int
  <2>1. window.from \in 0..LastDay
    BY DEF InCalendar
  <2>2. QED
    BY <2>1, CandidatesPassed
<1> HIDE DEF first
<1>8. ASSUME NEW k \in Nat, Exists(k)
      PROVE  /\ Day(k) \in 0..LastDay /\ Day(k) \in Int /\ OccurrenceAt(e, k, z) = OnDay(e, Day(k), z)
             /\ Past(e, OccurrenceAt(e, k, z), window, z) <=>
                    \/ OnDay(e, Day(k), z).start >= Bound(e, z, window.to)
                    \/ e.until # Endless /\ ShownOn(e, Day(k), z) > e.until
             /\ ShownOn(e, Day(k), z) \in Int
  <2>1. Day(k) \in 0..LastDay
    BY <1>4, <1>8, ShiftSound
  <2>2. Day(k) \in Int
    BY <1>1, <2>1
  <2>3. OccurrenceAt(e, k, z) = OnDay(e, Day(k), z)
    BY <1>1, <1>4, <1>6, <1>8, <2>2
  <2> HIDE DEF Day
  <2>4. QED
    BY <2>1, <2>2, <2>3, PastOn, ShownOnDay
<1>9. e.until \in Int /\ Bound(e, z, window.to) \in Int
  BY <1>1, BoundDay DEF EventFits
<1>10. ASSUME NEW k \in Nat, k \in first..(LastDay + 1), k \in shown
       PROVE  Lists(e, window, z, k)
  <2>1. ~Past(e, OccurrenceAt(e, k, z), window, z)
    BY <1>10
  <2>2. OccurrenceAt(e, k, z) # NoOccurrence
    BY <2>1 DEF Past
  <2>3. Exists(k)
    BY <1>1, <1>4, <1>6, <2>2, ShiftSound
  <2>4. Overlaps(e, OnDay(e, Day(k), z), window, z)
    BY <1>8, <1>10, <2>3
  <2>5. e.until # Endless => ShownOn(e, Day(k), z) <= e.until
    BY <1>8, <1>9, <2>1, <2>3
  <2>6. Day(k) + FinalDay(e) - FirstDay(e) = Day(k) + span
    BY <1>4, <1>8, <2>3
  <2>7. QED
    BY <2>3, <2>4, <2>5, <2>6 DEF Lists
<1>11. ASSUME NEW k \in Nat, k \in first..(LastDay + 1), Lists(e, window, z, k)
       PROVE  k \in shown
  <2>1. Day(k) # Nowhere /\ Day(k) + FinalDay(e) - FirstDay(e) <= LastDay
        /\ (e.until # Endless => ShownOn(e, Day(k), z) <= e.until)
        /\ Overlaps(e, OnDay(e, Day(k), z), window, z)
    BY <1>11 DEF Lists
  <2>2. Day(k) \in 0..LastDay
    BY <1>4, <2>1, ShiftSound
  <2>3. Exists(k)
    BY <1>1, <1>4, <2>1, <2>2
  <2>4. Overlaps(e, OccurrenceAt(e, k, z), window, z)
    BY <1>8, <2>1, <2>3
  <2>5. ASSUME NEW j \in stops, ~(k < j) PROVE FALSE
    <3>1. j \in Int /\ j \in first..(LastDay + 1)
      BY <1>1, <1>7
    <3>2. j \in Nat /\ j <= k
      <4>1. first \in Nat
        BY CandidatesPassed, <1>4 DEF first, InCalendar
      <4>2. QED
        BY <1>1, <2>5, <3>1, <4>1
    <3>3. Day(j) # Nowhere /\ Day(j) <= Day(k)
      <4>1. CASE j = k
        BY <4>1, <2>1, <2>2, <1>1
      <4>2. CASE j < k
        <5>1. Day(j) # Nowhere /\ Day(j) < Day(k)
          BY <1>4, <2>1, <4>2, <3>2, ShiftGrows
        <5>2. Day(j) \in 0..LastDay
          BY <1>4, <5>1, <3>2, ShiftSound
        <5>3. QED
          BY <1>1, <2>2, <5>1, <5>2
      <4>3. QED
        BY <3>2, <4>1, <4>2
    <3>4. Day(j) \in 0..LastDay
      BY <1>4, <3>2, <3>3, ShiftSound
    <3>5. Exists(j)
      BY <1>1, <1>4, <2>2, <2>3, <3>3, <3>4
    <3>6. Past(e, OccurrenceAt(e, j, z), window, z)
      BY <2>5
    <3>7. \/ OnDay(e, Day(j), z).start >= Bound(e, z, window.to)
          \/ e.until # Endless /\ ShownOn(e, Day(j), z) > e.until
      BY <1>8, <3>2, <3>5, <3>6
    <3>8. Day(j) \in Int /\ Day(k) \in Int
      BY <1>1, <2>2, <3>4
    <3>9. ~(e.until # Endless /\ ShownOn(e, Day(j), z) > e.until)
      <4>1. Day(j) = Day(k) \/ Day(j) + 1 <= Day(k)
        BY <3>3, <3>8
      <4> HIDE DEF Day
      <4>2. /\ ShownOn(e, Day(j), z) \in Int /\ ShownOn(e, Day(j), z) <= Day(j) + 1
            /\ ShownOn(e, Day(k), z) \in Int /\ Day(k) <= ShownOn(e, Day(k), z)
        BY <3>8, ShownOnDay
      <4>3. ShownOn(e, Day(j), z) <= ShownOn(e, Day(k), z)
        BY <3>8, <4>1, <4>2
      <4>4. QED
        BY <1>9, <2>1, <4>2, <4>3
    <3>10. OnDay(e, Day(k), z).start < Bound(e, z, window.to)
      BY <2>1 DEF Overlaps
    <3>11. OnDay(e, Day(j), z).start <= OnDay(e, Day(k), z).start
      <4> HIDE DEF Day
      <4>1. OnDay(e, Day(j), z).start \in Int /\ OnDay(e, Day(k), z).start \in Int
        BY <3>8, OnDays
      <4>2. CASE Day(j) = Day(k)
        BY <4>1, <4>2
      <4>3. CASE Day(j) < Day(k)
        BY <4>1, <4>3, <3>8, OccurrencesOrdered
      <4>4. QED
        BY <3>3, <3>8, <4>2, <4>3
    <3>12. OnDay(e, Day(j), z).start \in Int /\ OnDay(e, Day(k), z).start \in Int
      <4> HIDE DEF Day
      <4>1. QED
        BY <3>8, OnDays
    <3>13. QED
      BY <1>9, <3>7, <3>9, <3>10, <3>11, <3>12
  <2>6. QED
    BY <1>11, <2>4, <2>5
<1>12. first \in Nat
  BY CandidatesPassed, <1>4 DEF first, InCalendar
<1>13. shown = {i \in first..(LastDay + 1) : Lists(e, window, z, i)}
  <2> HIDE DEF shown
  <2>1. \A k \in first..(LastDay + 1) : k \in Nat /\ (k \in shown <=> Lists(e, window, z, k))
    BY <1>1, <1>10, <1>11, <1>12
  <2>2. shown \subseteq first..(LastDay + 1)
    BY DEF shown
  <2>3. QED
    BY <2>1, <2>2
<1>14. /\ DOMAIN listed = shown
       /\ \A i \in shown : listed[i] = OccurrenceAt(e, i, z)
  <2> HIDE DEF shown
  <2>1. QED
    BY <1>3
<1>15. DOMAIN listed = {i \in first..(LastDay + 1) : Lists(e, window, z, i)}
       /\ \A i \in DOMAIN listed : listed[i] = OccurrenceAt(e, i, z)
  BY <1>13, <1>14
<1>16. QED
  BY <1>15 DEF listed, first

LEMMA OneToOne ==
    ASSUME NEW S, NEW listed, listed = [x \in S |-> listed[x]], IsFiniteSet(S),
           \A x, y \in S : listed[x] = listed[y] => x = y
    PROVE  Cardinality(Range(listed)) = Cardinality(DOMAIN listed)
<1>1. DOMAIN listed = S
  OBVIOUS
<1>2. listed \in [S -> Range(listed)] /\ \A t \in Range(listed) : \E s \in S : listed[s] = t
  BY <1>1 DEF Range
<1>3. listed \in Bijection(S, Range(listed))
  BY <1>1, <1>2 DEF Bijection, Injection, Surjection, IsInjective
<1>4. ExistsBijection(S, Range(listed))
  BY <1>3 DEF ExistsBijection
<1>5. QED
  BY <1>1, <1>4, FS_Bijection

(* The expansion lists what takes place in the window, once.                  *)
Complete(listed, expected) ==
    Range(listed) = expected /\ Cardinality(DOMAIN listed) = Cardinality(expected)

LEMMA ExpandedRecurring ==
    ASSUME NEW e, EventFits(e), e.freq \in Recurring, NEW z, ZoneFits(z), NEW window, InCalendar(window),
           Earliest(e, window.from) >= 0
    PROVE  Complete(Expanded(e, window, z), Expected(e, window, z))
<1> DEFINE listed == Expanded(e, window, z)
           first == FirstCandidate(e, window.from)
           expected == Expected(e, window, z)
           Day(i) == Shifted(e, FirstDay(e), i)
           S == {i \in first..(LastDay + 1) : Lists(e, window, z, i)}
<1>1. LastDay \in Nat /\ FirstDay(e) \in 0..LastDay /\ window.from \in 0..LastDay
      /\ e.freq # "none"
  BY LastNumber DEF InCalendar, EventFits, Recurring
<1>2. FirstDay(e) \in Int /\ FinalDay(e) \in Int
  BY EventDays
<1>3. first \in Nat
  BY <1>1, CandidatesPassed
<1>4. DOMAIN listed = S /\ \A i \in S : listed[i] = OccurrenceAt(e, i, z)
  BY ExpandedIndices
<1>5. expected = {o \in {OnDay(e, d, z) : d \in {n \in 0..LastDay : Recurs(e, n) /\ ~PutOff(e, n, z)}} :
                      Overlaps(e, o, window, z)}
  BY <1>1 DEF Expected
<1> HIDE DEF listed, expected, first
<1>6. ASSUME NEW i \in S
      PROVE  /\ i \in Nat /\ Day(i) \in 0..LastDay /\ Day(i) \in Int /\ Day(i) # Nowhere
             /\ listed[i] = OnDay(e, Day(i), z)
             /\ listed[i] \in expected
  <2>1. i \in Nat /\ i \in first..(LastDay + 1)
    BY <1>1, <1>3
  <2>2. Day(i) # Nowhere /\ Day(i) + FinalDay(e) - FirstDay(e) <= LastDay
        /\ (e.until # Endless => ShownOn(e, Day(i), z) <= e.until)
        /\ Overlaps(e, OnDay(e, Day(i), z), window, z)
    BY <1>6 DEF Lists
  <2>3. Day(i) \in 0..LastDay /\ Day(i) >= FirstDay(e) /\ OnPattern(e.freq, FirstDay(e), Day(i))
    BY <1>1, <2>1, <2>2, ShiftSound
  <2>4. listed[i] = OnDay(e, Day(i), z)
    <3>1. ~(Day(i) + FinalDay(e) - FirstDay(e) > LastDay)
      BY <1>1, <1>2, <2>2, <2>3
    <3>2. listed[i] = OccurrenceAt(e, i, z)
      BY <1>4
    <3>3. QED
      BY <2>1, <2>2, <3>1, <3>2, OccurrenceOn
  <2>5. (e.until # Endless => Day(i) <= e.until) /\ ~PutOff(e, Day(i), z)
    <3>1. Day(i) \in Int /\ e.until \in Int /\ Day(i) # Endless
      BY <1>1, <2>3 DEF EventFits, Endless
    <3> HIDE DEF Day
    <3>2. ShownOn(e, Day(i), z) \in Int /\ Day(i) <= ShownOn(e, Day(i), z)
      BY <3>1, ShownOnDay
    <3>3. QED
      BY <2>2, <3>1, <3>2 DEF PutOff, ShownOn
  <2>6. Recurs(e, Day(i))
    BY <2>2, <2>3, <2>5, RecursOn
  <2> HIDE DEF Day
  <2>7. listed[i] \in expected
    BY <1>5, <2>2, <2>3, <2>4, <2>5, <2>6
  <2>8. QED
    BY <1>1, <2>1, <2>2, <2>3, <2>4, <2>7
<1>7. ASSUME NEW o \in expected
      PROVE  \E i \in S : listed[i] = o
  <2>1. PICK d \in 0..LastDay :
            Recurs(e, d) /\ ~PutOff(e, d, z) /\ o = OnDay(e, d, z) /\ Overlaps(e, o, window, z)
    BY <1>5
  <2>2. /\ d >= FirstDay(e) /\ (e.until # Endless => d <= e.until)
        /\ d + FinalDay(e) - FirstDay(e) <= LastDay /\ OnPattern(e.freq, FirstDay(e), d)
    BY <2>1, RecursOn
  <2>3. PICK i \in 0..LastDay : Shifted(e, FirstDay(e), i) = d
    BY <1>1, <2>2, ShiftComplete
  <2>4. i \in Nat /\ d \in Int /\ d # Nowhere
    BY <1>1 DEF Nowhere
  <2>5. i >= first
    <3>1. SUFFICES ASSUME i < first PROVE FALSE
      BY <1>3, <2>4
    <3>2. d < Earliest(e, window.from)
      BY <1>1, <2>3, <2>4, <3>1, CandidatesPassed DEF first
    <3>3. window.from \in Int
      BY <1>1
    <3>4. OnDay(e, d, z).end <= Bound(e, z, window.from)
      BY <2>4, <3>2, <3>3, EarlierOver
    <3>5. OnDay(e, d, z).end \in Int /\ Bound(e, z, window.from) \in Int
      BY <2>4, <3>3, OnDays, BoundDay
    <3>6. OnDay(e, d, z).end > Bound(e, z, window.from)
      BY <2>1 DEF Overlaps
    <3>7. QED
      BY <3>4, <3>5, <3>6
  <2>6. i \in first..(LastDay + 1)
    BY <1>1, <1>3, <2>4, <2>5
  <2>7. Lists(e, window, z, i)
    <3>1. e.until \in Int /\ e.allDay \in BOOLEAN
      BY DEF EventFits
    <3>2. ShownOn(e, d, z) \in Int /\ ShownOn(e, d, z) <= d + 1
      BY <2>4, ShownOnDay
    <3>3. d = e.until => ShownOn(e, d, z) = d
      BY <2>1, <3>1 DEF PutOff, ShownOn
    <3>4. e.until # Endless => ShownOn(e, d, z) <= e.until
      BY <2>2, <2>4, <3>1, <3>2, <3>3
    <3>5. QED
      BY <2>1, <2>2, <2>3, <2>4, <3>4 DEF Lists
  <2>8. i \in S
    BY <2>6, <2>7
  <2>9. listed[i] = o
    BY <1>6, <2>1, <2>3, <2>8
  <2>10. QED
    BY <2>8, <2>9
<1>8. ASSUME NEW i \in S, NEW j \in S, listed[i] = listed[j]
      PROVE  i = j
  <2>1. \A a, b \in S : a < b => listed[a].start < listed[b].start /\ listed[a].start \in Int /\ listed[b].start \in Int
    <3>1. ASSUME NEW a \in S, NEW b \in S, a < b
          PROVE  /\ listed[a].start < listed[b].start
                 /\ listed[a].start \in Int /\ listed[b].start \in Int
      <4>1. Day(a) < Day(b)
        BY <1>1, <1>6, <3>1, ShiftGrows
      <4>2. Day(a) \in Int /\ Day(b) \in Int /\ listed[a] = OnDay(e, Day(a), z) /\ listed[b] = OnDay(e, Day(b), z)
        BY <1>6
      <4> HIDE DEF Day
      <4>3. OnDay(e, Day(a), z).start < OnDay(e, Day(b), z).start
        BY <4>1, <4>2, OccurrencesOrdered
      <4>4. OnDay(e, Day(a), z).start \in Int /\ OnDay(e, Day(b), z).start \in Int
        BY <4>2, OnDays
      <4>5. QED
        BY <4>2, <4>3, <4>4
    <3>2. QED
      BY <3>1
  <2>2. i \in Nat /\ j \in Nat
    BY <1>6
  <2> HIDE DEF S
  <2>3. ~(i < j) /\ ~(j < i)
    BY <1>8, <2>1
  <2>4. QED
    BY <2>2, <2>3
<1>9. Range(listed) = expected
  <2> HIDE DEF S
  <2>1. QED
    BY <1>4, <1>6, <1>7 DEF Range
<1>10. IsFiniteSet(S)
  <2>1. S \in SUBSET (first..(LastDay + 1))
    OBVIOUS
  <2>2. IsFiniteSet(first..(LastDay + 1))
    BY <1>1, <1>3, FS_Interval
  <2> HIDE DEF S
  <2>3. QED
    BY <2>1, <2>2, FS_Subset
<1>11. listed = [i \in S |-> listed[i]]
  <2>1. listed = [i \in DOMAIN listed |-> listed[i]]
    BY DEF listed, Expanded
  <2>2. QED
    BY <1>4, <2>1
<1>12. Cardinality(DOMAIN listed) = Cardinality(expected)
  <2> HIDE DEF S
  <2>1. QED
    BY <1>8, <1>9, <1>10, <1>11, OneToOne
<1>13. QED
  BY <1>9, <1>12 DEF Complete, listed, expected

LEMMA ExpandedOnce ==
    ASSUME NEW e, EventFits(e), e.freq = "none", e.until = Endless, NEW z, ZoneFits(z),
           NEW window, InCalendar(window)
    PROVE  Complete(Expanded(e, window, z), Expected(e, window, z))
<1> DEFINE day == DateIn(z, Midnight(z, window.from))
           first == FirstCandidate(e, day)
           at == [i \in first..first |-> OccurrenceAt(e, i, z)]
           stops == {i \in DOMAIN at : Past(e, at[i], window, z)}
           S == {k \in DOMAIN at : (\A j \in stops : k < j) /\ Overlaps(e, at[k], window, z)}
           listed == Expanded(e, window, z)
           expected == Expected(e, window, z)
           o == Itself(e)
<1>1. listed = [i \in S |-> at[i]]
  BY DEF Expanded
<1>2. expected = {x \in {o} : Overlaps(e, x, window, z)}
  BY DEF Expected
<1>3. first = 0
  BY DEF FirstCandidate, Larger
<1>4. DOMAIN at = {0} /\ at[0] = o
  BY <1>3 DEF OccurrenceAt
<1>5. Overlaps(e, o, window, z) => ~Past(e, o, window, z)
  <2>1. "end" \in DOMAIN o /\ "end" \notin DOMAIN NoOccurrence
    BY DEF NoOccurrence, Itself
  <2>2. o # NoOccurrence
    BY <2>1
  <2>3. window.to \in Int
    BY LastNumber DEF InCalendar
  <2>4. Bound(e, z, window.to) \in Int /\ o.start \in Int
    BY <2>3, BoundDay DEF EventFits, Itself
  <2>5. QED
    BY <2>2, <2>4 DEF Past, Overlaps
<1> HIDE DEF listed, expected, o, at, first
<1>6. CASE Overlaps(e, o, window, z)
  <2>1. stops = {}
    BY <1>4, <1>5, <1>6
  <2>2. S = {0}
    BY <1>4, <1>6, <2>1
  <2>3. expected = {o}
    BY <1>2, <1>6
  <2>4. DOMAIN listed = {0} /\ listed[0] = o
    BY <1>1, <1>4, <2>2
  <2>5. Range(listed) = {o}
    BY <2>4 DEF Range
  <2>6. Cardinality({0}) = 1 /\ Cardinality({o}) = 1
    BY FS_Singleton
  <2>7. QED
    BY <2>3, <2>4, <2>5, <2>6 DEF Complete, listed, expected
<1>7. CASE ~Overlaps(e, o, window, z)
  <2>1. S = {}
    BY <1>4, <1>7
  <2>2. expected = {}
    BY <1>2, <1>7
  <2>3. DOMAIN listed = {}
    BY <1>1, <2>1
  <2>4. Range(listed) = {}
    BY <2>3 DEF Range
  <2>5. QED
    BY <2>2, <2>3, <2>4 DEF Complete, listed, expected
<1>8. QED
  BY <1>6, <1>7

LEMMA ExpandedComplete ==
    ASSUME NEW e, EventFits(e), ValidEvent(e), NEW z, ZoneFits(z), NEW window, InCalendar(window),
           Earliest(e, window.from) >= 0
    PROVE  Complete(Expanded(e, window, z), Expected(e, window, z))
<1>1. e.freq = "none" => e.until = Endless
  BY DEF ValidEvent
<1>2. e.freq = "none" \/ e.freq \in Recurring
  BY DEF EventFits, Recurring
<1>3. QED
  BY <1>1, <1>2, ExpandedOnce, ExpandedRecurring

-----------------------------------------------------------------------------
(* What a calendar has read, until a commit overtakes it                      *)

(* A request that neither a calendar nor an event is about.                   *)
Plain(j) == j.op # "event" /\ (j.op = "list" => DOMAIN j = {"op", "page"})

(* A request that is still fresh has been so before, is another one, or has   *)
(* just read what it is about.                                                *)
FreshAfter(w) ==
    /\ items' = items /\ events' = events
    /\ \/ w \in fresh /\ asked'[w] = asked[w]
       \/ Plain(asked'[w])
       \/ AskEvent(w) \/ AskCalendar(w) \/ AskOverview(w)

(* In a step about knowledge.                                                 *)
FreshBy(w) ==
    items' = items /\ ((w \in fresh /\ asked'[w] = asked[w]) \/ Plain(asked'[w]))

(* Requests that neither a calendar nor an event is about leave the others.   *)
ReadOn ==
    /\ \A w \in Jobs : asked'[w] = asked[w] \/ Plain(asked'[w])
    /\ \A w \in fresh' : FreshBy(w)

LEMMA FreshQuiet ==
    ASSUME ReadSound, NEW v \in Jobs, Quietly(v), items' = items
    PROVE  ReadOn
  BY DEF Quietly, ReadSound, requests, FreshBy, ReadOn, Nothing, Plain

LEMMA FreshAsk ==
    ASSUME ReadSound, NEW v \in Jobs, NEW what, Asks(v, what), Plain(what), items' = items
    PROVE  ReadOn
<1>1. asked'[v] = what /\ \A w \in Jobs \ {v} : asked'[w] = asked[w]
  BY DEF Asks, ReadSound
<1>2. fresh' = fresh \cup {v} /\ fresh \subseteq Jobs
  BY DEF Asks, ReadSound
<1>3. QED
  BY <1>1, <1>2 DEF FreshBy, ReadOn

LEMMA FreshOvertaken ==
    ASSUME NEW v, Overtakes(v), ReadSound
    PROVE  fresh' = {} /\ \A w \in Jobs : asked'[w] = asked[w] \/ Plain(asked'[w])
  BY DEF Overtakes, ReadSound, Nothing, Plain

LEMMA StartsAsk ==
    ASSUME NEW v \in Jobs, KnowledgeStarts(v)
    PROVE  \/ Overtakes(v)
           \/ items' = items /\ \E what : Asks(v, what) /\ Plain(what)
<1> USE DEF Reads, Files, Plain
<1>1. CASE StartPerson(v)
  BY <1>1 DEF StartPerson
<1>2. CASE StartDate(v)
  BY <1>2 DEF StartDate
<1>3. CASE StartTitle(v)
  BY <1>3 DEF StartTitle
<1>4. CASE DeletePerson(v) \/ DeleteDate(v)
  <2>1. PICK i, around : StartDelete(v, i, around)
    BY <1>4 DEF DeletePerson, DeleteDate
  <2>2. QED
    BY <2>1 DEF StartDelete, StartRemove, database
<1>5. CASE CreatePerson(v) \/ CreateDate(v) \/ CreateType(v)
  BY <1>5 DEF CreatePerson, CreateDate, NewItem, CreateType
<1>6. CASE StartPeople(v)
  BY <1>6 DEF StartPeople
<1>7. CASE StartReferences(v)
  BY <1>7 DEF StartReferences
<1>8. CASE StartDates(v)
  BY <1>8 DEF StartDates
<1>9. CASE StartShow(v)
  BY <1>9 DEF StartShow
<1>10. CASE StartTag(v)
  BY <1>10 DEF StartTag
<1>11. CASE StartRename(v)
  BY <1>11 DEF StartRename
<1>12. CASE StartUntag(v)
  BY <1>12 DEF StartUntag
<1>13. CASE StartRetype(v)
  BY <1>13 DEF StartRetype
<1>14. CASE StartUntype(v)
  BY <1>14 DEF StartUntype
<1>15. QED
  BY <1>1, <1>2, <1>3, <1>4, <1>5, <1>6, <1>7, <1>8, <1>9, <1>10, <1>11, <1>12, <1>13, <1>14
     DEF KnowledgeStarts

LEMMA FreshServes ==
    ASSUME ReadSound, NEW v \in Jobs, Serves(v)
    PROVE  ReadOn
<1>1. CASE ShowList(v)
  BY <1>1, FreshQuiet DEF ShowList, Files
<1>2. CASE FillDates(v) \/ FillPerson(v)
  <2>1. PICK page : /\ asked' = [asked EXCEPT ![v] = [op |-> "list", page |-> page]]
                    /\ items' = items /\ fresh' = fresh
    BY <1>2 DEF FillDates, FillPerson, Continues, Files
  <2>2. Plain(asked'[v]) /\ \A w \in Jobs \ {v} : asked'[w] = asked[w]
    BY <2>1 DEF ReadSound, Plain
  <2>3. QED
    BY <2>1, <2>2 DEF ReadSound, FreshBy, ReadOn
<1>3. CASE Overtakes(v)
  BY <1>3, FreshOvertaken DEF ReadOn
<1>4. Serves(v) => \/ ShowList(v) \/ FillDates(v) \/ FillPerson(v) \/ Overtakes(v)
  BY DEF Serves, SavePerson, SaveDate, UpdatesItem, AddTag, Rename, Untag, Retype, Untype, Title,
         Delete, Writes
<1>5. QED
  BY <1>1, <1>2, <1>3, <1>4

LEMMA FreshKnowledge ==
    ASSUME ReadSound, KnowledgeNext
    PROVE  ReadOn
<1>1. CASE \/ Tick /\ UNCHANGED <<knowledge, requests>>
           \/ (\E r \in Resumes : CreateResume(r)) /\ UNCHANGED <<knowledge, requests>>
  BY <1>1 DEF Tick, CreateResume, database, requests, FreshBy, ReadOn
<1>2. ASSUME NEW v \in Jobs, Starts(v) \/ StartPrune(v) \/ Attach(v) \/ StartReplace(v)
      PROVE  items' = items
  BY <1>2, StartsLeaveLinks
<1>3. ASSUME NEW v \in Jobs, StartFile(v)
      PROVE  ReadOn
  <2>1. CASE Starts(v) /\ Quietly(v)
    BY <1>2, <2>1, FreshQuiet
  <2>2. CASE /\ Attach(v) \/ StartReplace(v)
             /\ Asks(v, [op |-> "file", now |-> Moment']) /\ UNCHANGED knowledge
    <3> DEFINE what == [op |-> "file", now |-> Moment']
    <3>1. Asks(v, what) /\ Plain(what) /\ items' = items
      BY <1>2, <2>2 DEF Plain
    <3> HIDE DEF what
    <3>2. QED
      BY <3>1, FreshAsk
  <2>3. QED
    BY <1>3, <2>1, <2>2 DEF StartFile
<1>4. ASSUME NEW v \in Jobs, Prunes(v)
      PROVE  ReadOn
  BY <1>2, <1>4, FreshQuiet DEF Prunes
<1>5. ASSUME NEW v \in Jobs, KnowledgeStarts(v)
      PROVE  ReadOn
  <2>1. CASE Overtakes(v)
    BY <2>1, FreshOvertaken DEF ReadOn
  <2>2. CASE items' = items /\ \E what : Asks(v, what) /\ Plain(what)
    BY <2>2, FreshAsk
  <2>3. QED
    BY <1>5, <2>1, <2>2, StartsAsk
<1>6. ASSUME NEW v \in Jobs, (Works(v) \/ Breaks(v)) /\ Quietly(v)
      PROVE  ReadOn
  BY <1>6, WorksLeaveLinks, BreaksLeaveLinks, FreshQuiet
<1>7. ASSUME NEW v \in Jobs, Detached(v) \/ Attached(v)
      PROVE  ReadOn
  BY <1>7, FreshOvertaken DEF Detached, Attached, ReadOn
<1>8. QED
  BY <1>1, <1>3, <1>4, <1>5, <1>6, <1>7, FreshServes DEF KnowledgeNext, Advances

LEMMA FreshStep ==
    ASSUME ReadSound, [AgendaNext]_agendaVars, NEW w \in fresh'
    PROVE  FreshAfter(w)
<1>1. CASE KnowledgeNext /\ UNCHANGED agenda
  BY <1>1, FreshKnowledge DEF ReadOn, FreshBy, FreshAfter, agenda
<1>2. ASSUME NEW v \in Jobs, AskEvent(v) \/ AskCalendar(v) \/ AskOverview(v)
      PROVE  FreshAfter(w)
  <2>1. PICK op, what : Reads(v, op) /\ Asks(v, what) /\ UNCHANGED agenda
    BY <1>2 DEF AskEvent, AskCalendar, AskOverview
  <2>2. items' = items /\ events' = events
    BY <2>1 DEF Reads, agenda
  <2>3. w = v \/ (w \in fresh /\ asked'[w] = asked[w])
    BY <2>1 DEF Asks, ReadSound
  <2>4. QED
    BY <1>2, <2>2, <2>3 DEF FreshAfter
<1>3. ASSUME NEW v \in Jobs, WriteEvent(v)
      PROVE  FALSE
  BY <1>3, FreshOvertaken DEF WriteEvent, Writes
<1>4. CASE ChangeZone \/ UNCHANGED agendaVars
  BY <1>4 DEF ChangeZone, agendaVars, agenda, allVars, vars, database, requests, FreshAfter
<1>5. QED
  BY <1>1, <1>2, <1>3, <1>4 DEF AgendaNext

(* Other requests keep what they have read, or are not about events.          *)
LEMMA AskedFor ==
    ASSUME ReadSound, [AgendaNext]_agendaVars, NEW w \in Jobs
    PROVE  \/ asked'[w] = asked[w] \/ Plain(asked'[w])
           \/ AskEvent(w) \/ AskCalendar(w) \/ AskOverview(w)
<1>1. CASE KnowledgeNext
  BY <1>1, FreshKnowledge DEF ReadOn
<1>2. ASSUME NEW v \in Jobs, AskEvent(v) \/ AskCalendar(v) \/ AskOverview(v), v # w
      PROVE  asked'[w] = asked[w]
  <2>1. PICK op, what : Reads(v, op) /\ Asks(v, what)
    BY <1>2 DEF AskEvent, AskCalendar, AskOverview
  <2>2. QED
    BY <1>2, <2>1 DEF Asks, ReadSound
<1>3. ASSUME NEW v \in Jobs, WriteEvent(v)
      PROVE  asked'[w] = asked[w] \/ Plain(asked'[w])
  BY <1>3, FreshOvertaken DEF WriteEvent, Writes
<1>4. CASE ChangeZone \/ UNCHANGED agendaVars
  BY <1>4 DEF ChangeZone, agendaVars, agenda, allVars, vars, database, requests
<1>5. QED
  BY <1>1, <1>2, <1>3, <1>4 DEF AgendaNext

-----------------------------------------------------------------------------
(* The overview and the calendar of the same days                             *)

(* What a calendar shows, but for the people whose names it still has to read. *)
Overviewed(j) ==
    \E reference \in References, both \in BOOLEAN :
        /\ j.reference = reference /\ j.both = both
        /\ j.years = [i \in Marked(MonthsShown(reference, both)) |->
                         YearFor(reference, Annual[i].month)]

OverviewsSound ==
    \A w \in fresh : asked[w].op = "list" /\ "reference" \in DOMAIN asked[w] => Overviewed(asked[w])

LEMMA OverviewsStep ==
    ASSUME ReadSound, ReadSound', OverviewsSound, [AgendaNext]_agendaVars
    PROVE  OverviewsSound'
<1>1. ASSUME NEW w \in fresh', asked'[w].op = "list", "reference" \in DOMAIN asked'[w]
      PROVE  Overviewed(asked[w])'
  <2>1. FreshAfter(w)
    BY FreshStep
  <2>8. w \in Jobs /\ DOMAIN asked = Jobs
    BY DEF ReadSound
  <2>2. \A months : Marked(months)' = Marked(months)
    BY <2>1 DEF FreshAfter, Marked, BirthdaysIn, DatesIn
  <2>3. CASE w \in fresh /\ asked'[w] = asked[w]
    <3>1. Overviewed(asked[w])
      BY <1>1, <2>3 DEF OverviewsSound
    <3>2. PICK reference \in References, both \in BOOLEAN :
              /\ asked[w].reference = reference /\ asked[w].both = both
              /\ asked[w].years = [i \in Marked(MonthsShown(reference, both)) |->
                                      YearFor(reference, Annual[i].month)]
      BY <3>1 DEF Overviewed
    <3>3. Marked(MonthsShown(reference, both))' = Marked(MonthsShown(reference, both))
      BY <2>2
    <3>4. QED
      BY <2>3, <3>2, <3>3 DEF Overviewed
  <2>4. CASE Plain(asked'[w])
    BY <1>1, <2>4 DEF Plain
  <2>5. CASE AskEvent(w) \/ AskCalendar(w)
    <3>2. CASE AskEvent(w)
      <4>1. PICK what : Asks(w, what) /\ what.op = "event"
        BY <3>2 DEF AskEvent
      <4>2. QED
        BY <1>1, <2>8, <4>1 DEF Asks
    <3>3. CASE AskCalendar(w)
      <4>1. PICK window : Asks(w, Occurrences(window))
        BY <3>3 DEF AskCalendar
      <4>2. asked'[w] = Occurrences(window)
        BY <2>8, <4>1 DEF Asks
      <4>3. QED
        BY <1>1, <4>2 DEF Occurrences
    <3>4. QED
      BY <2>5, <3>2, <3>3
  <2>6. CASE AskOverview(w)
    <3>1. PICK reference \in References, both \in BOOLEAN : Asks(w, Overview(reference, both))
      BY <2>6 DEF AskOverview
    <3>2. asked'[w] = Overview(reference, both)
      BY <2>8, <3>1 DEF Asks
    <3>3. Marked(MonthsShown(reference, both))' = Marked(MonthsShown(reference, both))
      BY <2>2
    <3>4. QED
      BY <3>2, <3>3 DEF Overview, Overviewed
  <2>7. QED
    BY <2>1, <2>3, <2>4, <2>5, <2>6 DEF FreshAfter
<1>2. QED
  BY <1>1 DEF OverviewsSound

LEMMA AnnualKnown ==
    ASSUME NEW i \in DOMAIN Annual
    PROVE  AnnualDate(Annual[i])
  BY AgendaAssumption DEF AnnualDate

LEMMA OverviewsFollow ==
    ASSUME FilesInv, OverviewsSound, items \subseteq Items
    PROVE  CalendarsAgree
<1>1. ASSUME NEW w \in fresh, asked[w].op = "list", "reference" \in DOMAIN asked[w],
             NEW i \in items \cap DOMAIN Annual
      PROVE  LET j == asked[w]
                 window == OverviewWindow(j.reference, j.both)
                 day == AnnualDays(Annual[i], window)
             IN  IF i \in DOMAIN j.years
                 THEN /\ \A n \in day : YearOf(n) = j.years[i]
                      /\ day = {} <=> Unplaced(Annual[i], window)
                 ELSE day = {} /\ ~Unplaced(Annual[i], window)
  <2>1. PICK r \in References, both \in BOOLEAN :
            /\ asked[w].reference = r /\ asked[w].both = both
            /\ asked[w].years = [k \in Marked(MonthsShown(r, both)) |-> YearFor(r, Annual[k].month)]
    BY <1>1 DEF OverviewsSound, Overviewed
  <2>2. r \in 0..LastDay /\ YearOf(r) < Len(Years)
    BY AgendaAssumption
  <2>3. i \in Marked(MonthsShown(r, both)) <=> Annual[i].month \in MonthsShown(r, both)
    BY KnowledgeAssumption, <1>1 DEF Marked, BirthdaysIn, DatesIn
  <2> DEFINE v == OverviewWindow(r, both)
             day == AnnualDays(Annual[i], v)
  <2>4. AnnualDate(Annual[i])
    BY AnnualKnown
  <2>5. /\ Annual[i].month \in MonthsShown(r, both) =>
               /\ \A n \in day : YearOf(n) = YearFor(r, Annual[i].month)
               /\ day = {} <=> Unplaced(Annual[i], v)
        /\ Annual[i].month \notin MonthsShown(r, both) => day = {} /\ ~Unplaced(Annual[i], v)
    BY <2>2, <2>4, OverviewAgrees
  <2> HIDE DEF day, v
  <2>6. OverviewWindow(asked[w].reference, asked[w].both) = v
    BY <2>1 DEF v
  <2>7. DOMAIN asked[w].years = Marked(MonthsShown(r, both))
        /\ (i \in DOMAIN asked[w].years => asked[w].years[i] = YearFor(r, Annual[i].month))
    BY <2>1
  <2>8. QED
    BY <2>3, <2>5, <2>6, <2>7 DEF day
<1>2. QED
  BY <1>1 DEF CalendarsAgree, OverviewWindow

LEMMA OverviewsAlways == AgendaSpec => []OverviewsSound
<1>1. AgendaInit => OverviewsSound
  BY DEF AgendaInit, KnowledgeInit, OverviewsSound
<1>2. ReadSound /\ ReadSound' /\ OverviewsSound /\ [AgendaNext]_agendaVars => OverviewsSound'
  BY OverviewsStep
<1>3. QED
  BY <1>1, <1>2, ReadsAlways, PTL DEF AgendaSpec

(* CalendarsAgree: an overview of a month, or of two, names for each date in   *)
(* it the year in which the calendar of the same days has it, or lacks it, and *)
(* names no other; whatever the calendar, the last month of a year included.  *)
THEOREM CalendarsAgreeCorrect == AgendaSpec => []CalendarsAgree
<1>1. AgendaTypeOK => items \subseteq Items
  BY DEF AgendaTypeOK, KnowledgeTypeOK
<1>2. QED
  BY <1>1, AgendaTypesCorrect, OverviewsAlways, OverviewsFollow, FilesAlways, PTL

-----------------------------------------------------------------------------
(* Events as they are written, and shown to be saved again                    *)

EventRows ==
    [anchor : Zones, allDay : BOOLEAN, start : Int, end : Int, freq : Frequencies, until : Int]

(* A row that the calendar has room for.                                      *)
RowFits(e) == e \in EventRows /\ Fits(e)

(* EventResponseSchema, in the zone z.                                        *)
ShownIn(e, z) ==
    LET first == OccurrenceAt(e, 0, z)
    IN  [e EXCEPT !.start = first.start, !.end = first.end, !.anchor = z]

LEMMA AnchoredFits ==
    ASSUME NEW d \in Drafts, NEW z \in Zones
    PROVE  RowFits(Anchored(d, z))
<1>1. d \in [allDay : BOOLEAN, start : Int, end : Int, freq : Frequencies, until : Int]
  BY AgendaAssumption
<1>2. Fits(Anchored(d, z))
  BY AgendaAssumption
<1>3. Anchored(d, z) \in EventRows
  BY <1>1 DEF EventRows, Anchored
<1>4. QED
  BY <1>2, <1>3 DEF RowFits

(* The first occurrence of a recurring event is that of its first day, which  *)
(* another zone may show on the next.                                         *)
LEMMA FirstShown ==
    ASSUME NEW e, EventFits(e), e.freq \in Recurring, NEW z, ZoneFits(z)
    PROVE  LET o == OccurrenceAt(e, 0, z)
           IN  /\ o = OnDay(e, FirstDay(e), z)
               /\ o.start \in Int /\ o.end \in Int
               /\ e.allDay => o.start = e.start /\ o.end = e.end
               /\ ~e.allDay => DateIn(z, o.start) \in {FirstDay(e), FirstDay(e) + 1}
<1> DEFINE o == OccurrenceAt(e, 0, z)
<1>1. PICK f \in Int : f = FirstDay(e) /\ f \in 0..LastDay
  BY EventDays DEF EventFits
<1>2. FinalDay(e) \in Int /\ FinalDay(e) <= LastDay /\ LastDay \in Nat /\ e.start \in Int /\ e.end \in Int
  BY EventDays, LastNumber DEF EventFits
<1>3. o = OnDay(e, f, z)
  <2>1. Shifted(e, f, 0) = f
    BY <1>1, FirstShift
  <2>2. f # Nowhere /\ ~(f + FinalDay(e) - f > LastDay) /\ 0 \in Nat
    BY <1>1, <1>2 DEF Nowhere
  <2>3. QED
    BY <1>1, <2>1, <2>2, OccurrenceOn
<1> HIDE DEF o
<1>4. /\ o.start \in Int /\ o.end \in Int
      /\ e.allDay => o.start = f /\ o.end = f + (e.end - e.start)
      /\ ~e.allDay => DateIn(z, o.start) \in {f, f + 1}
  BY <1>1, <1>3, OnDays
<1>5. e.allDay => f = e.start
  BY <1>1, EventDays
<1>6. QED
  BY <1>1, <1>2, <1>3, <1>4, <1>5 DEF o

(* An event saved as it is shown, where the calendar has room for it.         *)
LEMMA ShownFits ==
    ASSUME NEW e, RowFits(e), NEW z \in Zones, Fits(ShownIn(e, z))
    PROVE  RowFits(ShownIn(e, z))
<1> DEFINE r == ShownIn(e, z)
           o == OccurrenceAt(e, 0, z)
<1>1. e \in EventRows
  BY DEF RowFits
<1>2. r = [e EXCEPT !.start = o.start, !.end = o.end, !.anchor = z]
  BY DEF ShownIn
<1> HIDE DEF o
<1>3. r.start = o.start /\ r.end = o.end
  BY <1>1, <1>2 DEF EventRows
<1>4. r.start \in Int /\ r.end \in Int
  BY DEF Fits, EventFits
<1>5. r \in EventRows
  BY <1>1, <1>2, <1>3, <1>4 DEF EventRows
<1>6. QED
  BY <1>5 DEF RowFits

(* What is written, and what requests are about to write, the calendar has    *)
(* room for.                                                                  *)
RowsFit ==
    /\ \A e \in Events : events[e].freq \in Frequencies => RowFits(events[e])
    /\ \A w \in Jobs : asked[w].op = "event" /\ asked[w].change # "delete" => RowFits(asked[w].row)

(* An event as it is shown now, of which a request is to save it.             *)
Resent(j) ==
    /\ j.zone \in Zones /\ j.event \in Events /\ events[j.event].freq \in Frequencies
    /\ j.row = ShownIn(events[j.event], j.zone) /\ RowFits(j.row)

(* A calendar as it would be read now.                                        *)
CalendarRead(j) ==
    \E window \in Windows, z \in Zones :
        /\ j.window = window /\ j.zone = z
        /\ j.entries = [e \in Written |-> Expanded(events[e], window, z)]
        /\ j.annual = [i \in Marked(1..Months) |-> AnnualDays(Annual[i], window)]
        /\ j.unplaced = {i \in Marked(1..Months) : Unplaced(Annual[i], window)}

CalendarsSound ==
    /\ \A w \in fresh : asked[w].op = "event" /\ asked[w].change = "resend" => Resent(asked[w])
    /\ \A w \in fresh : asked[w].op = "list" /\ "window" \in DOMAIN asked[w] => CalendarRead(asked[w])

(* The requests about an event.                                               *)
LEMMA EventAsked ==
    ASSUME EventsType, scenario \in Scenarios, RowsFit, NEW what,
           what \in LET drafts == {Anchored(d, zone) : d \in scenario.drafts}
                    IN  ([op : {"event"}, zone : {zone}, change : {"create"}, row : drafts]
                         \cup [op : {"event"}, zone : {zone}, change : {"update"}, event : Written, row : drafts]
                         \cup {[op |-> "event", zone |-> zone, change |-> "resend", event |-> e,
                                row |-> Response(events[e])] : e \in Resendable}
                         \cup [op : {"event"}, zone : {zone}, change : {"delete"}, event : Written])
    PROVE  /\ what.op = "event"
           /\ what.change # "delete" => RowFits(what.row)
           /\ what.change = "resend" => Resent(what)
<1> DEFINE drafts == {Anchored(d, zone) : d \in scenario.drafts}
<1>1. zone \in Zones /\ \A r \in drafts : RowFits(r)
  BY AnchoredFits, AgendaAssumption DEF EventsType
<1> HIDE DEF drafts
<1>2. \/ what \in [op : {"event"}, zone : {zone}, change : {"create"}, row : drafts]
      \/ what \in [op : {"event"}, zone : {zone}, change : {"update"}, event : Written, row : drafts]
      \/ \E e \in Resendable : what = [op |-> "event", zone |-> zone, change |-> "resend", event |-> e,
                                       row |-> Response(events[e])]
      \/ what \in [op : {"event"}, zone : {zone}, change : {"delete"}, event : Written]
  BY DEF drafts
<1>3. CASE what \in [op : {"event"}, zone : {zone}, change : {"create"}, row : drafts]
  BY <1>1, <1>3
<1>4. CASE what \in [op : {"event"}, zone : {zone}, change : {"update"}, event : Written, row : drafts]
  BY <1>1, <1>4
<1>5. ASSUME NEW e \in Resendable, what = [op |-> "event", zone |-> zone, change |-> "resend", event |-> e,
                                        row |-> Response(events[e])]
      PROVE  what.op = "event" /\ RowFits(what.row) /\ Resent(what)
  <2>1. e \in Events /\ events[e].freq \in Frequencies /\ Fits(Response(events[e]))
    BY DEF Resendable, Written
  <2>2. Response(events[e]) = ShownIn(events[e], zone)
    BY DEF Response, ShownIn
  <2>3. RowFits(ShownIn(events[e], zone))
    BY <1>1, <2>1, <2>2, ShownFits DEF RowsFit
  <2>4. /\ what.op = "event" /\ what.zone = zone /\ what.event = e
        /\ what.row = ShownIn(events[e], zone)
    BY <1>5, <2>2
  <2>5. QED
    BY <1>1, <2>1, <2>3, <2>4 DEF Resent
<1>6. CASE what \in [op : {"event"}, zone : {zone}, change : {"delete"}, event : Written]
  BY <1>6
<1>7. QED
  BY <1>2, <1>3, <1>4, <1>5, <1>6

LEMMA RowsStep ==
    ASSUME ReadSound, AskedTypes, EventsType, scenario \in Scenarios, RowsFit,
           [AgendaNext]_agendaVars
    PROVE  RowsFit'
<1>1. ASSUME NEW w \in Jobs, asked'[w].op = "event", asked'[w].change # "delete"
      PROVE  RowFits(asked'[w].row)
  <2>1. CASE asked'[w] = asked[w]
    BY <1>1, <2>1 DEF RowsFit
  <2>2. CASE Plain(asked'[w])
    BY <1>1, <2>2 DEF Plain
  <2>3. CASE AskEvent(w)
    <3>1. PICK what : /\ Asks(w, what)
                      /\ what.op = "event" /\ (what.change # "delete" => RowFits(what.row))
      BY <2>3, EventAsked DEF AskEvent
    <3>2. asked'[w] = what
      BY <3>1 DEF Asks, ReadSound
    <3>3. QED
      BY <1>1, <3>1, <3>2
  <2>4. CASE AskCalendar(w) \/ AskOverview(w)
    <3>1. PICK what : Asks(w, what) /\ what.op = "list"
      <4>1. CASE AskCalendar(w)
        <5>1. PICK window : Asks(w, Occurrences(window))
          BY <4>1 DEF AskCalendar
        <5>2. Occurrences(window).op = "list"
          BY DEF Occurrences
        <5>3. QED
          BY <5>1, <5>2
      <4>2. CASE AskOverview(w)
        <5>1. PICK reference, both : Asks(w, Overview(reference, both))
          BY <4>2 DEF AskOverview
        <5>2. Overview(reference, both).op = "list"
          BY DEF Overview
        <5>3. QED
          BY <5>1, <5>2
      <4>3. QED
        BY <2>4, <4>1, <4>2
    <3>2. asked'[w] = what
      BY <3>1 DEF Asks, ReadSound
    <3>3. QED
      BY <1>1, <3>1, <3>2
  <2>5. QED
    BY <2>1, <2>2, <2>3, <2>4, AskedFor
<1>2. ASSUME NEW x \in Events, events'[x].freq \in Frequencies
      PROVE  RowFits(events'[x])
  <2>1. CASE events' = events
    BY <1>2, <2>1 DEF RowsFit
  <2>2. ASSUME NEW w \in Jobs, WriteEvent(w)
        PROVE  RowFits(events'[x])
    <3>1. asked[w].op = "event" /\ asked[w].change \in {"create", "update", "resend", "delete"}
      BY <2>2 DEF WriteEvent, Writes, AskedTypes, AskedType, AskedAt
    <3>2. \E e, row : /\ events' = [events EXCEPT ![e] = row]
                      /\ row = Erased \/ RowFits(row)
      <4>1. CASE asked[w].change = "create"
        BY <2>2, <3>1, <4>1 DEF WriteEvent, RowsFit
      <4>2. CASE asked[w].change \in {"update", "resend"}
        BY <2>2, <3>1, <4>2 DEF WriteEvent, RowsFit
      <4>3. CASE asked[w].change = "delete"
        BY <2>2, <4>3 DEF WriteEvent
      <4>4. QED
        BY <3>1, <4>1, <4>2, <4>3
    <3>3. PICK e, row : /\ events' = [events EXCEPT ![e] = row]
                        /\ row = Erased \/ RowFits(row)
      BY <3>2
    <3>4. events'[x] = IF x = e THEN row ELSE events[x]
      BY <3>3 DEF EventsType
    <3>5. Erased.freq \notin Frequencies
      BY DEF Erased, Frequencies
    <3>6. QED
      BY <1>2, <3>3, <3>4, <3>5 DEF RowsFit
  <2>3. QED
    BY <2>1, <2>2 DEF AgendaNext, AskEvent, AskCalendar, AskOverview, ChangeZone, agendaVars, agenda
<1>3. QED
  BY <1>1, <1>2 DEF RowsFit

LEMMA CalendarsStep ==
    ASSUME ReadSound, ReadSound', AskedTypes, EventsType, scenario \in Scenarios, RowsFit,
           CalendarsSound, [AgendaNext]_agendaVars
    PROVE  CalendarsSound'
<1>1. ASSUME NEW w \in fresh'
      PROVE  /\ asked'[w].op = "event" /\ asked'[w].change = "resend" => Resent(asked[w])'
             /\ asked'[w].op = "list" /\ "window" \in DOMAIN asked'[w] => CalendarRead(asked[w])'
  <2>1. FreshAfter(w) /\ events' = events /\ items' = items
    BY FreshStep DEF FreshAfter
  <2>2. w \in Jobs /\ DOMAIN asked = Jobs
    BY DEF ReadSound
  <2>3. Written' = Written /\ Marked(1..Months)' = Marked(1..Months)
    BY <2>1 DEF Written, Marked, BirthdaysIn, DatesIn
  <2>4. CASE w \in fresh /\ asked'[w] = asked[w]
    <3>1. asked'[w].op = "event" /\ asked'[w].change = "resend" => Resent(asked[w])'
      BY <2>1, <2>4 DEF CalendarsSound, Resent
    <3>2. ASSUME asked'[w].op = "list", "window" \in DOMAIN asked'[w]
          PROVE  CalendarRead(asked[w])'
      <4>1. CalendarRead(asked[w])
        BY <2>4, <3>2 DEF CalendarsSound
      <4>2. PICK window \in Windows, z \in Zones :
                /\ asked[w].window = window /\ asked[w].zone = z
                /\ asked[w].entries = [e \in Written |-> Expanded(events[e], window, z)]
                /\ asked[w].annual = [i \in Marked(1..Months) |-> AnnualDays(Annual[i], window)]
                /\ asked[w].unplaced = {i \in Marked(1..Months) : Unplaced(Annual[i], window)}
        BY <4>1 DEF CalendarRead
      <4>3. QED
        BY <2>1, <2>3, <2>4, <4>2 DEF CalendarRead
    <3>3. QED
      BY <3>1, <3>2
  <2>5. CASE Plain(asked'[w])
    BY <2>5 DEF Plain
  <2>6. CASE AskEvent(w)
    <3>1. PICK what : /\ Asks(w, what)
                      /\ what.op = "event" /\ (what.change = "resend" => Resent(what))
      BY <2>6, EventAsked DEF AskEvent
    <3>2. asked'[w] = what
      BY <2>2, <3>1 DEF Asks
    <3>3. QED
      BY <2>1, <3>1, <3>2 DEF Resent
  <2>7. CASE AskCalendar(w)
    <3>1. PICK window \in Windows : Asks(w, Occurrences(window))
      BY <2>7 DEF AskCalendar
    <3>2. asked'[w] = Occurrences(window)
      BY <2>2, <3>1 DEF Asks
    <3>3. zone \in Zones
      BY DEF EventsType
    <3>4. /\ asked'[w].op = "list" /\ asked'[w].window = window /\ asked'[w].zone = zone
          /\ asked'[w].entries = [e \in Written |-> Expanded(events[e], window, zone)]
          /\ asked'[w].annual = [i \in Marked(1..Months) |-> AnnualDays(Annual[i], window)]
          /\ asked'[w].unplaced = {i \in Marked(1..Months) : Unplaced(Annual[i], window)}
      BY <3>2 DEF Occurrences
    <3>5. CalendarRead(asked[w])'
      BY <2>1, <2>3, <3>3, <3>4 DEF CalendarRead
    <3>6. QED
      BY <3>4, <3>5
  <2>8. CASE AskOverview(w)
    <3>1. PICK reference, both : Asks(w, Overview(reference, both))
      BY <2>8 DEF AskOverview
    <3>2. asked'[w] = Overview(reference, both)
      BY <2>2, <3>1 DEF Asks
    <3>3. Overview(reference, both).op = "list" /\ "window" \notin DOMAIN Overview(reference, both)
      BY DEF Overview
    <3>4. QED
      BY <3>2, <3>3
  <2>9. QED
    BY <2>1, <2>4, <2>5, <2>6, <2>7, <2>8 DEF FreshAfter
<1>2. QED
  BY <1>1 DEF CalendarsSound

LEMMA CalendarsInit ==
    ASSUME AgendaInit
    PROVE  RowsFit /\ CalendarsSound
<1> DEFINE Possible == {Anchored(d, z) : z \in Zones, d \in scenario.drafts}
<1>1. events \in [Events -> {Unwritten} \cup {e \in Possible : ValidEvent(e)}]
  BY DEF AgendaInit
<1>2. scenario \in Scenarios /\ asked = [w \in Jobs |-> Nothing] /\ fresh = {}
  BY DEF AgendaInit, KnowledgeInit, Init
<1>3. \A r \in Possible : RowFits(r)
  BY <1>2, AnchoredFits, AgendaAssumption
<1> HIDE DEF Possible
<1>4. \A e \in Events : events[e] = Unwritten \/ RowFits(events[e])
  BY <1>1, <1>3
<1>5. Unwritten.freq \notin Frequencies
  BY DEF Unwritten, Frequencies
<1>6. \A w \in Jobs : asked[w].op # "event"
  BY <1>2 DEF Nothing
<1>7. QED
  BY <1>2, <1>4, <1>5, <1>6 DEF RowsFit, CalendarsSound

LEMMA CalendarsAlways == AgendaSpec => [](RowsFit /\ CalendarsSound)
<1>1. /\ ReadSound /\ ReadSound' /\ Paced /\ Typed /\ EventsType /\ RowsFit /\ CalendarsSound
      /\ [AgendaNext]_agendaVars
      => RowsFit' /\ CalendarsSound'
  BY RowsStep, CalendarsStep DEF Typed, Paced
<1>2. QED
  BY <1>1, CalendarsInit, ReadsAlways, TypesAlways, PTL DEF AgendaSpec

(* An event that is saved as it is shown, its clock being shown, takes place  *)
(* as before.                                                                 *)
LEMMA SameOccurrences ==
    ASSUME NEW e, RowFits(e), ValidEvent(e), NEW z \in Zones, RowFits(ShownIn(e, z)), NEW window
    PROVE  /\ ValidEvent(ShownIn(e, z)) \/ PutOff(e, FirstDay(e), z)
           /\ ClockShown(e, z) => /\ ValidEvent(ShownIn(e, z))
                                  /\ Expected(ShownIn(e, z), window, z) = Expected(e, window, z)
<1> DEFINE r == ShownIn(e, z)
           o == OccurrenceAt(e, 0, z)
<1>1. e \in EventRows /\ EventFits(e) /\ ZoneFits(z) /\ EventFits(r)
  BY AgendaAssumption DEF RowFits, Fits
<1>2. r = [e EXCEPT !.start = o.start, !.end = o.end, !.anchor = z]
  BY DEF ShownIn
<1>3. SUFFICES /\ ValidEvent(r) \/ PutOff(e, FirstDay(e), z)
               /\ ClockShown(e, z) => ValidEvent(r) /\ Expected(r, window, z) = Expected(e, window, z)
  OBVIOUS
<1> HIDE DEF r
<1>4. /\ r.start = o.start /\ r.end = o.end /\ r.anchor = z
      /\ r.freq = e.freq /\ r.allDay = e.allDay /\ r.until = e.until
  BY <1>1, <1>2 DEF EventRows
<1>5. r.start < r.end
  BY <1>1 DEF EventFits
<1>6. \A x : Overlaps(r, x, window, z) <=> Overlaps(e, x, window, z)
  BY <1>4 DEF Overlaps, Bound
<1>7. CASE e.freq = "none"
  <2>1. o.start = e.start /\ o.end = e.end
    BY <1>7 DEF OccurrenceAt, Itself
  <2>2. e.until = Endless
    BY <1>7 DEF ValidEvent
  <2>3. ValidEvent(r)
    BY <1>4, <1>5, <2>2 DEF ValidEvent
  <2>4. Itself(r) = Itself(e)
    BY <1>4, <2>1 DEF Itself
  <2>5. Expected(r, window, z) = {x \in {Itself(r)} : Overlaps(r, x, window, z)}
        /\ Expected(e, window, z) = {x \in {Itself(e)} : Overlaps(e, x, window, z)}
    BY <1>4, <1>7 DEF Expected
  <2>6. QED
    BY <1>6, <2>3, <2>4, <2>5
<1>8. CASE e.freq \in Recurring
  <2>1. /\ o.start \in Int /\ o.end \in Int
        /\ e.allDay => o.start = e.start /\ o.end = e.end
        /\ ~e.allDay => DateIn(z, o.start) \in {FirstDay(e), FirstDay(e) + 1}
        /\ o = OnDay(e, FirstDay(e), z)
    BY <1>1, <1>8, FirstShown
  <2>2. e.allDay => FirstDay(r) = FirstDay(e)
    BY <1>4, <2>1 DEF FirstDay
  <2>3. ASSUME ~ValidEvent(r)
        PROVE  PutOff(e, FirstDay(e), z)
    <3>1. FirstDay(e) \in Int /\ e.until \in Int
      BY <1>1, EventDays DEF EventFits
    <3>2. e.until # Endless /\ ~(e.until >= FirstDay(r)) /\ e.until >= FirstDay(e)
      BY <1>4, <1>5, <1>8, <2>3 DEF ValidEvent, Recurring
    <3>3. ~e.allDay /\ FirstDay(r) = DateIn(z, o.start)
      BY <1>4, <2>2, <3>1, <3>2 DEF FirstDay
    <3>4. FirstDay(e) = e.until /\ DateIn(z, o.start) # FirstDay(e)
      BY <2>1, <3>1, <3>2, <3>3
    <3>5. QED
      BY <2>1, <3>3, <3>4 DEF PutOff
  <2>4. ASSUME ClockShown(e, z)
        PROVE  ValidEvent(r) /\ Expected(r, window, z) = Expected(e, window, z)
    <3>1. ~e.allDay => /\ Local(z, o.start) = Local(e.anchor, e.start)
                       /\ FoldOf(z, o.start) = FoldOf(e.anchor, e.start)
                       /\ Local(z, o.end) = Local(e.anchor, e.end)
                       /\ FoldOf(z, o.end) = FoldOf(e.anchor, e.end)
                       /\ o.end - o.start = e.end - e.start
      BY <1>8, <2>4 DEF ClockShown, Recurring
    <3> HIDE DEF o
    <3>2. FirstDay(r) = FirstDay(e) /\ FinalDay(r) = FinalDay(e)
      BY <1>4, <2>1, <3>1 DEF FirstDay, FinalDay, DateIn
    <3>3. \A d : SameDay(r, d) <=> SameDay(e, d)
      BY <3>2 DEF SameDay
    <3>4. \A d : Recurs(r, d) <=> Recurs(e, d)
      BY <1>4, <3>2, <3>3 DEF Recurs
    <3>5. \A d : OnDay(r, d, z) = OnDay(e, d, z)
      <4>1. CASE e.allDay
        BY <1>4, <2>1, <4>1 DEF OnDay
      <4>2. CASE ~e.allDay
        <5>1. /\ Local(r.anchor, r.start) = Local(e.anchor, e.start)
              /\ FoldOf(r.anchor, r.start) = FoldOf(e.anchor, e.start)
              /\ Local(r.anchor, r.end) = Local(e.anchor, e.end)
              /\ FoldOf(r.anchor, r.end) = FoldOf(e.anchor, e.end)
              /\ r.end - r.start = e.end - e.start /\ r.allDay = e.allDay
          BY <1>4, <3>1, <4>2
        <5>2. QED
          BY <3>2, <5>1 DEF OnDay
      <4>3. QED
        BY <4>1, <4>2
    <3>6. r.freq # "none" /\ e.freq # "none"
      BY <1>4, <1>8 DEF Recurring
    <3> DEFINE Days(x) == {n \in 0..LastDay : Recurs(x, n) /\ ~PutOff(x, n, z)}
    <3>7. Expected(r, window, z) = {x \in {OnDay(r, d, z) : d \in Days(r)} : Overlaps(r, x, window, z)}
      BY <3>6 DEF Expected
    <3>8. Expected(e, window, z) = {x \in {OnDay(e, d, z) : d \in Days(e)} : Overlaps(e, x, window, z)}
      BY <3>6 DEF Expected
    <3>9. Days(r) = Days(e)
      <4>1. \A d : PutOff(r, d, z) <=> PutOff(e, d, z)
        BY <1>4, <3>5 DEF PutOff
      <4>2. QED
        BY <3>4, <4>1
    <3> HIDE DEF Days
    <3>10. ValidEvent(r)
      BY <1>4, <1>5, <1>8, <3>2 DEF ValidEvent
    <3>11. QED
      BY <1>6, <3>5, <3>7, <3>8, <3>9, <3>10
  <2>5. QED
    BY <2>3, <2>4
<1>9. QED
  BY <1>1, <1>7, <1>8 DEF EventRows, Recurring

LEMMA WindowsFit ==
    ASSUME NEW window \in Windows
    PROVE  InCalendar(window)
<1>1. {window.from, window.to} \subseteq 3..LastDay /\ window.from < window.to
  BY AgendaAssumption
<1>2. \A n \in 3..LastDay : n \in 0..LastDay
  BY LastNumber
<1>3. QED
  BY <1>1, <1>2 DEF InCalendar

LEMMA AgendaFollows ==
    ASSUME items \subseteq Items, EventsType, RowsFit, CalendarsSound
    PROVE  AgendaComplete
<1>1. ASSUME NEW w \in Calendars, NEW e \in Written
      PROVE  Complete(asked[w].entries[e], Expected(events[e], asked[w].window, asked[w].zone))
  <2>1. PICK window \in Windows, z \in Zones :
            /\ asked[w].window = window /\ asked[w].zone = z
            /\ asked[w].entries = [x \in Written |-> Expanded(events[x], window, z)]
    BY DEF CalendarsSound, CalendarRead, Calendars
  <2>2. e \in Events /\ events[e].freq \in Frequencies
    BY DEF Written
  <2>3. events[e] \notin {Unwritten, Erased}
    BY <2>2 DEF Unwritten, Erased, Frequencies
  <2>4. Fits(events[e]) /\ ValidEvent(events[e])
    BY <2>2, <2>3 DEF RowsFit, RowFits, EventsType
  <2>5. ZoneFits(z) /\ InCalendar(window)
    BY WindowsFit, AgendaAssumption
  <2>6. EventFits(events[e]) /\ Earliest(events[e], window.from) >= 0
    BY <2>4 DEF Fits
  <2>7. Complete(Expanded(events[e], window, z), Expected(events[e], window, z))
    BY <2>4, <2>5, <2>6, ExpandedComplete
  <2>8. QED
    BY <2>1, <2>7
<1>2. ASSUME NEW w \in Calendars, NEW i \in items \cap DOMAIN Annual
      PROVE  /\ asked[w].annual[i] = DaysShown(Annual[i], asked[w].window)
             /\ i \in asked[w].unplaced <=> DaysLacking(Annual[i], asked[w].window) # {}
  <2>1. PICK window \in Windows :
            /\ asked[w].window = window
            /\ asked[w].annual = [x \in Marked(1..Months) |-> AnnualDays(Annual[x], window)]
            /\ asked[w].unplaced = {x \in Marked(1..Months) : Unplaced(Annual[x], window)}
    BY DEF CalendarsSound, CalendarRead, Calendars
  <2>2. AnnualDate(Annual[i]) /\ InCalendar(window)
    BY AnnualKnown, WindowsFit
  <2>3. i \in Marked(1..Months)
    BY <2>2, KnowledgeAssumption DEF Marked, BirthdaysIn, DatesIn, AnnualDate
  <2>4. AnnualDays(Annual[i], window) = DaysShown(Annual[i], window)
        /\ (Unplaced(Annual[i], window) <=> DaysLacking(Annual[i], window) # {})
    BY <2>2, AnnualShown, AnnualLacking
  <2>5. QED
    BY <2>1, <2>3, <2>4
<1>3. QED
  BY <1>1, <1>2 DEF AgendaComplete, Complete, DaysShown, DaysLacking, DayOf

LEMMA ResendFollows ==
    ASSUME EventsType, RowsFit, CalendarsSound
    PROVE  ResendKeepsAgenda
<1>1. ASSUME NEW w \in fresh, asked[w].op = "event", asked[w].change = "resend"
      PROVE  LET j == asked[w]
                 e == events[j.event]
             IN  /\ ValidEvent(j.row) \/ PutOff(e, FirstDay(e), j.zone)
                 /\ ClockShown(e, j.zone) =>
                       \A v \in Windows :
                           Range(Expanded(j.row, v, j.zone)) = Range(Expanded(e, v, j.zone))
  <2> DEFINE e == events[asked[w].event]
             z == asked[w].zone
             r == asked[w].row
  <2>1. z \in Zones /\ asked[w].event \in Events /\ e.freq \in Frequencies /\ r = ShownIn(e, z)
    BY <1>1 DEF CalendarsSound, Resent
  <2>2. e \notin {Unwritten, Erased}
    BY <2>1 DEF Unwritten, Erased, Frequencies
  <2>3. RowFits(e) /\ ValidEvent(e)
    BY <2>1, <2>2 DEF RowsFit, EventsType
  <2>4. SUFFICES /\ ValidEvent(r) \/ PutOff(e, FirstDay(e), z)
                 /\ ClockShown(e, z) => \A v \in Windows : Range(Expanded(r, v, z)) = Range(Expanded(e, v, z))
    OBVIOUS
  <2>5. RowFits(r) /\ ZoneFits(z)
    BY <1>1, <2>1, AgendaAssumption DEF CalendarsSound, Resent
  <2> HIDE DEF e, z, r
  <2>6. ASSUME NEW v \in Windows, ClockShown(e, z)
        PROVE  Range(Expanded(r, v, z)) = Range(Expanded(e, v, z))
    <3>1. Expected(r, v, z) = Expected(e, v, z)
      BY <2>1, <2>3, <2>5, <2>6, SameOccurrences
    <3>2. InCalendar(v)
      BY WindowsFit
    <3>3. /\ EventFits(r) /\ Earliest(r, v.from) >= 0
          /\ EventFits(e) /\ Earliest(e, v.from) >= 0
      BY <2>3, <2>5 DEF RowFits, Fits
    <3>4. ValidEvent(r)
      BY <2>1, <2>3, <2>5, <2>6, SameOccurrences
    <3>5. Complete(Expanded(r, v, z), Expected(r, v, z)) /\ Complete(Expanded(e, v, z), Expected(e, v, z))
      BY <2>3, <2>5, <3>2, <3>3, <3>4, ExpandedComplete
    <3>6. QED
      BY <3>1, <3>5 DEF Complete
  <2>7. ValidEvent(r) \/ PutOff(e, FirstDay(e), z)
    BY <2>1, <2>3, <2>5, SameOccurrences
  <2>8. QED
    BY <2>6, <2>7
<1>2. QED
  BY <1>1 DEF ResendKeepsAgenda

(* AgendaComplete: whatever the calendar, the events, the window and the      *)
(* zones, whose clocks change once, at any hour and by a quarter of a day at  *)
(* most, a calendar lists each occurrence that reaches into the window just   *)
(* once and no other, but for one that is put off past the last day of its    *)
(* recurrence, and each annual date on its days or as unplaced.               *)
THEOREM AgendaCompleteCorrect == AgendaSpec => []AgendaComplete
<1>1. AgendaTypeOK => items \subseteq Items
  BY DEF AgendaTypeOK, KnowledgeTypeOK
<1>2. QED
  BY <1>1, AgendaTypesCorrect, TypesAlways, CalendarsAlways, AgendaFollows, PTL

(* ResendKeepsAgenda: an event that is saved as it is shown, in a zone that   *)
(* has the clock of its first occurrence, takes place as before, whatever it  *)
(* is and whatever zone it was written in; and it may be saved, but for one   *)
(* whose only occurrence is put off past the last day of its recurrence.      *)
THEOREM ResendCorrect == AgendaSpec => []ResendKeepsAgenda
  BY TypesAlways, CalendarsAlways, ResendFollows, PTL
=============================================================================
