---------------------------- MODULE WorkspaceFiles ----------------------------
(***************************************************************************)
(* Files of the workspace: rows in PostgreSQL and objects in S3, which share *)
(* no transaction.  Managed files (media, photos of resumes) are stored once *)
(* per content, marked as orphaned while nothing uses them and pruned later; *)
(* files of knowledge items live as long as their link, and their objects    *)
(* are cleaned by actions that run after a commit or a rollback.             *)
(*                                                                           *)
(* A step of a job is its work up to the next point at which another job or  *)
(* a failure can be seen to come between: a read whose result is used after  *)
(* it, a wait for a row lock, a call of S3, the commit.  What a transaction  *)
(* has written becomes visible with its commit; the rows it has locked or    *)
(* changed stay locked until then.  A deadlock ends one of its requests,     *)
(* which is RollBack.  Contents are compared only; names and types of files  *)
(* and the other contents of resumes and items are left out.                 *)
(***************************************************************************)
EXTENDS Integers, Sequences, FiniteSets

CONSTANTS
    Jobs,        \* requests and prune runs in progress at once
    Resumes,
    Items,       \* knowledge items
    People,      \* the items that are people; only they have a photo
    Contents,    \* what is uploaded
    Retention,   \* ticks an orphan is kept
    BatchSize,   \* files a prune run takes of one namespace
    Scenarios    \* bound: the operations of a behaviour and their number

Uploads == {"media", "photo"}
Attachments == {"attach", "replace"}

ASSUME FilesAssumption ==
    /\ Retention \in Nat \ {0} /\ BatchSize \in Nat \ {0} /\ People \subseteq Items
    /\ \A s \in Scenarios :
          /\ s.resumes \subseteq Resumes /\ s.items \subseteq Items
          /\ s.contents \subseteq Contents
          /\ {s.requests, s.files, s.time, s.faults} \subseteq Nat

VARIABLES
    scenario,
    left,       \* requests still to come
    faults,     \* faults still to come
    clock,
    created,    \* files created so far; also the id of the last one
    rows,       \* file: the row of each file
    objects,    \* S3: files whose object is there
    photo,      \* resume: the photo_file_id in its content
    items,      \* knowledge items that exist
    links,      \* knowledge_item_file: item and kind of each linked file
    job,
    lost,       \* history: objects deleted for a transaction that did not commit or
                \* by a call that answered an error, or cleaned for one that did commit
    stray,      \* history: objects a failed request or a failed cleaning left
    overtaken   \* history: photos replaced by a request that had not seen them

bounds == <<scenario, left, faults>>
database == <<rows, photo, items, links>>
history == <<lost, stray, overtaken>>
vars == <<bounds, clock, created, database, objects, job, history>>

-----------------------------------------------------------------------------
NoFile == 0
Never == -1   \* orphaned_at of a file that is attached

(* A resume that does not exist yet, or no longer.                            *)
Absent == -1
Gone == -2

Present(r) == photo[r] >= NoFile

Namespace(op) == CASE op = "media" -> "media"
                   [] op = "photo" -> "resume_private"

(* A job is idle, cleans up after a commit, or serves a request; other ones   *)
(* are requests that do not touch files.                                      *)
Idle == [op |-> "idle", locks |-> {}]

(* Mutant: rows are read without a lock. *)
MutLocked(f) == FALSE

Locked(f) == \E w \in Jobs : f \in job[w].locks

(* file_usage_exists, of resumes P and links L                                *)
UsedBy(P, L, f) == f \in DOMAIN L \/ \E r \in Resumes : P[r] = f

Used(f) == UsedBy(photo, links, f)

Becomes(w, record) == job' = [job EXCEPT ![w] = record]
Ends(w) == Becomes(w, Idle)

In(w, ops, phase) == job[w].op \in ops /\ job[w].phase = phase

Request(w, op) ==
    /\ job[w] = Idle
    /\ op \in scenario.operations
    /\ left > 0 /\ left' = left - 1
    /\ UNCHANGED <<scenario, faults, clock>>

Fault == faults > 0 /\ faults' = faults - 1 /\ UNCHANGED <<scenario, left, clock>>

Later == UNCHANGED <<bounds, clock>>

WithRow(R, f, row) == [g \in DOMAIN R \cup {f} |-> IF g = f THEN row ELSE R[g]]
Without(R, F) == [g \in DOMAIN R \ F |-> R[g]]

(* The id of a new file.                                                      *)
Create == created < scenario.files /\ created' = created + 1

-----------------------------------------------------------------------------
(* Managed files: FileService.upload_file and delete_file *)

Upload(op, content, target, seen) ==
    [op |-> op, phase |-> "find", locks |-> {}, content |-> content, target |-> target,
     file |-> NoFile, now |-> clock, seen |-> seen]

StartMedia(w) ==
    /\ Request(w, "media")
    /\ \E content \in scenario.contents : Becomes(w, Upload("media", content, <<>>, NoFile))
    /\ UNCHANGED <<created, database, objects, history>>

(* The resume is read first.                                                  *)
StartPhoto(w) ==
    /\ Request(w, "photo")
    /\ \E content \in scenario.contents, r \in {s \in Resumes : Present(s)} :
         Becomes(w, Upload("photo", content, <<r>>, photo[r]))
    /\ UNCHANGED <<created, database, objects, history>>

(* find_file_by_original_sha256: the oldest row of the content                *)
Duplicates(j) ==
    {f \in DOMAIN rows : rows[f].space = Namespace(j.op) /\ rows[f].content = j.content}

Oldest(F) == CHOOSE f \in F : \A g \in F : f <= g

(* The row is locked; the query waits for it alone.                           *)
AwaitDuplicate(w) ==
    LET same == Duplicates(job[w])
    IN  /\ In(w, Uploads, "find") /\ job[w].file = NoFile
        /\ same # {} /\ Locked(Oldest(same))
        /\ job' = [job EXCEPT ![w].file = Oldest(same)]
        /\ Later /\ UNCHANGED <<created, database, objects, history>>

(* The row the query finds, or has waited for.                                *)
Candidate(j) ==
    IF j.file # NoFile THEN {j.file}
    ELSE IF Duplicates(j) = {} THEN {} ELSE {Oldest(Duplicates(j))}

FindDuplicate(w) ==
    /\ In(w, Uploads, "find")
    /\ \E f \in Candidate(job[w]) \cap DOMAIN rows :
         /\ ~Locked(f)
         /\ job' = [job EXCEPT ![w].file = f, ![w].locks = {f}, ![w].phase = "commit"]
    /\ Later /\ UNCHANGED <<created, database, objects, history>>

(* create_file: the row is flushed before the object is uploaded.             *)
FindNothing(w) ==
    /\ In(w, Uploads, "find")
    /\ Candidate(job[w]) \cap DOMAIN rows = {}
    /\ Create
    /\ job' = [job EXCEPT ![w].file = created', ![w].locks = {created'}, ![w].phase = "put"]
    /\ Later /\ UNCHANGED <<database, objects, history>>

PutObject(w, ops) ==
    /\ In(w, ops, "put")
    /\ objects' = objects \cup {job[w].file}
    /\ job' = [job EXCEPT ![w].phase = "commit"]
    /\ Later /\ UNCHANGED <<created, database, history>>

(* The clients of the three buckets *)
PutMedia(w) == PutObject(w, {"media"})

PutPhoto(w) == PutObject(w, {"photo"})

PutPrivate(w) == PutObject(w, Attachments)

(* The row of an upload: new, or the duplicate with its orphaned_at refreshed.*)
Uploaded(j) ==
    LET attached == j.file \in DOMAIN rows /\ rows[j.file].orphaned = Never
    IN  [space |-> Namespace(j.op), content |-> j.content,
         orphaned |-> IF attached THEN Never ELSE j.now]

CommitMedia(w) ==
    /\ In(w, {"media"}, "commit")
    /\ rows' = WithRow(rows, job[w].file, Uploaded(job[w]))
    /\ Ends(w)
    /\ Later /\ UNCHANGED <<created, objects, photo, items, links, history>>

SetAttached(R, F) ==
    [f \in DOMAIN R |-> [R[f] EXCEPT !.orphaned = IF f \in F THEN Never ELSE @]]

SetOrphanedIfUnused(R, P, F, now) ==
    [f \in DOMAIN R |->
        [R[f] EXCEPT !.orphaned = IF f \in F /\ ~UsedBy(P, links, f) THEN now ELSE @]]

(* sync_file_usages                                                           *)
Synced(R, P, attached, detached, now) ==
    SetOrphanedIfUnused(SetAttached(R, attached), P, detached, now)

(* A resume is written as a whole, from the content read before: a photo that *)
(* came in between is overwritten unseen.                                     *)
WriteResume(j, value) ==
    LET r == j.target[1]
    IN  /\ Present(r)
        /\ photo' = [photo EXCEPT ![r] = value]
        /\ overtaken' = overtaken \cup ({photo[r]} \ {NoFile, j.seen, value})

CommitPhoto(w) ==
    LET j == job[w]
        detached == {j.seen} \ {NoFile, j.file}
    IN  /\ In(w, {"photo"}, "commit")
        /\ \A f \in detached : ~Locked(f)
        /\ WriteResume(j, j.file)
        /\ rows' = Synced(WithRow(rows, j.file, Uploaded(j)), photo', {j.file}, detached, j.now)
        /\ Ends(w)
        /\ Later /\ UNCHANGED <<created, objects, items, links, lost, stray>>

(* delete_file: the object is deleted under the row's lock, then the row.     *)
StartErase(w) ==
    /\ Request(w, "erase")
    /\ \E f \in DOMAIN rows :
         /\ rows[f].space = "media" /\ ~Locked(f) /\ ~Used(f)
         /\ objects' = objects \ {f}
         /\ Becomes(w, [op |-> "erase", phase |-> "commit", locks |-> {f}, file |-> f])
    /\ UNCHANGED <<created, database, history>>

CommitErase(w) ==
    /\ In(w, {"erase"}, "commit")
    /\ rows' = Without(rows, {job[w].file})
    /\ Ends(w)
    /\ Later /\ UNCHANGED <<created, objects, photo, items, links, history>>

-----------------------------------------------------------------------------
(* Resumes: ResumesUseCase *)

CreateResume(r) ==
    /\ r \in scenario.resumes /\ photo[r] = Absent
    /\ photo' = [photo EXCEPT ![r] = NoFile]
    /\ UNCHANGED <<bounds, clock, created, rows, items, links, objects, job, history>>

(* The resume is read before it is written.                                   *)
ResumeRequest(w, op, r, value) ==
    /\ Present(r)
    /\ Request(w, op)
    /\ Becomes(w, [op |-> op, phase |-> "commit", locks |-> {}, target |-> <<r>>,
                   seen |-> photo[r], now |-> clock, value |-> value])
    /\ UNCHANGED <<created, database, objects, history>>

(* A save keeps the photo it has read, or clears it.                          *)
SaveResume(w) ==
    \E r \in Resumes : \E kept \in {NoFile, photo[r]} : ResumeRequest(w, "save", r, kept)

DiscardResume(w) ==
    \E r \in Resumes : ResumeRequest(w, "discard", r, Gone)

CommitResume(w) ==
    LET j == job[w]
        detached == {j.seen} \ {NoFile, j.value}
    IN  /\ In(w, {"save", "discard"}, "commit")
        /\ \A f \in detached : ~Locked(f)
        /\ WriteResume(j, j.value)
        /\ rows' = Synced(rows, photo', {}, detached, j.now)
        /\ Ends(w)
        /\ Later /\ UNCHANGED <<created, objects, items, links, lost, stray>>

-----------------------------------------------------------------------------
(* prune_file_orphans: both namespaces in one transaction *)

Due(space) ==
    {f \in DOMAIN rows : /\ rows[f].space = space /\ rows[f].orphaned # Never
                         /\ rows[f].orphaned < clock - Retention}

(* By orphaned_at, and then by id.                                            *)
Precedes(f, g) ==
    \/ rows[f].orphaned < rows[g].orphaned
    \/ rows[f].orphaned = rows[g].orphaned /\ f < g

(* list_orphaned_files_for_cleanup: locked rows are skipped.                  *)
Batch(space) ==
    LET free == {f \in Due(space) : ~Locked(f)}
    IN  {f \in free : Cardinality({g \in free : Precedes(g, f)}) < BatchSize}

(* Mutant: a run looks at photos only when there is a media file to prune. *)
MutStartPrune(w) ==
    /\ job[w] = Idle /\ "prune" \in scenario.operations
    /\ Batch("media") # {}
    /\ Becomes(w, [op |-> "prune", phase |-> "media", locks |-> Batch("media"),
                   queue |-> Batch("media"), doomed |-> {}, kept |-> {}])
    /\ Later /\ UNCHANGED <<created, database, objects, history>>

(* A run without a candidate changes nothing.                                 *)
StartPrune(w) ==
    /\ job[w] = Idle /\ "prune" \in scenario.operations
    /\ Batch("media") \cup Batch("resume_private") # {}
    /\ Becomes(w, [op |-> "prune", phase |-> "media", locks |-> Batch("media"),
                   queue |-> Batch("media"), doomed |-> {}, kept |-> {}])
    /\ Later /\ UNCHANGED <<created, database, objects, history>>

(* One candidate of the batch is settled.                                     *)
Settle(w, f, doomed, kept) ==
    /\ job' = [job EXCEPT ![w].queue = @ \ {f}, ![w].doomed = @ \cup doomed,
                          ![w].kept = @ \cup kept]
    /\ UNCHANGED <<created, database, stray, overtaken>>

NextOrphan(w) ==
    IF job[w].op = "prune"
    THEN {f \in job[w].queue : \A g \in job[w].queue \ {f} : Precedes(f, g)} ELSE {}

PruneUsed(w) ==
    \E f \in NextOrphan(w) :
        Used(f) /\ Settle(w, f, {}, {f}) /\ Later /\ UNCHANGED <<objects, lost>>

PruneObject(w) ==
    \E f \in NextOrphan(w) :
        ~Used(f) /\ Settle(w, f, {f}, {}) /\ Later /\ objects' = objects \ {f} /\ UNCHANGED lost

(* FileClientInternalError: the row stays for the next run, whether S3 has    *)
(* deleted the object or not; meanwhile an upload may find the row.           *)
PruneFails(w) ==
    \E f \in NextOrphan(w) :
        /\ ~Used(f) /\ Settle(w, f, {}, {}) /\ Fault
        /\ \/ UNCHANGED <<objects, lost>>
           \/ objects' = objects \ {f} /\ lost' = lost \cup {f}

PrunePhotos(w) ==
    /\ In(w, {"prune"}, "media") /\ job[w].queue = {}
    /\ job' = [job EXCEPT ![w].phase = "resume_private", ![w].queue = Batch("resume_private"),
                          ![w].locks = @ \cup Batch("resume_private")]
    /\ Later /\ UNCHANGED <<created, database, objects, history>>

CommitPrune(w) ==
    /\ In(w, {"prune"}, "resume_private") /\ job[w].queue = {}
    /\ rows' = Without(Synced(rows, photo, job[w].kept, {}, clock), job[w].doomed)
    /\ Ends(w)
    /\ Later /\ UNCHANGED <<created, objects, photo, items, links, history>>

-----------------------------------------------------------------------------
(* Files of knowledge items *)

FilesOf(item) == {f \in DOMAIN links : links[f].item = item}
PhotosOf(item) == {f \in FilesOf(item) : links[f].kind = "photo"}

(* Mutant: nothing keeps an item from being deleted under an attachment. *)
MutAttaching(item) == {}

Attaching(item) ==
    {w \in Jobs : /\ job[w].op \in Attachments /\ job[w].phase \in {"put", "commit"}
                  /\ job[w].item = item}

(* create_file: the new row and its link are flushed, and their foreign key   *)
(* keeps the item from being deleted.                                         *)
Flushed(w, op, item, dropped) ==
    /\ item \in items
    /\ Create
    /\ Becomes(w, [op |-> op, phase |-> "put", item |-> item, file |-> created',
                   dropped |-> dropped, locks |-> dropped \cup {created'}])
    /\ UNCHANGED <<database, objects, history>>

Attach(w) ==
    \E item \in Items : Request(w, "attach") /\ Flushed(w, "attach", item, {})

(* replace_person_photo: the photo that was listed is deleted first.          *)
StartReplace(w) ==
    /\ Request(w, "replace")
    /\ \E item \in items \cap People :
          Becomes(w, [op |-> "replace", phase |-> "list", item |-> item,
                      dropped |-> PhotosOf(item), locks |-> {}])
    /\ UNCHANGED <<created, database, objects, history>>

(* Both the old link and the index of one photo per person must permit it; a  *)
(* conflicting row that is not committed is waited for.                       *)
Replace(w) ==
    LET j == job[w]
    IN  /\ In(w, {"replace"}, "list")
        /\ PhotosOf(j.item) = j.dropped /\ \A f \in j.dropped : ~Locked(f)
        /\ \A v \in Attaching(j.item) : job[v].op # "replace"
        /\ Flushed(w, "replace", j.item, j.dropped) /\ Later

(* The commit of a request that leaves objects to clean.                      *)
Cleans(w, files) ==
    Becomes(w, [op |-> "clean", phase |-> "clean", locks |-> {}, doomed |-> files])

(* Links and rows as the transaction of an attachment leaves them.            *)
Stored(j) ==
    /\ rows' = WithRow(Without(rows, j.dropped), j.file,
                       [space |-> "knowledge", content |-> "private", orphaned |-> Never])
    /\ links' = WithRow(Without(links, j.dropped), j.file,
                        [item |-> j.item, kind |-> IF j.op = "replace" THEN "photo" ELSE "file"])

CommitAttach(w) ==
    /\ In(w, Attachments, "commit")
    /\ Stored(job[w])
    /\ Cleans(w, job[w].dropped)
    /\ Later /\ UNCHANGED <<created, objects, photo, items, history>>

(* The file f of an item is deleted: link and row, and the object later.      *)
Unlink(w, f) ==
    /\ Request(w, "detach")
    /\ ~Locked(f)
    /\ links' = Without(links, {f}) /\ rows' = Without(rows, {f})
    /\ Cleans(w, {f})
    /\ UNCHANGED <<created, objects, photo, items, history>>

DeleteAttachment(w) == \E f \in DOMAIN links : links[f].kind = "file" /\ Unlink(w, f)

DeletePersonPhoto(w) == \E person \in People : \E f \in PhotosOf(person) : Unlink(w, f)

Detach(w) == DeleteAttachment(w) \/ DeletePersonPhoto(w)

(* delete_person and delete_date: the files are listed first.                 *)
StartRemove(w, item) ==
    /\ Request(w, "remove")
    /\ item \in items
    /\ Becomes(w, [op |-> "remove", phase |-> "commit", item |-> item,
                   dropped |-> FilesOf(item), locks |-> {}])
    /\ UNCHANGED <<created, database, objects, history>>

(* A listed link that is gone, or another one, makes the request fail.        *)
CommitRemove(w) ==
    LET j == job[w]
    IN  /\ In(w, {"remove"}, "commit") /\ j.item \in items
        /\ FilesOf(j.item) = j.dropped /\ \A f \in j.dropped : ~Locked(f)
        /\ Attaching(j.item) = {}
        /\ items' = items \ {j.item}
        /\ links' = Without(links, j.dropped) /\ rows' = Without(rows, j.dropped)
        /\ Cleans(w, j.dropped)
        /\ Later /\ UNCHANGED <<created, objects, photo, history>>

(* PostCommitActions.run with cleanup_objects                                 *)
Clean(w) ==
    /\ In(w, {"clean"}, "clean")
    /\ objects' = objects \ job[w].doomed
    /\ Ends(w)
    /\ Later /\ UNCHANGED <<created, database, history>>

-----------------------------------------------------------------------------
(* Reading a file: its row, and then its object *)

Streamed(f) == f \in objects

Downloaded(f) == f \in DOMAIN rows /\ f \in objects

(* get_file_content, of a file of an item                                     *)
Opened(f) == f \in DOMAIN links \cap DOMAIN rows /\ Streamed(f)

ReadPhoto(r) == photo[r] > NoFile /\ Downloaded(photo[r])

(* export_resume asks for the photo if the resume has one.                    *)
Exported(r) == Present(r) /\ (photo[r] = NoFile \/ ReadPhoto(r))

-----------------------------------------------------------------------------
(* Failures *)

(* Mutant: a rollback deletes no object. *)
MutUnowned(j) == {}

(* The object a rollback finds uploaded for a row that will not exist.        *)
Unowned(j) ==
    IF j.op \in Uploads \cup Attachments /\ j.phase = "commit"
    THEN {j.file} \ DOMAIN rows ELSE {}

(* A request fails and is rolled back.  Objects of knowledge files are        *)
(* cleaned by RollbackActions; those of managed files are not.                *)
RollBack(w) ==
    LET j == job[w]
        Cleaned == IF j.op \in Attachments THEN Unowned(j) ELSE {}
    IN  /\ j.op \notin {"idle", "prune", "clean"}
        /\ objects' = objects \ Cleaned
        /\ stray' = stray \cup (Unowned(j) \ Cleaned)
        /\ lost' = IF j.op = "erase" THEN lost \cup {j.file} ELSE lost
        /\ Ends(w)
        /\ Later /\ UNCHANGED <<created, database, overtaken>>

(* S3 stores the object and the answer is an error: nothing is registered.    *)
PutUnanswered(w) ==
    /\ Fault
    /\ In(w, Uploads \cup Attachments, "put")
    /\ objects' = objects \cup {job[w].file}
    /\ stray' = stray \cup {job[w].file}
    /\ Ends(w)
    /\ UNCHANGED <<created, database, lost, overtaken>>

(* The database commits and the answer is an error: the new object is cleaned *)
(* as after a rollback, and the old one is not.                               *)
CommitUnanswered(w) ==
    /\ Fault
    /\ In(w, Attachments, "commit")
    /\ Stored(job[w])
    /\ objects' = objects \ {job[w].file}
    /\ lost' = lost \cup {job[w].file}
    /\ stray' = stray \cup job[w].dropped
    /\ Ends(w)
    /\ UNCHANGED <<created, photo, items, overtaken>>

(* The process ends, or S3 refuses: what was to be cleaned stays, and a prune *)
(* run has deleted objects of rows that are still there.                      *)
Crash(w) ==
    LET j == job[w]
    IN  /\ Fault
        /\ \/ j.op \in Attachments /\ j.phase = "commit"
           \/ j.op \in {"clean", "prune"}
        /\ stray' = stray \cup Unowned(j) \cup (IF j.op = "clean" THEN j.doomed ELSE {})
        /\ lost' = lost \cup (IF j.op = "prune" THEN j.doomed ELSE {})
        /\ Ends(w)
        /\ UNCHANGED <<created, database, objects, overtaken>>

-----------------------------------------------------------------------------
(* A tick is most of the retention, which is a week at least: no request or   *)
(* prune run takes that long.                                                 *)
Tick ==
    /\ clock < scenario.time /\ clock' = clock + 1
    /\ \A w \in Jobs : job[w] = Idle
    /\ UNCHANGED <<bounds, created, database, objects, job, history>>

Init ==
    /\ scenario \in Scenarios
    /\ left = scenario.requests /\ faults = scenario.faults
    /\ clock = 0 /\ created = 0
    /\ rows = [f \in {} |-> {}] /\ objects = {}
    /\ photo = [r \in Resumes |-> Absent]
    /\ items = scenario.items /\ links = [f \in {} |-> {}]
    /\ job = [w \in Jobs |-> Idle]
    /\ lost = {} /\ stray = {} /\ overtaken = {}

Starts(w) ==
    \/ StartMedia(w) \/ StartPhoto(w) \/ StartErase(w)
    \/ SaveResume(w) \/ DiscardResume(w)

Works(w) ==
    \/ RollBack(w)
    \/ AwaitDuplicate(w) \/ FindDuplicate(w) \/ FindNothing(w)
    \/ PutMedia(w) \/ PutPhoto(w) \/ PutPrivate(w)
    \/ CommitMedia(w) \/ CommitPhoto(w) \/ CommitErase(w) \/ CommitResume(w)
    \/ PruneUsed(w) \/ PruneObject(w) \/ PrunePhotos(w) \/ CommitPrune(w)
    \/ Replace(w) \/ Clean(w)

Proceeds(w) == Works(w) \/ CommitAttach(w) \/ CommitRemove(w)

Breaks(w) == PruneFails(w) \/ PutUnanswered(w) \/ Crash(w)

Next ==
    \/ Tick
    \/ \E r \in Resumes : CreateResume(r)
    \/ \E w \in Jobs :
          \/ Starts(w) \/ Attach(w) \/ StartReplace(w) \/ Detach(w)
          \/ \E item \in Items : StartRemove(w, item)
          \/ StartPrune(w)
          \/ Proceeds(w) \/ Breaks(w) \/ CommitUnanswered(w)

(* Requests end, by their own steps or by a rollback, and the schedule starts *)
(* prune runs again and again; nothing makes users come or S3 fail.           *)
Fairness ==
    /\ \A w \in Jobs : WF_vars(Proceeds(w))
    /\ WF_vars(\E w \in Jobs : StartPrune(w))

Spec == Init /\ [][Next]_vars /\ Fairness

-----------------------------------------------------------------------------
(* Properties *)

Spaces == {"media", "resume_private", "knowledge"}

(* The tables and records hold what they can hold, and a row is locked by one *)
(* transaction at a time.                                                     *)
TypeOK ==
    /\ scenario \in Scenarios /\ left \in 0..scenario.requests
    /\ faults \in 0..scenario.faults /\ clock \in 0..scenario.time
    /\ created \in 0..scenario.files
    /\ DOMAIN rows \cup DOMAIN links \cup objects \cup lost \cup stray \cup overtaken
           \subseteq 1..created
    /\ \A f \in DOMAIN rows :
          rows[f].space \in Spaces /\ rows[f].orphaned \in {Never} \cup 0..clock
    /\ photo \in [Resumes -> {Absent, Gone} \cup 0..created]
    /\ items \subseteq Items
    /\ \A f \in DOMAIN links : links[f] \in [item : Items, kind : {"photo", "file"}]
    /\ \A w \in Jobs : job[w].op \in scenario.operations \cup {"idle", "clean", "other"}
    /\ \A v, w \in Jobs : v # w => job[v].locks \cap job[w].locks = {}

PhotosShown == {photo[r] : r \in {s \in Resumes : photo[s] > NoFile}}

(* What is in use is there: a photo of a resume and a file of an item have    *)
(* their row, on an item that exists, one photo per person, and their object: *)
(* a resume can be exported and a file is served.  An object is missing only  *)
(* if it was deleted in a transaction that failed to commit, or by a prune    *)
(* run whose call of S3 answered an error and left the row for an upload of   *)
(* the same content to find, or if it was cleaned for a transaction that did  *)
(* commit after all.  A photo is missing only if a request once replaced it   *)
(* without having seen it: its mark is then as old as it happens to be, and a *)
(* prune run may take it before a third request, which has read it, keeps it  *)
(* on its resume.                                                             *)
UsedPresent ==
    /\ PhotosShown \subseteq DOMAIN rows \cup overtaken /\ DOMAIN links \subseteq DOMAIN rows
    /\ \A r \in Resumes : Present(r) => Exported(r) \/ photo[r] \in lost \cup overtaken
    /\ \A f \in DOMAIN links : Opened(f) \/ f \in lost
    /\ \A f \in DOMAIN links : links[f].item \in items
    /\ \A f, g \in DOMAIN links :
          (f # g /\ links[f].item = links[g].item) => "file" \in {links[f].kind, links[g].kind}

(* Nothing is forgotten.  A row that nothing uses is marked for pruning: the  *)
(* exception is a photo that came into a resume while another request was     *)
(* writing it, which has no one to mark it.  An object without a row belongs  *)
(* to a job in progress, or is what a failure left behind.                    *)
NoLeak ==
    /\ \A f \in DOMAIN rows \ (PhotosShown \cup DOMAIN links) :
          rows[f].orphaned # Never \/ f \in overtaken
    /\ \A f \in objects \ DOMAIN rows :
          \/ f \in stray
          \/ \E w \in Jobs : f \in job[w].locks \/ (job[w].op = "clean" /\ f \in job[w].doomed)

(* An orphan that has been kept long enough is pruned, or used again; neither *)
(* failures of S3 nor other orphans of its batch keep it forever.             *)
OrphanPruned ==
    \A f \in UNION {1..s.files : s \in {t \in Scenarios : "prune" \in t.operations}} :
        f \in Due("media") \cup Due("resume_private")
            ~> f \notin Due("media") \cup Due("resume_private")
=============================================================================
