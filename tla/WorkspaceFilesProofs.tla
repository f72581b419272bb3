-------------------------- MODULE WorkspaceFilesProofs --------------------------
(***************************************************************************)
(* Proofs about the files of the workspace, for every number of jobs at once *)
(* and every other step of the workspace in between: what is in use is       *)
(* there, and nothing is forgotten.                                          *)
(***************************************************************************)
EXTENDS Agenda, TLAPS, WellFoundedInduction

-----------------------------------------------------------------------------
(* The inductive invariant.  Each row, object and job has its part.           *)

FileIds == Nat \ {NoFile}

Kinds == {"photo", "file"}

Row(n) == [space : Spaces, content : Contents \cup {"private"}, orphaned : {Never} \cup 0..n]

(* The jobs there are when the ids up to n are given out, at the time t.      *)
UploadJobs(n, t) ==
    [op : Uploads, phase : {"find", "put", "commit"}, locks : SUBSET (1..n), content : Contents,
     target : {<<>>} \cup {<<r>> : r \in Resumes}, file : 0..n, now : {t}, seen : 0..n]
EraseJobs(n) == [op : {"erase"}, phase : {"commit"}, locks : SUBSET (1..n), file : 1..n]
ResumeJobs(n, t) ==
    [op : {"save", "discard"}, phase : {"commit"}, locks : {{}}, target : {<<r>> : r \in Resumes},
     seen : 0..n, now : {t}, value : {Gone} \cup 0..n]
PruneJobs(n) ==
    [op : {"prune"}, phase : {"media", "resume_private"}, locks : SUBSET (1..n),
     queue : SUBSET (1..n), doomed : SUBSET (1..n), kept : SUBSET (1..n)]
ListJobs(n) ==
    [op : {"replace"}, phase : {"list"}, item : Items, dropped : SUBSET (1..n), locks : {{}}]
AttachJobs(n) ==
    [op : Attachments, phase : {"put", "commit"}, item : Items, file : 1..n,
     dropped : SUBSET (1..n), locks : SUBSET (1..n)]
RemoveJobs(n) ==
    [op : {"remove"}, phase : {"commit"}, item : Items, dropped : SUBSET (1..n), locks : {{}}]
CleanJobs(n) == [op : {"clean"}, phase : {"clean"}, locks : {{}}, doomed : SUBSET (1..n)]
OtherJobs == [op : {"other"}, phase : {"commit"}, locks : {{}}]

JobRecords(n, t) ==
    {Idle} \cup OtherJobs \cup UploadJobs(n, t) \cup EraseJobs(n) \cup ResumeJobs(n, t)
    \cup PruneJobs(n) \cup ListJobs(n) \cup AttachJobs(n) \cup RemoveJobs(n) \cup CleanJobs(n)

FilesType ==
    /\ scenario \in Scenarios /\ clock \in Nat /\ created \in Nat
    /\ DOMAIN rows \cup objects \cup overtaken \subseteq 1..created
    /\ \A f \in DOMAIN rows : rows[f] \in Row(clock)
    /\ photo \in [Resumes -> {Absent, Gone} \cup 0..created]
    /\ items \subseteq Items
    /\ DOMAIN links \subseteq DOMAIN rows
    /\ \A f \in DOMAIN links : links[f] \in [item : Items, kind : Kinds]
    /\ job \in [Jobs -> JobRecords(created, clock)]

LocksApart == \A v, w \in Jobs : v # w => job[v].locks \cap job[w].locks = {}

Shown(f) == \E r \in Resumes : photo[r] = f

Recorded(f, space) == f \in DOMAIN rows => rows[f].space = space

(* A file that is created and not committed.                                  *)
Creates(w) ==
    job[w].op \in Uploads \cup Attachments /\ job[w].phase \in {"put", "commit"}
NewFile(w, f) == Creates(w) /\ job[w].file = f /\ f \notin DOMAIN rows

(* The object of f is deleted before its row is.                              *)
Deletes(w, f) ==
    \/ job[w].op = "erase" /\ job[w].file = f
    \/ job[w].op = "prune" /\ f \in job[w].doomed

(* The object of f is there for a job alone.                                  *)
Owns(w, f) ==
    \/ NewFile(w, f) /\ job[w].phase = "commit"
    \/ job[w].op = "clean" /\ f \in job[w].doomed

(* Files a job has read of without a lock, or has to clean.                   *)
Mentions(w, f) ==
    \/ job[w].op \in Uploads \cup {"save", "discard"} /\ job[w].seen = f
    \/ job[w].op \in Uploads /\ job[w].phase = "find" /\ job[w].file = f
    \/ job[w].op = "clean" /\ f \in job[w].doomed

(* How a row is marked, by what it belongs to.                                *)
MarkSound(f) ==
    /\ rows[f].space = "knowledge" <=> f \in DOMAIN links
    /\ rows[f].space = "knowledge" => rows[f].orphaned = Never
    /\ rows[f].space = "media" => rows[f].orphaned # Never
    /\ rows[f].space = "resume_private" =>
          rows[f].orphaned # Never \/ Shown(f) \/ f \in overtaken

RowSound(f) == MarkSound(f) /\ (f \in objects \cup lost \/ \E w \in Jobs : Deletes(w, f))

PhotoSound(f) ==
    /\ Shown(f) \/ f \in overtaken => Recorded(f, "resume_private")
    /\ Shown(f) => f \in DOMAIN rows \cup overtaken

ObjectSound(f) == f \in DOMAIN rows \cup stray \/ \E w \in Jobs : Owns(w, f)

(* Nothing else knows a file that is not committed.                           *)
NewSound(w, f) ==
    /\ ~Shown(f) /\ f \notin overtaken
    /\ f \in objects <=> job[w].phase = "commit"
    /\ \A v \in Jobs : ~Mentions(v, f)

LinksApart ==
    /\ \A f \in DOMAIN links : links[f].item \in items
    /\ \A f, g \in DOMAIN links :
          (f # g /\ links[f].item = links[g].item) => "file" \in {links[f].kind, links[g].kind}

UploadSound(w) ==
    job[w].op \in Uploads =>
        /\ job[w].phase = "find" => job[w].locks = {}
        /\ job[w].phase # "find" => job[w].locks = {job[w].file} /\ job[w].file # NoFile
        /\ job[w].phase = "put" => job[w].file \notin DOMAIN rows
        /\ Recorded(job[w].file, Namespace(job[w].op))
        /\ job[w].op = "media" => job[w].seen = NoFile
        /\ job[w].op = "photo" => job[w].target \in {<<r>> : r \in Resumes}

(* A photo that a request has read is in use, or has been marked just now.    *)
SeenSound(w) ==
    job[w].op \in {"photo", "save", "discard"} /\ job[w].seen # NoFile =>
        /\ Recorded(job[w].seen, "resume_private")
        /\ \/ job[w].seen \in overtaken
           \/ /\ job[w].seen \in DOMAIN rows
              /\ Shown(job[w].seen) \/ rows[job[w].seen].orphaned = clock

ResumeSound(w) ==
    job[w].op \in {"save", "discard"} => job[w].value \in {Gone, NoFile, job[w].seen}

EraseSound(w) ==
    job[w].op = "erase" =>
        /\ job[w].locks = {job[w].file} /\ job[w].file \in DOMAIN rows
        /\ rows[job[w].file].space = "media" /\ job[w].file \notin objects

(* What a prune run deletes is not in use and has not been marked lately.     *)
PruneSound(w) ==
    job[w].op = "prune" =>
        /\ job[w].queue \cup job[w].doomed \cup job[w].kept \subseteq job[w].locks
        /\ \A f \in job[w].locks :
              f \in DOMAIN rows /\ rows[f].orphaned # Never /\ rows[f].orphaned < clock - Retention
        /\ \A f \in job[w].doomed : f \notin objects /\ (Shown(f) => f \in overtaken)
        /\ \A f \in job[w].kept :
              rows[f].space = "resume_private" /\ (Shown(f) \/ f \in overtaken)

AttachSound(w) ==
    job[w].op \in Attachments /\ job[w].phase # "list" =>
        /\ job[w].item \in items /\ job[w].file \notin DOMAIN rows
        /\ job[w].locks = job[w].dropped \cup {job[w].file}
        /\ job[w].dropped = IF job[w].op = "replace" THEN PhotosOf(job[w].item) ELSE {}

CleanSound(w) == job[w].op = "clean" => job[w].doomed \cap DOMAIN rows = {}

JobSound(w) ==
    UploadSound(w) /\ SeenSound(w) /\ ResumeSound(w) /\ EraseSound(w) /\ PruneSound(w)
    /\ AttachSound(w) /\ CleanSound(w)

ReplacesApart ==
    \A v, w \in Jobs :
        /\ v # w /\ job[v].op = "replace" /\ job[w].op = "replace"
        /\ job[v].phase # "list" /\ job[w].phase # "list"
        => job[v].item # job[w].item

FilesInv ==
    /\ FilesType /\ LocksApart /\ LinksApart /\ ReplacesApart
    /\ \A f \in DOMAIN rows : RowSound(f)
    /\ \A f \in FileIds : PhotoSound(f)
    /\ \A f \in objects : ObjectSound(f)
    /\ \A w \in Jobs : JobSound(w)
    /\ \A w \in Jobs : \A f \in FileIds : NewFile(w, f) => NewSound(w, f)

-----------------------------------------------------------------------------
(* Records of jobs *)

LEMMA RecordsGrow ==
    ASSUME NEW n \in Nat, NEW t
    PROVE  JobRecords(n, t) \subseteq JobRecords(n + 1, t)
<1>1. 1..n \subseteq 1..(n + 1) /\ 0..n \subseteq 0..(n + 1)
  OBVIOUS
<1>2. UploadJobs(n, t) \subseteq UploadJobs(n + 1, t) /\ EraseJobs(n) \subseteq EraseJobs(n + 1)
  BY <1>1 DEF UploadJobs, EraseJobs
<1>3. ResumeJobs(n, t) \subseteq ResumeJobs(n + 1, t) /\ PruneJobs(n) \subseteq PruneJobs(n + 1)
  BY <1>1 DEF ResumeJobs, PruneJobs
<1>4. ListJobs(n) \subseteq ListJobs(n + 1) /\ AttachJobs(n) \subseteq AttachJobs(n + 1)
  BY <1>1 DEF ListJobs, AttachJobs
<1>5. RemoveJobs(n) \subseteq RemoveJobs(n + 1) /\ CleanJobs(n) \subseteq CleanJobs(n + 1)
  BY <1>1 DEF RemoveJobs, CleanJobs
<1> QED
  BY <1>2, <1>3, <1>4, <1>5 DEF JobRecords

AllOps == Uploads \cup Attachments \cup {"idle", "other", "erase", "save", "discard", "prune", "remove", "clean"}

LEMMA Shapes ==
    ASSUME NEW n, NEW t, NEW j \in JobRecords(n, t)
    PROVE  /\ j.op \in AllOps
           /\ j.op = "idle" => j = Idle
           /\ j.op = "other" => j \in OtherJobs
           /\ j.op \in Uploads => j \in UploadJobs(n, t)
           /\ j.op = "erase" => j \in EraseJobs(n)
           /\ j.op \in {"save", "discard"} => j \in ResumeJobs(n, t)
           /\ j.op = "prune" => j \in PruneJobs(n)
           /\ j.op \in Attachments => j \in ListJobs(n) \cup AttachJobs(n)
           /\ j.op = "remove" => j \in RemoveJobs(n)
           /\ j.op = "clean" => j \in CleanJobs(n)
  BY DEF JobRecords, AllOps, Uploads, Attachments, Idle, OtherJobs, UploadJobs, EraseJobs,
         ResumeJobs, PruneJobs, ListJobs, AttachJobs, RemoveJobs, CleanJobs

LEMMA LocksKnown ==
    ASSUME NEW n, NEW t, NEW j \in JobRecords(n, t)
    PROVE  j.locks \subseteq 1..n
  BY DEF JobRecords, Idle, OtherJobs, UploadJobs, EraseJobs, ResumeJobs, PruneJobs, ListJobs,
         AttachJobs, RemoveJobs, CleanJobs

-----------------------------------------------------------------------------
(* New files *)

(* A job that creates a file holds its row, and nobody else knows it.         *)
LEMMA CreatesLocked ==
    ASSUME FilesInv, NEW w \in Jobs, Creates(w)
    PROVE  /\ job[w].file \in job[w].locks /\ job[w].file \in 1..created /\ created \in Nat
           /\ job[w].file \in FileIds
<1>1. job[w] \in JobRecords(created, clock) /\ created \in Nat
  BY DEF FilesInv, FilesType
<1>2. CASE job[w].op \in Uploads
  <2>1. job[w] \in UploadJobs(created, clock)
    BY <1>1, <1>2, Shapes
  <2>2. job[w].locks = {job[w].file} /\ job[w].file # NoFile
    BY <1>2 DEF FilesInv, JobSound, UploadSound, Creates
  <2> QED
    BY <1>1, <2>1, <2>2 DEF UploadJobs, NoFile, FileIds
<1>3. CASE job[w].op \in Attachments
  <2>1. job[w] \in ListJobs(created) \cup AttachJobs(created)
    BY <1>1, <1>3, Shapes
  <2>2. job[w] \in AttachJobs(created)
    BY <2>1 DEF ListJobs, Creates
  <2>3. job[w].file \in job[w].locks
    BY <1>3 DEF FilesInv, JobSound, AttachSound, Creates
  <2> QED
    BY <1>1, <2>2, <2>3 DEF AttachJobs, NoFile, FileIds
<1> QED
  BY <1>2, <1>3 DEF Creates

LEMMA NewAlone ==
    ASSUME FilesInv, NEW v \in Jobs, NEW f, NewFile(v, f)
    PROVE  /\ f \in 1..created /\ f \in FileIds /\ created \in Nat /\ f \notin DOMAIN rows
           /\ NewSound(v, f)
           /\ \A w \in Jobs : w # v => f \notin job[w].locks /\ ~NewFile(w, f)
<1>1. f \in job[v].locks /\ f \in 1..created /\ f \in FileIds /\ created \in Nat
  BY CreatesLocked DEF NewFile
<1>2. ASSUME NEW w \in Jobs, w # v
      PROVE  f \notin job[w].locks
  BY <1>1, <1>2 DEF FilesInv, LocksApart
<1>3. ASSUME NEW w \in Jobs, w # v
      PROVE  ~NewFile(w, f)
  BY <1>2, <1>3, CreatesLocked DEF NewFile
<1> QED
  BY <1>1, <1>2, <1>3 DEF NewFile, FilesInv

LEMMA Known ==
    ASSUME FilesInv, NEW w \in Jobs, NEW f, f \in FileIds, Mentions(w, f)
    PROVE  f \in 1..created
<1>1. job[w] \in JobRecords(created, clock) /\ created \in Nat
  BY DEF FilesInv, FilesType
<1>2. CASE job[w].op \in Uploads
  <2>1. job[w] \in UploadJobs(created, clock)
    BY <1>1, <1>2, Shapes
  <2> QED
    BY <1>1, <1>2, <2>1 DEF UploadJobs, Mentions, FileIds, NoFile, Uploads
<1>3. CASE job[w].op \in {"save", "discard"}
  <2>1. job[w] \in ResumeJobs(created, clock)
    BY <1>1, <1>3, Shapes
  <2> QED
    BY <1>1, <1>3, <2>1 DEF ResumeJobs, Mentions, FileIds, NoFile, Uploads
<1>4. CASE job[w].op = "clean"
  <2>1. job[w] \in CleanJobs(created)
    BY <1>1, <1>4, Shapes
  <2> QED
    BY <1>1, <1>4, <2>1 DEF CleanJobs, Mentions, FileIds, NoFile, Uploads
<1> QED
  BY <1>2, <1>3, <1>4 DEF Mentions

-----------------------------------------------------------------------------
(* Steps that commit nothing: one job goes on, and objects are put or deleted *)
(* on its behalf.                                                             *)

(* What such a step of w may do.                                              *)
StepTaken(w) ==
    /\ UNCHANGED <<scenario, clock, database, overtaken>>
    /\ created' \in {created, created + 1}
    /\ lost \subseteq lost' /\ stray \subseteq stray'
    /\ job' = [v \in Jobs |-> job'[v]] /\ \A v \in Jobs \ {w} : job'[v] = job[v]
    /\ job'[w] \in JobRecords(created', clock)
    /\ \A v \in Jobs \ {w} : job[v].locks \cap job'[w].locks = {}

(* Objects come with a new file and go with one that is deleted.              *)
ObjectsMoved(w) ==
    /\ \A f \in objects' \ objects : NewFile(w, f)
    /\ \A f \in objects \ objects', v \in Jobs \ {w} : ~NewFile(v, f)
    /\ \A f \in DOMAIN rows :
          f \in objects \ objects' \/ Deletes(w, f) => f \in lost' \/ Deletes(w, f)'
    /\ \A f \in objects' : f \notin objects \/ Owns(w, f) => f \in stray' \/ Owns(w, f)'

(* The file the job creates, and what it knows of others.                     *)
FilesKnown(w) ==
    /\ \A f \in FileIds : NewFile(w, f)' =>
          /\ NewFile(w, f) \/ (f = created + 1 /\ created' = f)
          /\ f \in objects' <=> job'[w].phase = "commit"
    /\ \A f \in FileIds : Mentions(w, f)' => Mentions(w, f) \/ f \in DOMAIN rows \/ Shown(f)

LEMMA JobStep ==
    ASSUME FilesInv, NEW w \in Jobs, StepTaken(w), ObjectsMoved(w), FilesKnown(w), JobSound(w)',
           job'[w].op = "replace" /\ job'[w].phase # "list" =>
               \A v \in Jobs \ {w} :
                   job[v].op = "replace" /\ job[v].phase # "list" => job[v].item # job'[w].item
    PROVE  FilesInv'
<1> USE DEF StepTaken
<1>1. /\ UNCHANGED <<rows, photo, items, links, overtaken, scenario, clock>>
      /\ created \in Nat /\ created' \in Nat /\ 1..created \subseteq 1..created'
      /\ 0..created \subseteq 0..created'
  BY DEF database, FilesInv, FilesType
<1>2. FilesType'
  <2>1. DOMAIN rows' \cup objects' \cup overtaken' \subseteq 1..created'
    <3>1. \A f \in objects' \ objects : f \in 1..created
      BY NewAlone DEF ObjectsMoved
    <3>2. DOMAIN rows \cup objects \cup overtaken \subseteq 1..created
      BY DEF FilesInv, FilesType
    <3> QED
      BY <1>1, <3>1, <3>2
  <2>2. \A v \in Jobs : job'[v] \in JobRecords(created', clock')
    <3>1. JobRecords(created, clock) \subseteq JobRecords(created', clock)
      BY <1>1, RecordsGrow
    <3> QED
      BY <1>1, <3>1 DEF FilesInv, FilesType
  <2>3. job' \in [Jobs -> JobRecords(created', clock')]
    BY <2>2
  <2>4. photo' \in [Resumes -> {Absent, Gone} \cup 0..created']
    BY <1>1 DEF FilesInv, FilesType
  <2> QED
    BY <1>1, <2>1, <2>3, <2>4 DEF FilesInv, FilesType
<1>3. LocksApart'
  BY DEF FilesInv, LocksApart
<1>4. LinksApart'
  BY <1>1 DEF FilesInv, LinksApart
<1>5. ReplacesApart'
  BY DEF FilesInv, ReplacesApart
<1>6. \A f \in DOMAIN rows' : RowSound(f)'
  <2>1. ASSUME NEW f \in DOMAIN rows
        PROVE  RowSound(f)'
    <3>1. RowSound(f)
      BY DEF FilesInv
    <3>2. f \in objects' \cup lost' \/ \E v \in Jobs : Deletes(v, f)'
      <4>1. CASE f \in objects \cup lost
        BY <4>1 DEF ObjectsMoved
      <4>2. CASE \E v \in Jobs : Deletes(v, f)
        <5>1. PICK v \in Jobs : Deletes(v, f)
          BY <4>2
        <5>2. CASE v = w
          BY <5>1, <5>2 DEF ObjectsMoved
        <5>3. CASE v # w
          BY <5>1, <5>3 DEF Deletes
        <5> QED
          BY <5>2, <5>3
      <4> QED
        BY <3>1, <4>1, <4>2 DEF RowSound
    <3> QED
      BY <1>1, <3>1, <3>2 DEF RowSound, MarkSound, Shown
  <2> QED
    BY <1>1, <2>1
<1>7. \A f \in FileIds : PhotoSound(f)'
  BY <1>1 DEF FilesInv, PhotoSound, Shown, Recorded
<1>8. \A f \in objects' : ObjectSound(f)'
  <2>1. ASSUME NEW f \in objects'
        PROVE  ObjectSound(f)'
    <3>1. CASE f \notin objects \/ Owns(w, f)
      BY <2>1, <3>1 DEF ObjectsMoved, ObjectSound
    <3>2. CASE f \in DOMAIN rows \cup stray
      BY <1>1, <3>2 DEF ObjectSound
    <3>3. CASE \E v \in Jobs \ {w} : Owns(v, f)
      <4>1. PICK v \in Jobs \ {w} : Owns(v, f)
        BY <3>3
      <4>2. Owns(v, f)'
        BY <1>1, <4>1 DEF Owns, NewFile, Creates
      <4> QED
        BY <4>2 DEF ObjectSound
    <3> QED
      BY <3>1, <3>2, <3>3 DEF FilesInv, ObjectSound
  <2> QED
    BY <2>1
<1>9. \A v \in Jobs : JobSound(v)'
  <2>1. ASSUME NEW v \in Jobs, v # w
        PROVE  JobSound(v)'
    <3>1. job'[v] = job[v] /\ JobSound(v)
      BY <2>1 DEF FilesInv
    <3>2. UploadSound(v)' /\ SeenSound(v)' /\ ResumeSound(v)' /\ CleanSound(v)'
      BY <1>1, <3>1 DEF JobSound, UploadSound, SeenSound, ResumeSound, CleanSound, Recorded, Shown
    <3>3. AttachSound(v)'
      BY <1>1, <3>1 DEF JobSound, AttachSound, PhotosOf, FilesOf
    <3>4. \A f \in objects' : f \in objects \/ f \notin DOMAIN rows
      BY DEF ObjectsMoved, NewFile
    <3>5. EraseSound(v)'
      BY <1>1, <3>1, <3>4 DEF JobSound, EraseSound
    <3>6. PruneSound(v)'
      BY <1>1, <3>1, <3>4 DEF JobSound, PruneSound, Shown
    <3> QED
      BY <3>2, <3>3, <3>5, <3>6 DEF JobSound
  <2> QED
    BY <2>1
<1>10. \A v \in Jobs : \A f \in FileIds : NewFile(v, f)' => NewSound(v, f)'
  <2>1. ASSUME NEW v \in Jobs, NEW f \in FileIds, NewFile(v, f)'
        PROVE  NewSound(v, f)'
    <3>1. v # w => NewFile(v, f)
      BY <1>1, <2>1 DEF NewFile, Creates
    <3>2. CASE NewFile(v, f)
      <4>1. NewSound(v, f) /\ f \notin DOMAIN rows /\ ~Shown(f)
        BY <3>2, NewAlone DEF NewSound
      <4>2. f \in objects' <=> job'[v].phase = "commit"
        <5>1. CASE v = w
          BY <2>1, <5>1 DEF FilesKnown
        <5>2. CASE v # w
          <6>1. f \in objects' \ objects => FALSE
            BY <3>2, <5>2, NewAlone DEF ObjectsMoved
          <6>2. f \in objects \ objects' => FALSE
            BY <3>2, <5>2 DEF ObjectsMoved
          <6>3. job'[v] = job[v]
            BY <5>2
          <6> QED
            BY <4>1, <6>1, <6>2, <6>3 DEF NewSound
        <5> QED
          BY <5>1, <5>2
      <4>3. ASSUME NEW u \in Jobs, Mentions(u, f)'
            PROVE  FALSE
        <5>1. CASE u = w
          BY <4>1, <4>3, <5>1 DEF FilesKnown, NewSound
        <5>2. CASE u # w
          BY <4>1, <4>3, <5>2 DEF Mentions, NewSound
        <5> QED
          BY <5>1, <5>2
      <4> QED
        BY <1>1, <4>1, <4>2, <4>3 DEF NewSound, Shown
    <3>3. CASE v = w /\ ~NewFile(w, f)
      <4>1. f = created + 1 /\ (f \in objects' <=> job'[w].phase = "commit")
        BY <2>1, <3>3 DEF FilesKnown
      <4>2. f \notin 1..created
        BY <1>1, <4>1
      <4>3. f \notin DOMAIN rows /\ ~Shown(f) /\ f \notin overtaken
        <5>1. f \notin DOMAIN rows /\ f \notin overtaken
          BY <4>2 DEF FilesInv, FilesType
        <5>2. \A r \in Resumes : photo[r] \in {Absent, Gone} \cup 0..created
          BY DEF FilesInv, FilesType
        <5> QED
          BY <1>1, <4>1, <5>1, <5>2 DEF Shown, Absent, Gone
      <4>4. ASSUME NEW u \in Jobs, Mentions(u, f)'
            PROVE  FALSE
        <5>1. ~Mentions(u, f)
          BY <4>2, Known
        <5>2. CASE u = w
          BY <4>3, <4>4, <5>1, <5>2 DEF FilesKnown
        <5>3. CASE u # w
          BY <4>4, <5>1, <5>3 DEF Mentions
        <5> QED
          BY <5>2, <5>3
      <4> QED
        BY <1>1, <3>3, <4>1, <4>3, <4>4 DEF NewSound, Shown
    <3> QED
      BY <3>1, <3>2, <3>3
  <2> QED
    BY <2>1
<1> QED
  BY <1>2, <1>3, <1>4, <1>5, <1>6, <1>7, <1>8, <1>9, <1>10 DEF FilesInv

LEMMA BecomesRecord ==
    ASSUME FilesInv, NEW w \in Jobs, NEW j, Becomes(w, j)
    PROVE  /\ job' = [v \in Jobs |-> job'[v]] /\ job'[w] = j
           /\ \A v \in Jobs \ {w} : job'[v] = job[v]
<1>1. job = [v \in Jobs |-> job[v]]
  BY DEF FilesInv, FilesType
<1> QED
  BY <1>1 DEF Becomes

LEMMA JobShape ==
    ASSUME FilesInv, NEW w \in Jobs
    PROVE  /\ job[w] \in JobRecords(created, clock) /\ created \in Nat /\ clock \in Nat
           /\ job[w].locks \subseteq 1..created /\ DOMAIN rows \subseteq 1..created
           /\ job = [v \in Jobs |-> job[v]]
  BY LocksKnown DEF FilesInv, FilesType

(* A job that has nothing to account for any longer.                          *)
LEMMA BareStep ==
    ASSUME FilesInv, NEW w \in Jobs, StepTaken(w), ObjectsMoved(w),
           \/ job'[w].op \in {"idle", "other", "remove"}
           \/ job'[w].op = "replace" /\ job'[w].phase = "list"
    PROVE  FilesInv'
<1>1. JobSound(w)'
  BY DEF JobSound, UploadSound, SeenSound, ResumeSound, EraseSound, PruneSound, AttachSound,
         CleanSound, Uploads, Attachments
<1>2. FilesKnown(w)
  BY DEF FilesKnown, NewFile, Creates, Mentions, Uploads, Attachments
<1> QED
  BY <1>1, <1>2, JobStep

(* A job that goes on without any object.                                     *)
LEMMA StillObjects ==
    ASSUME FilesInv, NEW w \in Jobs, objects' = objects, UNCHANGED stray,
           \A f : Deletes(w, f) => Deletes(w, f)', \A f : Owns(w, f) => Owns(w, f)'
    PROVE  ObjectsMoved(w)
  BY DEF ObjectsMoved

(* A job that owns and deletes nothing starts or takes up another record.     *)
LEMMA EmptyHanded ==
    ASSUME NEW w \in Jobs,
           \/ job[w].op \in {"idle", "other", "remove", "save", "discard"}
           \/ job[w].op \in Uploads \cup Attachments /\ job[w].phase \in {"find", "list"}
    PROVE  \A f : ~Deletes(w, f) /\ ~Owns(w, f) /\ ~NewFile(w, f)
  BY DEF Deletes, Owns, NewFile, Creates, Uploads, Attachments

LEMMA IdleRecord ==
    \A n, t : Idle \in JobRecords(n, t) /\ Idle.op = "idle" /\ Idle.locks = {}
  BY DEF JobRecords, Idle

(* A job ends, and no row has changed.                                        *)
LEMMA EndsStep ==
    ASSUME FilesInv, NEW w \in Jobs, Ends(w), ObjectsMoved(w), created' = created,
           UNCHANGED <<scenario, clock, database, overtaken>>,
           lost \subseteq lost', stray \subseteq stray'
    PROVE  FilesInv'
<1>1. /\ job' = [v \in Jobs |-> job'[v]] /\ job'[w] = Idle
      /\ \A v \in Jobs \ {w} : job'[v] = job[v]
  BY BecomesRecord DEF Ends
<1>2. StepTaken(w)
  BY <1>1, IdleRecord DEF StepTaken
<1> QED
  BY <1>1, <1>2, IdleRecord, BareStep

-----------------------------------------------------------------------------
(* Requests that begin *)

(* A request that begins with one record for its job.                         *)
LEMMA BeginsStep ==
    ASSUME FilesInv, NEW w \in Jobs, NEW op, Request(w, op), NEW j, Becomes(w, j),
           UNCHANGED <<database, overtaken, lost, stray, created>>, objects' = objects,
           j \in JobRecords(created, clock), j.locks = {}, JobSound(w)',
           j.op \notin Attachments \/ j.phase = "list",
           \A f \in FileIds : ~NewFile(w, f)' /\ (Mentions(w, f)' => Shown(f))
    PROVE  FilesInv'
<1>1. /\ job' = [v \in Jobs |-> job'[v]] /\ job'[w] = j
      /\ \A v \in Jobs \ {w} : job'[v] = job[v]
  BY BecomesRecord
<1>2. StepTaken(w)
  BY <1>1 DEF StepTaken, Request
<1>3. job[w].op = "idle"
  BY DEF Request, Idle
<1>4. ObjectsMoved(w)
  BY <1>3, EmptyHanded, StillObjects
<1>5. FilesKnown(w)
  BY DEF FilesKnown
<1> QED
  BY <1>1, <1>2, <1>4, <1>5, JobStep DEF Attachments

LEMMA UploadBegins ==
    ASSUME FilesInv, NEW w \in Jobs, NEW op \in Uploads, Request(w, op),
           NEW content \in Contents, NEW target, NEW seen,
           \/ op = "media" /\ target = <<>> /\ seen = NoFile
           \/ op = "photo" /\ \E r \in Resumes : Present(r) /\ target = <<r>> /\ seen = photo[r],
           Becomes(w, Upload(op, content, target, seen)),
           UNCHANGED <<created, database, objects, history>>
    PROVE  FilesInv'
<1> DEFINE j == Upload(op, content, target, seen)
<1>1. /\ job'[w] = j /\ created \in Nat /\ clock \in Nat /\ clock' = clock
      /\ photo' = photo /\ rows' = rows /\ overtaken' = overtaken
  BY BecomesRecord, JobShape DEF database, history, Request
<1>2. /\ j.op = op /\ j.phase = "find" /\ j.locks = {} /\ j.file = NoFile /\ j.seen = seen
      /\ j.target = target
  BY DEF Upload
<1>3. seen # NoFile => op = "photo" /\ Shown(seen)
  BY DEF Shown
<1>4. seen \in 0..created
  <2>1. \A r \in Resumes : photo[r] \in {Absent, Gone} \cup 0..created
    BY DEF FilesInv, FilesType
  <2> QED
    BY <1>1, <2>1 DEF Present, NoFile, Absent, Gone
<1>5. j \in JobRecords(created, clock)
  <2>1. target \in {<<>>} \cup {<<r>> : r \in Resumes}
    OBVIOUS
  <2>2. j \in UploadJobs(created, clock)
    BY <1>1, <1>4, <2>1 DEF Upload, UploadJobs, NoFile
  <2> QED
    BY <2>2 DEF JobRecords
<1> HIDE DEF j
<1>6. NoFile \notin DOMAIN rows
  BY JobShape DEF NoFile
<1>7. UploadSound(w)'
  BY <1>1, <1>2, <1>6 DEF UploadSound, Recorded
<1>8. SeenSound(w)'
  <2>1. seen # NoFile => PhotoSound(seen)
    BY <1>1, <1>4 DEF FilesInv, FileIds, NoFile
  <2> QED
    BY <1>1, <1>2, <1>3, <2>1 DEF SeenSound, PhotoSound, Recorded, Shown
<1>9. JobSound(w)'
  BY <1>1, <1>2, <1>7, <1>8 DEF JobSound, ResumeSound, EraseSound, PruneSound, AttachSound,
         CleanSound, Uploads, Attachments
<1>10. \A f \in FileIds : ~NewFile(w, f)' /\ (Mentions(w, f)' => Shown(f))
  BY <1>1, <1>2, <1>3 DEF NewFile, Creates, Mentions, FileIds, Uploads
<1> QED
  BY <1>2, <1>5, <1>9, <1>10, BeginsStep DEF j, history, Uploads, Attachments

LEMMA StartMediaStep ==
    ASSUME FilesInv, NEW w \in Jobs, StartMedia(w)
    PROVE  FilesInv'
<1>1. PICK content \in scenario.contents : Becomes(w, Upload("media", content, <<>>, NoFile))
  BY DEF StartMedia
<1>2. content \in Contents
  BY <1>1, FilesAssumption DEF FilesInv, FilesType
<1> QED
  BY <1>1, <1>2, UploadBegins DEF StartMedia, Uploads

LEMMA StartPhotoStep ==
    ASSUME FilesInv, NEW w \in Jobs, StartPhoto(w)
    PROVE  FilesInv'
<1>1. PICK content \in scenario.contents, r \in {s \in Resumes : Present(s)} :
           Becomes(w, Upload("photo", content, <<r>>, photo[r]))
  BY DEF StartPhoto
<1>2. content \in Contents
  BY <1>1, FilesAssumption DEF FilesInv, FilesType
<1> QED
  BY <1>1, <1>2, UploadBegins DEF StartPhoto, Uploads

LEMMA ResumeRequestStep ==
    ASSUME FilesInv, NEW w \in Jobs, NEW op \in {"save", "discard"}, NEW r \in Resumes,
           NEW value \in {Gone, NoFile, photo[r]}, ResumeRequest(w, op, r, value)
    PROVE  FilesInv'
<1> DEFINE j == [op |-> op, phase |-> "commit", locks |-> {}, target |-> <<r>>,
                 seen |-> photo[r], now |-> clock, value |-> value]
<1>1. /\ job'[w] = j /\ created \in Nat /\ clock \in Nat /\ clock' = clock
      /\ photo' = photo /\ rows' = rows /\ overtaken' = overtaken
  BY BecomesRecord, JobShape DEF ResumeRequest, Request, database, history
<1>2. photo[r] \in 0..created
  <2>1. \A s \in Resumes : photo[s] \in {Absent, Gone} \cup 0..created
    BY DEF FilesInv, FilesType
  <2> QED
    BY <1>1, <2>1 DEF ResumeRequest, Present, NoFile, Absent, Gone
<1>3. j \in JobRecords(created, clock)
  <2>1. j \in ResumeJobs(created, clock)
    BY <1>1, <1>2 DEF ResumeJobs, NoFile
  <2> QED
    BY <2>1 DEF JobRecords
<1>4. /\ j.op = op /\ j.seen = photo[r] /\ j.value = value /\ j.locks = {}
  OBVIOUS
<1>5. Becomes(w, j)
  BY DEF ResumeRequest
<1> HIDE DEF j
<1>6. photo[r] # NoFile => PhotoSound(photo[r]) /\ Shown(photo[r])
  BY <1>1, <1>2 DEF FilesInv, FileIds, NoFile, Shown
<1>7. SeenSound(w)'
  BY <1>1, <1>4, <1>6 DEF SeenSound, PhotoSound, Recorded, Shown
<1>8. JobSound(w)'
  BY <1>1, <1>4, <1>7 DEF JobSound, UploadSound, ResumeSound, EraseSound, PruneSound,
         AttachSound, CleanSound, Uploads, Attachments
<1>9. \A f \in FileIds : ~NewFile(w, f)' /\ (Mentions(w, f)' => Shown(f))
  BY <1>1, <1>4, <1>6 DEF NewFile, Creates, Mentions, FileIds, Uploads, Attachments
<1> QED
  BY <1>3, <1>4, <1>5, <1>8, <1>9, BeginsStep DEF ResumeRequest, history, Attachments

LEMMA SaveResumeStep ==
    ASSUME FilesInv, NEW w \in Jobs, SaveResume(w)
    PROVE  FilesInv'
  BY ResumeRequestStep DEF SaveResume

LEMMA DiscardResumeStep ==
    ASSUME FilesInv, NEW w \in Jobs, DiscardResume(w)
    PROVE  FilesInv'
  BY ResumeRequestStep DEF DiscardResume

(* Requests that do not know of any file yet that they could lose.            *)
LEMMA BareBegins ==
    ASSUME FilesInv, NEW w \in Jobs, NEW op, Request(w, op), NEW j, Becomes(w, j),
           UNCHANGED <<created, database, objects, history>>,
           j \in OtherJobs \cup ListJobs(created) \cup RemoveJobs(created)
    PROVE  FilesInv'
<1>1. job'[w] = j
  BY BecomesRecord
<1>2. /\ j.op \in {"other", "remove"} \/ (j.op = "replace" /\ j.phase = "list")
      /\ j.locks = {} /\ j \in JobRecords(created, clock)
  BY DEF OtherJobs, ListJobs, RemoveJobs, JobRecords
<1>3. JobSound(w)'
  BY <1>1, <1>2 DEF JobSound, UploadSound, SeenSound, ResumeSound, EraseSound, PruneSound,
         AttachSound, CleanSound, Uploads, Attachments
<1>4. \A f \in FileIds : ~NewFile(w, f)' /\ (Mentions(w, f)' => Shown(f))
  BY <1>1, <1>2 DEF NewFile, Creates, Mentions, Uploads, Attachments
<1> QED
  BY <1>2, <1>3, <1>4, BeginsStep DEF history, Attachments

LEMMA LinksKnown ==
    ASSUME FilesInv, NEW i
    PROVE  FilesOf(i) \in SUBSET (1..created) /\ PhotosOf(i) \in SUBSET (1..created)
  BY DEF FilesInv, FilesType, FilesOf, PhotosOf

LEMMA StartReplaceStep ==
    ASSUME FilesInv, NEW w \in Jobs, StartReplace(w)
    PROVE  FilesInv'
<1>1. PICK item \in items \cap People :
          Becomes(w, [op |-> "replace", phase |-> "list", item |-> item,
                      dropped |-> PhotosOf(item), locks |-> {}])
  BY DEF StartReplace
<1>2. item \in Items
  BY <1>1 DEF FilesInv, FilesType
<1>3. [op |-> "replace", phase |-> "list", item |-> item, dropped |-> PhotosOf(item),
       locks |-> {}] \in ListJobs(created)
  BY <1>2, LinksKnown DEF ListJobs
<1> QED
  BY <1>1, <1>3, BareBegins DEF StartReplace

LEMMA StartRemoveStep ==
    ASSUME FilesInv, NEW w \in Jobs, NEW item, StartRemove(w, item)
    PROVE  FilesInv'
<1>1. item \in Items
  BY DEF StartRemove, FilesInv, FilesType
<1>2. [op |-> "remove", phase |-> "commit", item |-> item, dropped |-> FilesOf(item),
       locks |-> {}] \in RemoveJobs(created)
  BY <1>1, LinksKnown DEF RemoveJobs
<1> QED
  BY <1>2, BareBegins DEF StartRemove

-----------------------------------------------------------------------------
(* Uploads *)

LEMMA UploadRecord ==
    ASSUME FilesInv, NEW w \in Jobs, job[w].op \in Uploads
    PROVE  job[w] \in UploadJobs(created, clock)
  BY JobShape, Shapes

LEMMA OldestIsOne ==
    ASSUME NEW F, F \subseteq Nat, F # {}
    PROVE  Oldest(F) \in F
<1>1. PICK f \in F : \A g \in F : ~(<<g, f>> \in OpToRel(<, Nat))
  BY NatLessThanWellFounded, WFMin, Zenon
<1>2. \A g \in F : ~(g < f)
  BY <1>1, Zenon DEF OpToRel
<1>3. \A g \in F : f <= g
  BY <1>2
<1> QED
  BY <1>3 DEF Oldest

LEMMA DuplicateFound ==
    ASSUME FilesInv, NEW w \in Jobs, Duplicates(job[w]) # {}
    PROVE  Oldest(Duplicates(job[w])) \in Duplicates(job[w])
  BY OldestIsOne, JobShape DEF Duplicates

(* An upload takes up file f, and holds what is held.                         *)
Takes(w, f, held, phase) ==
    /\ In(w, Uploads, "find")
    /\ UNCHANGED <<scenario, clock, database, objects, history>>
    /\ created' \in {created, created + 1} /\ f \in 1..created'
    /\ phase \in {"find", "put", "commit"} /\ held = IF phase = "find" THEN {} ELSE {f}
    /\ \A v \in Jobs \ {w} : job[v].locks \cap held = {}
    /\ job' = [job EXCEPT ![w].file = f, ![w].locks = held, ![w].phase = phase]
    /\ \/ phase # "put" /\ f \in DOMAIN rows /\ rows[f].space = Namespace(job[w].op)
       \/ phase = "put" /\ f = created + 1 /\ created' = f

LEMMA UploadTakes ==
    ASSUME FilesInv, NEW w \in Jobs, NEW f, NEW held, NEW phase, Takes(w, f, held, phase)
    PROVE  FilesInv'
<1> USE DEF Takes
<1>1. /\ job[w] \in UploadJobs(created, clock) /\ created \in Nat
      /\ job = [v \in Jobs |-> job[v]] /\ job[w].phase = "find" /\ job[w].op \in Uploads
      /\ DOMAIN rows \subseteq 1..created
  BY UploadRecord, JobShape DEF In
<1>2. /\ job' = [v \in Jobs |-> job'[v]]
      /\ \A v \in Jobs \ {w} : job'[v] = job[v]
  BY <1>1
<1>3. /\ job'[w].op = job[w].op /\ job'[w].file = f /\ job'[w].locks = held
      /\ job'[w].phase = phase /\ job'[w].seen = job[w].seen /\ job'[w].target = job[w].target
      /\ job'[w] \in UploadJobs(created', clock)
  BY <1>1 DEF UploadJobs
<1>4. StepTaken(w)
  BY <1>2, <1>3 DEF StepTaken, history, JobRecords
<1>5. ObjectsMoved(w)
  BY <1>1, EmptyHanded, StillObjects DEF history
<1>6. f # NoFile /\ (f \in DOMAIN rows \/ f = created + 1)
  BY <1>1 DEF NoFile
<1>7. FilesKnown(w)
  <2>1. ASSUME NEW g \in FileIds, NewFile(w, g)'
        PROVE  /\ g = created + 1 /\ created' = g
               /\ g \in objects' <=> job'[w].phase = "commit"
    <3>1. g = f /\ f \notin DOMAIN rows
      BY <1>3, <2>1 DEF NewFile, database
    <3>2. f = created + 1 /\ created' = f /\ phase = "put"
      BY <3>1
    <3>3. f \notin objects
      BY <1>1, <3>2 DEF FilesInv, FilesType
    <3> QED
      BY <1>3, <3>1, <3>2, <3>3
  <2>2. ASSUME NEW g \in FileIds, Mentions(w, g)'
        PROVE  Mentions(w, g) \/ g \in DOMAIN rows
    BY <1>1, <1>3, <1>6, <2>2 DEF Mentions, Uploads
  <2> QED
    BY <2>1, <2>2 DEF FilesKnown
<1>8. JobSound(w)'
  <2>1. UploadSound(w)'
    <3>1. UploadSound(w)
      BY DEF FilesInv, JobSound
    <3>2. Recorded(f, Namespace(job[w].op)) /\ (phase = "put" => f \notin DOMAIN rows)
      BY <1>1 DEF Recorded
    <3>3. rows' = rows
      BY DEF database
    <3> QED
      BY <1>1, <1>3, <1>6, <3>1, <3>2, <3>3 DEF UploadSound, Recorded
  <2>2. SeenSound(w)'
    <3>1. SeenSound(w)
      BY DEF FilesInv, JobSound
    <3>2. UNCHANGED <<rows, photo, overtaken, clock>>
      BY DEF database, history
    <3> HIDE DEF Takes
    <3> QED
      BY <1>3, <3>1, <3>2 DEF SeenSound, Recorded, Shown
  <2> QED
    BY <1>1, <1>3, <2>1, <2>2 DEF JobSound, ResumeSound, EraseSound, PruneSound, AttachSound,
           CleanSound, Uploads, Attachments
<1> QED
  BY <1>1, <1>3, <1>4, <1>5, <1>7, <1>8, JobStep DEF Uploads

LEMMA AwaitDuplicateStep ==
    ASSUME FilesInv, NEW w \in Jobs, AwaitDuplicate(w)
    PROVE  FilesInv'
<1> DEFINE f == Oldest(Duplicates(job[w]))
<1>1. f \in DOMAIN rows /\ rows[f].space = Namespace(job[w].op)
  BY DuplicateFound DEF AwaitDuplicate, Duplicates
<1>2. job' = [job EXCEPT ![w].file = f]
  BY DEF AwaitDuplicate
<1> HIDE DEF f
<1>3. /\ job[w] \in UploadJobs(created, clock) /\ job = [v \in Jobs |-> job[v]]
      /\ job[w].locks = {} /\ job[w].phase = "find" /\ f \in 1..created
  BY <1>1, UploadRecord, JobShape DEF AwaitDuplicate, In, FilesInv, JobSound, UploadSound
<1>4. job' = [job EXCEPT ![w].file = f, ![w].locks = {}, ![w].phase = "find"]
  <2>1. [job[w] EXCEPT !.file = f] = [job[w] EXCEPT !.file = f, !.locks = {}, !.phase = "find"]
    BY <1>3 DEF UploadJobs
  <2> QED
    BY <1>2, <1>3, <2>1
<1> QED
  <2>1. Takes(w, f, {}, "find")
    BY <1>1, <1>3, <1>4 DEF Takes, AwaitDuplicate, Later, bounds
  <2> QED
    BY <2>1, UploadTakes

LEMMA FindDuplicateStep ==
    ASSUME FilesInv, NEW w \in Jobs, FindDuplicate(w)
    PROVE  FilesInv'
<1>1. PICK f \in Candidate(job[w]) \cap DOMAIN rows :
         /\ ~Locked(f)
         /\ job' = [job EXCEPT ![w].file = f, ![w].locks = {f}, ![w].phase = "commit"]
  BY DEF FindDuplicate
<1>2. rows[f].space = Namespace(job[w].op)
  <2>1. CASE job[w].file # NoFile
    BY <1>1, <2>1 DEF Candidate, FindDuplicate, In, FilesInv, JobSound, UploadSound, Recorded
  <2>2. CASE job[w].file = NoFile
    BY <1>1, <2>2, DuplicateFound DEF Candidate, Duplicates
  <2> QED
    BY <2>1, <2>2
<1>3. f \in 1..created /\ \A v \in Jobs \ {w} : job[v].locks \cap {f} = {}
  BY <1>1, JobShape DEF Locked
<1> QED
  <2>1. Takes(w, f, {f}, "commit")
    BY <1>1, <1>2, <1>3 DEF Takes, FindDuplicate, Later, bounds
  <2> QED
    BY <2>1, UploadTakes

LEMMA FindNothingStep ==
    ASSUME FilesInv, NEW w \in Jobs, FindNothing(w)
    PROVE  FilesInv'
<1>1. /\ created' = created + 1 /\ created \in Nat
      /\ job' = [job EXCEPT ![w].file = created', ![w].locks = {created'}, ![w].phase = "put"]
  BY JobShape DEF FindNothing, Create
<1>2. \A v \in Jobs \ {w} : job[v].locks \cap {created'} = {}
  BY <1>1, JobShape
<1> QED
  <2>1. Takes(w, created', {created'}, "put")
    BY <1>1, <1>2 DEF Takes, FindNothing, Later, bounds
  <2> QED
    BY <2>1, UploadTakes

(* The file of a job in which an object is put.                               *)
LEMMA PutIsNew ==
    ASSUME FilesInv, NEW w \in Jobs, In(w, Uploads \cup Attachments, "put")
    PROVE  /\ NewFile(w, job[w].file) /\ job[w].file \in FileIds
           /\ job[w] \in UploadJobs(created, clock) \cup AttachJobs(created)
           /\ job[w].op \in Uploads => job[w] \in UploadJobs(created, clock)
           /\ job[w].op \in Attachments => job[w] \in AttachJobs(created)
<1>1. Creates(w)
  BY DEF In, Creates
<1>2. job[w].file \notin DOMAIN rows
  BY DEF FilesInv, JobSound, UploadSound, AttachSound, In
<1>3. job[w] \in JobRecords(created, clock)
  BY JobShape
<1> QED
  BY <1>1, <1>2, <1>3, CreatesLocked, Shapes DEF NewFile, In, ListJobs

LEMMA PutObjectStep ==
    ASSUME FilesInv, NEW w \in Jobs, PutMedia(w) \/ PutPhoto(w) \/ PutPrivate(w)
    PROVE  FilesInv'
<1>1. /\ In(w, Uploads \cup Attachments, "put")
      /\ objects' = objects \cup {job[w].file} /\ job' = [job EXCEPT ![w].phase = "commit"]
      /\ UNCHANGED <<scenario, clock, created, database, history>>
  BY DEF PutMedia, PutPhoto, PutPrivate, PutObject, In, Uploads, Later, bounds
<1>2. /\ NewFile(w, job[w].file) /\ job = [v \in Jobs |-> job[v]]
      /\ job[w] \in UploadJobs(created, clock) \cup AttachJobs(created)
      /\ job[w].op \in Uploads => job[w] \in UploadJobs(created, clock)
      /\ job[w].op \in Attachments => job[w] \in AttachJobs(created)
      /\ job[w].phase = "put" /\ job[w].op \in Uploads \cup Attachments
  BY <1>1, PutIsNew, JobShape DEF In
<1>3. /\ job' = [v \in Jobs |-> job'[v]] /\ \A v \in Jobs \ {w} : job'[v] = job[v]
      /\ job'[w] = [job[w] EXCEPT !.phase = "commit"]
  BY <1>1, <1>2
<1>4. CASE job[w].op \in Uploads
  <2>1. /\ job'[w] \in UploadJobs(created, clock) /\ job'[w].phase = "commit"
        /\ job'[w].op = job[w].op /\ job'[w].file = job[w].file /\ job'[w].seen = job[w].seen
        /\ job'[w].locks = job[w].locks /\ job'[w].target = job[w].target
    BY <1>2, <1>3, <1>4 DEF UploadJobs
  <2>2. StepTaken(w)
    BY <1>1, <1>3, <2>1 DEF StepTaken, history, JobRecords, FilesInv, LocksApart
  <2>3. ObjectsMoved(w)
    BY <1>1, <1>2, <1>4, <2>1 DEF ObjectsMoved, Owns, NewFile, Creates, Deletes, Uploads,
           database
  <2>4. FilesKnown(w)
    BY <1>1, <1>2, <1>4, <2>1 DEF FilesKnown, NewFile, Creates, Mentions, Uploads, database
  <2>5. JobSound(w)'
    <3>1. UploadSound(w)'
      BY <1>1, <1>2, <2>1 DEF FilesInv, JobSound, UploadSound, Recorded, database
    <3>2. SeenSound(w)'
      BY <1>1, <2>1 DEF FilesInv, JobSound, SeenSound, Recorded, Shown, database, history
    <3> QED
      BY <1>4, <2>1, <3>1, <3>2 DEF JobSound, ResumeSound, EraseSound, PruneSound, AttachSound,
             CleanSound, Uploads, Attachments
  <2> QED
    BY <1>4, <2>1, <2>2, <2>3, <2>4, <2>5, JobStep DEF Uploads
<1>5. CASE job[w].op \in Attachments
  <2>1. /\ job'[w] \in AttachJobs(created) /\ job'[w].phase = "commit"
        /\ job'[w].op = job[w].op /\ job'[w].file = job[w].file /\ job'[w].item = job[w].item
        /\ job'[w].locks = job[w].locks /\ job'[w].dropped = job[w].dropped
    BY <1>2, <1>3, <1>5 DEF AttachJobs
  <2>2. StepTaken(w)
    BY <1>1, <1>3, <2>1 DEF StepTaken, history, JobRecords, FilesInv, LocksApart
  <2>3. ObjectsMoved(w)
    BY <1>1, <1>2, <1>5, <2>1 DEF ObjectsMoved, Owns, NewFile, Creates, Deletes, Attachments,
           database
  <2>4. FilesKnown(w)
    BY <1>1, <1>2, <1>5, <2>1 DEF FilesKnown, NewFile, Creates, Mentions, Uploads, Attachments,
           database
  <2>5. JobSound(w)'
    <3>1. AttachSound(w)'
      BY <1>1, <1>2, <1>5, <2>1 DEF FilesInv, JobSound, AttachSound, PhotosOf, FilesOf, database
    <3> QED
      BY <1>5, <2>1, <3>1 DEF JobSound, ResumeSound, EraseSound, PruneSound, UploadSound,
             SeenSound, CleanSound, Uploads, Attachments
  <2>6. ASSUME job[w].op = "replace", NEW v \in Jobs \ {w}, job[v].op = "replace",
               job[v].phase # "list"
        PROVE  job[v].item # job'[w].item
    BY <1>2, <2>1, <2>6 DEF FilesInv, ReplacesApart
  <2> QED
    BY <2>1, <2>2, <2>3, <2>4, <2>5, <2>6, JobStep
<1> QED
  BY <1>2, <1>4, <1>5

-----------------------------------------------------------------------------
(* Jobs that end without a commit *)

LEMMA PutUnansweredStep ==
    ASSUME FilesInv, NEW w \in Jobs, PutUnanswered(w)
    PROVE  FilesInv'
<1>1. /\ In(w, Uploads \cup Attachments, "put") /\ Ends(w)
      /\ objects' = objects \cup {job[w].file} /\ stray' = stray \cup {job[w].file}
      /\ UNCHANGED <<scenario, clock, created, database, lost, overtaken>>
  BY DEF PutUnanswered, Fault
<1>2. NewFile(w, job[w].file) /\ job[w].phase = "put"
  BY <1>1, PutIsNew DEF In
<1>3. ObjectsMoved(w)
  BY <1>1, <1>2 DEF ObjectsMoved, Owns, Deletes, NewFile, Creates, Uploads, Attachments
<1> QED
  BY <1>1, <1>3, EndsStep

LEMMA RollBackStep ==
    ASSUME FilesInv, NEW w \in Jobs, RollBack(w)
    PROVE  FilesInv'
<1> DEFINE Cleaned == IF job[w].op \in Attachments THEN Unowned(job[w]) ELSE {}
<1>1. /\ Ends(w) /\ objects' = objects \ Cleaned
      /\ stray' = stray \cup (Unowned(job[w]) \ Cleaned)
      /\ lost' = IF job[w].op = "erase" THEN lost \cup {job[w].file} ELSE lost
      /\ job[w].op \notin {"idle", "prune", "clean"}
      /\ UNCHANGED <<scenario, clock, created, database, overtaken>>
  BY DEF RollBack, Later, bounds
<1>2. \A f \in Unowned(job[w]) : NewFile(w, f)
  BY DEF Unowned, NewFile, Creates
<1>3. \A f : Owns(w, f) => f \in Unowned(job[w])
  BY <1>1 DEF Owns, NewFile, Creates, Unowned
<1>4. ObjectsMoved(w)
  <2>1. \A f \in objects' \ objects : NewFile(w, f)
    BY <1>1
  <2>2. \A f \in objects \ objects', v \in Jobs \ {w} : ~NewFile(v, f)
    BY <1>1, <1>2, NewAlone
  <2>3. \A f \in DOMAIN rows : f \in objects \ objects' \/ Deletes(w, f) => f \in lost'
    BY <1>1, <1>2 DEF Deletes, NewFile
  <2>4. \A f \in objects' : f \notin objects \/ Owns(w, f) => f \in stray'
    BY <1>1, <1>3
  <2> QED
    BY <2>1, <2>2, <2>3, <2>4 DEF ObjectsMoved
<1> QED
  BY <1>1, <1>4, EndsStep

LEMMA CrashStep ==
    ASSUME FilesInv, NEW w \in Jobs, Crash(w)
    PROVE  FilesInv'
<1>1. /\ Ends(w) /\ objects' = objects
      /\ stray' = stray \cup Unowned(job[w])
                        \cup (IF job[w].op = "clean" THEN job[w].doomed ELSE {})
      /\ lost' = lost \cup (IF job[w].op = "prune" THEN job[w].doomed ELSE {})
      /\ \/ job[w].op \in Attachments /\ job[w].phase = "commit"
         \/ job[w].op \in {"clean", "prune"}
      /\ UNCHANGED <<scenario, clock, created, database, overtaken>>
  BY DEF Crash, Fault
<1>2. \A f : Owns(w, f) => f \in stray'
  BY <1>1 DEF Owns, NewFile, Creates, Unowned
<1>3. \A f : Deletes(w, f) => f \in lost'
  BY <1>1 DEF Deletes, Attachments
<1>4. ObjectsMoved(w)
  BY <1>1, <1>2, <1>3 DEF ObjectsMoved
<1> QED
  BY <1>1, <1>4, EndsStep

LEMMA CleanStep ==
    ASSUME FilesInv, NEW w \in Jobs, Clean(w)
    PROVE  FilesInv'
<1>1. /\ job[w].op = "clean" /\ Ends(w) /\ objects' = objects \ job[w].doomed
      /\ UNCHANGED <<scenario, clock, created, database, history>>
  BY DEF Clean, In, Later, bounds
<1>2. job[w].doomed \cap DOMAIN rows = {}
  BY <1>1 DEF FilesInv, JobSound, CleanSound
<1>3. \A f \in job[w].doomed, v \in Jobs : ~NewFile(v, f)
  BY <1>1, NewAlone DEF NewSound, Mentions
<1>4. ObjectsMoved(w)
  BY <1>1, <1>2, <1>3 DEF ObjectsMoved, Owns, Deletes, NewFile, Creates, Uploads, Attachments
<1> QED
  BY <1>1, <1>4, EndsStep DEF history

(* A request on the knowledge database that wrote nothing or other tables.    *)
LEMMA OtherEndsStep ==
    ASSUME FilesInv, NEW w \in Jobs, job[w].op = "other", Ends(w),
           UNCHANGED <<scenario, clock, created, database, objects, history>>
    PROVE  FilesInv'
<1>1. ObjectsMoved(w)
  BY EmptyHanded DEF ObjectsMoved
<1> QED
  BY <1>1, EndsStep DEF history

-----------------------------------------------------------------------------
(* Prune runs and deletions of media *)

LEMMA PruneRecord ==
    ASSUME FilesInv, NEW w \in Jobs, job[w].op = "prune"
    PROVE  /\ job[w] \in PruneJobs(created) /\ PruneSound(w)
           /\ \A f : ~Owns(w, f) /\ ~NewFile(w, f) /\ ~Mentions(w, f)
<1>1. job[w] \in PruneJobs(created)
  BY JobShape, Shapes
<1>2. PruneSound(w)
  BY DEF FilesInv, JobSound
<1> QED
  BY <1>1, <1>2 DEF Owns, NewFile, Creates, Mentions, Uploads, Attachments

LEMMA BatchDue ==
    ASSUME FilesInv, NEW space
    PROVE  /\ Batch(space) \in SUBSET (1..created)
           /\ \A f \in Batch(space) :
                 /\ f \in DOMAIN rows /\ rows[f].orphaned # Never
                 /\ rows[f].orphaned < clock - Retention /\ \A v \in Jobs : f \notin job[v].locks
<1>1. \A f \in Batch(space) : f \in Due(space) /\ ~Locked(f)
  BY DEF Batch
<1>2. \A f \in Due(space) :
          f \in DOMAIN rows /\ rows[f].orphaned # Never /\ rows[f].orphaned < clock - Retention
  BY DEF Due
<1>3. \A f \in Batch(space) : \A v \in Jobs : f \notin job[v].locks
  BY <1>1 DEF Locked
<1>4. Batch(space) \in SUBSET (1..created)
  BY <1>1, <1>2 DEF FilesInv, FilesType
<1> QED
  BY <1>1, <1>2, <1>3, <1>4

(* A prune run goes on with another record.                                   *)
LEMMA PruneGoes ==
    ASSUME FilesInv, NEW w \in Jobs, NEW j \in PruneJobs(created), job[w].op \in {"idle", "prune"},
           UNCHANGED <<scenario, clock, created, database, stray, overtaken>>, lost \subseteq lost',
           job' = [v \in Jobs |-> job'[v]], job'[w] = j, \A v \in Jobs \ {w} : job'[v] = job[v],
           \A v \in Jobs \ {w} : job[v].locks \cap j.locks = {},
           PruneSound(w)', \A f : Deletes(w, f) => f \in j.doomed,
           objects' \subseteq objects,
           \A f \in objects \ objects' : f \in j.doomed \cup lost' /\ f \in DOMAIN rows
    PROVE  FilesInv'
<1>1. j.op = "prune" /\ j \in JobRecords(created, clock)
  BY DEF PruneJobs, JobRecords
<1>2. StepTaken(w)
  BY <1>1 DEF StepTaken, history
<1>3. \A f : ~Owns(w, f)
  BY PruneRecord, EmptyHanded
<1>4. ObjectsMoved(w)
  BY <1>1, <1>3 DEF ObjectsMoved, NewFile, Deletes
<1>5. FilesKnown(w)
  BY <1>1 DEF FilesKnown, NewFile, Creates, Mentions, Uploads, Attachments
<1>6. JobSound(w)'
  BY <1>1 DEF JobSound, UploadSound, SeenSound, ResumeSound, EraseSound, AttachSound,
         CleanSound, Uploads, Attachments
<1> QED
  BY <1>1, <1>2, <1>4, <1>5, <1>6, JobStep

LEMMA StartPruneStep ==
    ASSUME FilesInv, NEW w \in Jobs, StartPrune(w)
    PROVE  FilesInv'
<1> DEFINE j == [op |-> "prune", phase |-> "media", locks |-> Batch("media"),
                 queue |-> Batch("media"), doomed |-> {}, kept |-> {}]
<1>1. /\ Becomes(w, j) /\ UNCHANGED <<scenario, clock, created, database, objects, history>>
      /\ job[w].op = "idle"
  BY DEF StartPrune, Later, bounds, Idle
<1>2. /\ job' = [v \in Jobs |-> job'[v]] /\ job'[w] = j
      /\ \A v \in Jobs \ {w} : job'[v] = job[v]
  BY <1>1, BecomesRecord
<1>3. j \in PruneJobs(created)
  BY BatchDue DEF PruneJobs
<1>4. /\ j.locks = Batch("media") /\ j.queue = Batch("media") /\ j.doomed = {} /\ j.kept = {}
      /\ j.op = "prune"
  OBVIOUS
<1> HIDE DEF j
<1>5. \A v \in Jobs \ {w} : job[v].locks \cap j.locks = {}
  BY <1>4, BatchDue
<1>6. PruneSound(w)'
  BY <1>1, <1>2, <1>4, BatchDue DEF PruneSound, database
<1>7. \A f : ~Deletes(w, f)
  BY <1>1, EmptyHanded
<1> QED
  BY <1>1, <1>2, <1>3, <1>5, <1>6, <1>7, PruneGoes DEF history

(* One candidate is settled.                                                  *)
LEMMA SettleStep ==
    ASSUME FilesInv, NEW w \in Jobs, NEW f \in NextOrphan(w), NEW doomed \in {{}, {f}},
           NEW kept \in {{}, {f}}, Settle(w, f, doomed, kept),
           UNCHANGED <<scenario, clock>>, lost' \in {lost, lost \cup {f}},
           objects' \in {objects, objects \ {f}}, doomed # {} => f \notin objects',
           objects' # objects => f \in doomed \cup lost',
           doomed # {} => ~Used(f), kept # {} => Used(f)
    PROVE  FilesInv'
<1>1. job[w].op = "prune" /\ f \in job[w].queue
  BY DEF NextOrphan
<1>2. /\ job[w] \in PruneJobs(created) /\ PruneSound(w) /\ f \in job[w].locks
      /\ job = [v \in Jobs |-> job[v]]
  BY <1>1, PruneRecord, JobShape DEF PruneSound
<1>3. /\ UNCHANGED <<scenario, clock, created, database, stray, overtaken>>
      /\ job' = [job EXCEPT ![w].queue = @ \ {f}, ![w].doomed = @ \cup doomed,
                            ![w].kept = @ \cup kept]
  BY DEF Settle
<1>4. /\ job'[w] \in PruneJobs(created)
      /\ job'[w].op = "prune" /\ job'[w].locks = job[w].locks
      /\ job'[w].queue = job[w].queue \ {f} /\ job'[w].doomed = job[w].doomed \cup doomed
      /\ job'[w].kept = job[w].kept \cup kept
      /\ job' = [v \in Jobs |-> job'[v]] /\ \A v \in Jobs \ {w} : job'[v] = job[v]
  <2>1. /\ job' = [v \in Jobs |-> job'[v]] /\ \A v \in Jobs \ {w} : job'[v] = job[v]
        /\ job'[w] = [job[w] EXCEPT !.queue = @ \ {f}, !.doomed = @ \cup doomed,
                                    !.kept = @ \cup kept]
    BY <1>2, <1>3
  <2>2. f \in 1..created
    BY <1>2 DEF PruneJobs
  <2> PICK j : j = job[w]
    OBVIOUS
  <2>3. j \in PruneJobs(created)
    BY <1>2
  <2>4. /\ j = [op |-> j.op, phase |-> j.phase, locks |-> j.locks, queue |-> j.queue,
               doomed |-> j.doomed, kept |-> j.kept]
        /\ j.op = "prune" /\ j.phase \in {"media", "resume_private"} /\ j.locks \subseteq 1..created
        /\ j.queue \subseteq 1..created /\ j.doomed \subseteq 1..created
        /\ j.kept \subseteq 1..created
    BY <2>3 DEF PruneJobs
  <2>5. job'[w] = [op |-> j.op, phase |-> j.phase, locks |-> j.locks, queue |-> j.queue \ {f},
                   doomed |-> j.doomed \cup doomed, kept |-> j.kept \cup kept]
    BY <2>1, <2>4
  <2>6. /\ j.queue \ {f} \subseteq 1..created /\ j.doomed \cup doomed \subseteq 1..created
        /\ j.kept \cup kept \subseteq 1..created
    BY <2>2, <2>4
  <2>7. job'[w] \in PruneJobs(created)
    BY <2>4, <2>5, <2>6 DEF PruneJobs
  <2>8. /\ job'[w].op = "prune" /\ job'[w].locks = job[w].locks
        /\ job'[w].queue = job[w].queue \ {f} /\ job'[w].doomed = job[w].doomed \cup doomed
        /\ job'[w].kept = job[w].kept \cup kept
    BY <2>4, <2>5
  <2> QED
    BY <2>1, <2>7, <2>8
<1>5. f \in DOMAIN rows /\ rows[f].orphaned # Never /\ f \in FileIds
  BY <1>1, <1>2, JobShape DEF PruneSound, FileIds, NoFile
<1>6. RowSound(f) /\ PhotoSound(f)
  BY <1>5 DEF FilesInv
<1>7. f \notin DOMAIN links
  BY <1>5, <1>6 DEF RowSound, MarkSound
<1>8. Used(f) <=> Shown(f)
  BY <1>7 DEF Used, UsedBy, Shown
<1>9. Shown(f) => rows[f].space = "resume_private"
  BY <1>5, <1>6 DEF PhotoSound, Recorded
<1>10. PruneSound(w)'
  <2>1. UNCHANGED <<rows, photo, overtaken, clock>>
    BY <1>3 DEF database
  <2>2. \A g \in job[w].doomed : g \notin objects /\ (Shown(g) => g \in overtaken)
    BY <1>1, <1>2 DEF PruneSound
  <2>3. \A g \in job'[w].doomed : g \notin objects' /\ (Shown(g)' => g \in overtaken')
    BY <1>4, <1>8, <2>1, <2>2 DEF Shown
  <2>4. \A g \in job'[w].kept :
            rows'[g].space = "resume_private" /\ (Shown(g)' \/ g \in overtaken')
    BY <1>1, <1>2, <1>4, <1>8, <1>9, <2>1 DEF PruneSound, Shown
  <2>5. job'[w].queue \cup job'[w].doomed \cup job'[w].kept \subseteq job'[w].locks
    BY <1>1, <1>2, <1>4 DEF PruneSound
  <2> QED
    BY <1>1, <1>2, <1>4, <2>1, <2>3, <2>4, <2>5 DEF PruneSound
<1>11. \A g : Deletes(w, g) => g \in job'[w].doomed
  BY <1>1, <1>4 DEF Deletes
<1>12. \A v \in Jobs \ {w} : job[v].locks \cap job'[w].locks = {}
  BY <1>4 DEF FilesInv, LocksApart
<1>13. objects' \subseteq objects
       /\ \A g \in objects \ objects' : g \in job'[w].doomed \cup lost' /\ g \in DOMAIN rows
  BY <1>4, <1>5
<1> QED
  BY <1>1, <1>3, <1>4, <1>10, <1>11, <1>12, <1>13, PruneGoes

LEMMA PruneCandidateStep ==
    ASSUME FilesInv, NEW w \in Jobs, PruneUsed(w) \/ PruneObject(w) \/ PruneFails(w)
    PROVE  FilesInv'
<1>1. CASE PruneUsed(w)
  BY <1>1, SettleStep DEF PruneUsed, Later, bounds
<1>2. CASE PruneObject(w)
  BY <1>2, SettleStep DEF PruneObject, Later, bounds
<1>3. CASE PruneFails(w)
  BY <1>3, SettleStep DEF PruneFails, Fault
<1> QED
  BY <1>1, <1>2, <1>3

LEMMA PrunePhotosStep ==
    ASSUME FilesInv, NEW w \in Jobs, PrunePhotos(w)
    PROVE  FilesInv'
<1>1. /\ job[w].op = "prune" /\ job[w].queue = {}
      /\ UNCHANGED <<scenario, clock, created, database, objects, history>>
      /\ job' = [job EXCEPT ![w].phase = "resume_private", ![w].queue = Batch("resume_private"),
                            ![w].locks = @ \cup Batch("resume_private")]
  BY DEF PrunePhotos, In, Later, bounds
<1>2. /\ job[w] \in PruneJobs(created) /\ PruneSound(w) /\ job = [v \in Jobs |-> job[v]]
  BY <1>1, PruneRecord, JobShape
<1>3. Batch("resume_private") \in SUBSET (1..created)
  BY BatchDue
<1>4. /\ job'[w] \in PruneJobs(created)
      /\ job'[w].op = "prune" /\ job'[w].locks = job[w].locks \cup Batch("resume_private")
      /\ job'[w].queue = Batch("resume_private") /\ job'[w].doomed = job[w].doomed
      /\ job'[w].kept = job[w].kept
      /\ job' = [v \in Jobs |-> job'[v]] /\ \A v \in Jobs \ {w} : job'[v] = job[v]
  BY <1>1, <1>2, <1>3 DEF PruneJobs
<1>5. UNCHANGED <<rows, photo, overtaken, clock>>
  BY <1>1 DEF database, history
<1>6. PruneSound(w)'
  <2>1. \A f \in job'[w].locks : f \in DOMAIN rows' /\ rows'[f].orphaned # Never
            /\ rows'[f].orphaned < clock' - Retention
    BY <1>1, <1>2, <1>4, <1>5, BatchDue DEF PruneSound
  <2> QED
    BY <1>1, <1>2, <1>4, <1>5, <2>1 DEF PruneSound, Shown
<1>7. \A f : Deletes(w, f) => f \in job'[w].doomed
  BY <1>1, <1>4 DEF Deletes
<1>8. \A v \in Jobs \ {w} : job[v].locks \cap job'[w].locks = {}
  BY <1>4, BatchDue DEF FilesInv, LocksApart
<1> QED
  BY <1>1, <1>4, <1>6, <1>7, <1>8, PruneGoes DEF history

LEMMA StartEraseStep ==
    ASSUME FilesInv, NEW w \in Jobs, StartErase(w)
    PROVE  FilesInv'
<1>1. PICK f \in DOMAIN rows :
          /\ rows[f].space = "media" /\ ~Locked(f) /\ ~Used(f) /\ objects' = objects \ {f}
          /\ Becomes(w, [op |-> "erase", phase |-> "commit", locks |-> {f}, file |-> f])
  BY DEF StartErase
<1> DEFINE j == [op |-> "erase", phase |-> "commit", locks |-> {f}, file |-> f]
<1>2. /\ job' = [v \in Jobs |-> job'[v]] /\ job'[w] = j
      /\ \A v \in Jobs \ {w} : job'[v] = job[v]
  BY <1>1, BecomesRecord
<1>3. /\ job[w].op = "idle"
      /\ UNCHANGED <<scenario, clock, created, database, history>>
  BY DEF StartErase, Request, Idle
<1>4. j \in JobRecords(created, clock) /\ j.op = "erase" /\ j.locks = {f} /\ j.file = f
  <2>1. f \in 1..created
    BY JobShape
  <2> QED
    BY <2>1 DEF JobRecords, EraseJobs
<1> HIDE DEF j
<1>5. StepTaken(w)
  BY <1>1, <1>2, <1>3, <1>4 DEF StepTaken, history, Locked
<1>6. ObjectsMoved(w)
  <2>1. \A g : ~Deletes(w, g) /\ ~Owns(w, g)
    BY <1>3, EmptyHanded
  <2>2. Deletes(w, f)'
    BY <1>2, <1>4 DEF Deletes
  <2> QED
    BY <1>1, <2>1, <2>2 DEF ObjectsMoved, NewFile
<1>7. FilesKnown(w)
  BY <1>2, <1>4 DEF FilesKnown, NewFile, Creates, Mentions, Uploads, Attachments
<1>8. JobSound(w)'
  BY <1>1, <1>2, <1>3, <1>4 DEF JobSound, UploadSound, SeenSound, ResumeSound, EraseSound, PruneSound,
         AttachSound, CleanSound, Uploads, Attachments, database
<1> QED
  BY <1>2, <1>4, <1>5, <1>6, <1>7, <1>8, JobStep

-----------------------------------------------------------------------------
(* Attachments *)

LEMMA FlushedStep ==
    ASSUME FilesInv, NEW w \in Jobs, NEW op \in Attachments, NEW item, NEW dropped,
           Flushed(w, op, item, dropped), UNCHANGED <<scenario, clock>>,
           \/ job[w].op = "idle"
           \/ job[w].op = "replace" /\ job[w].phase = "list",
           dropped = IF op = "replace" THEN PhotosOf(item) ELSE {},
           \A f \in dropped : ~Locked(f),
           op = "replace" => \A v \in Attaching(item) : job[v].op # "replace"
    PROVE  FilesInv'
<1> DEFINE j == [op |-> op, phase |-> "put", item |-> item, file |-> created',
                 dropped |-> dropped, locks |-> dropped \cup {created'}]
<1>1. /\ UNCHANGED <<scenario, clock, database, objects, history>> /\ Becomes(w, j)
      /\ created' = created + 1 /\ created \in Nat /\ item \in items /\ item \in Items
  BY JobShape DEF Flushed, Create, FilesInv, FilesType
<1>2. /\ job' = [v \in Jobs |-> job'[v]] /\ job'[w] = j
      /\ \A v \in Jobs \ {w} : job'[v] = job[v]
  BY <1>1, BecomesRecord
<1>3. dropped \in SUBSET (1..created) /\ 1..created \subseteq 1..created'
  BY <1>1, LinksKnown
<1>4. /\ j \in JobRecords(created', clock) /\ j.op = op /\ j.locks = dropped \cup {created'}
      /\ j.file = created' /\ j.phase = "put" /\ j.item = item /\ j.dropped = dropped
  <2>1. j \in AttachJobs(created')
    BY <1>1, <1>3 DEF AttachJobs
  <2> QED
    BY <2>1 DEF JobRecords
<1> HIDE DEF j
<1>5. created' \notin 1..created
  BY <1>1
<1>6. \A v \in Jobs \ {w} : job[v].locks \cap j.locks = {}
  BY <1>4, <1>5, JobShape DEF Locked
<1>7. StepTaken(w)
  BY <1>1, <1>2, <1>4, <1>6 DEF StepTaken, history
<1>8. ObjectsMoved(w)
  BY <1>1, EmptyHanded, StillObjects DEF Attachments, history
<1>9. FilesKnown(w)
  <2>1. ASSUME NEW g \in FileIds, NewFile(w, g)'
        PROVE  g = created + 1 /\ created' = g /\ g \notin objects'
    BY <1>1, <1>2, <1>4, <1>5, <2>1 DEF NewFile, FilesInv, FilesType
  <2> QED
    BY <1>2, <1>4, <2>1 DEF FilesKnown, Mentions, Uploads, Attachments
<1>10. JobSound(w)'
  <2>1. created' \notin DOMAIN rows
    BY <1>5, JobShape
  <2>2. PhotosOf(item)' = PhotosOf(item) /\ rows' = rows /\ items' = items
    BY <1>1 DEF PhotosOf, FilesOf, database
  <2>3. AttachSound(w)'
    BY <1>1, <1>2, <1>4, <2>1, <2>2 DEF AttachSound
  <2> QED
    BY <1>2, <1>4, <2>3 DEF JobSound, UploadSound, SeenSound, ResumeSound, EraseSound, PruneSound,
         CleanSound, Uploads, Attachments
<1>11. ASSUME op = "replace", NEW v \in Jobs \ {w}, job[v].op = "replace",
              job[v].phase # "list"
       PROVE  job[v].item # item
  <2>1. job[v] \in ListJobs(created) \cup AttachJobs(created)
    BY <1>11, JobShape, Shapes DEF Attachments
  <2>2. job[v].phase \in {"put", "commit"}
    BY <1>11, <2>1 DEF ListJobs, AttachJobs
  <2> QED
    BY <1>11, <2>2 DEF Attaching, Attachments
<1> QED
  BY <1>2, <1>4, <1>7, <1>8, <1>9, <1>10, <1>11, JobStep

LEMMA AttachStep ==
    ASSUME FilesInv, NEW w \in Jobs, Attach(w)
    PROVE  FilesInv'
<1>1. PICK item \in Items : Request(w, "attach") /\ Flushed(w, "attach", item, {})
  BY DEF Attach
<1>2. job[w].op = "idle" /\ UNCHANGED <<scenario, clock>>
  BY <1>1 DEF Request, Idle
<1> QED
  BY <1>1, <1>2, FlushedStep DEF Attachments

LEMMA ReplaceStep ==
    ASSUME FilesInv, NEW w \in Jobs, Replace(w)
    PROVE  FilesInv'
<1>1. /\ job[w].op = "replace" /\ job[w].phase = "list" /\ UNCHANGED <<scenario, clock>>
      /\ PhotosOf(job[w].item) = job[w].dropped /\ \A f \in job[w].dropped : ~Locked(f)
      /\ \A v \in Attaching(job[w].item) : job[v].op # "replace"
      /\ Flushed(w, "replace", job[w].item, job[w].dropped)
  BY DEF Replace, In, Later, bounds
<1> QED
  BY <1>1, FlushedStep DEF Attachments

-----------------------------------------------------------------------------
(* Steps that commit.  What the step of w may do, table by table.             *)

Held(w, f) == \E v \in Jobs \ {w} : f \in job[v].locks

CommitTaken(w) ==
    /\ UNCHANGED <<scenario, clock, created>> /\ lost \subseteq lost' /\ stray \subseteq stray'
    /\ job' = [v \in Jobs |-> job'[v]] /\ \A v \in Jobs \ {w} : job'[v] = job[v]
    /\ \/ job'[w] = Idle
       \/ /\ job'[w] \in CleanJobs(created)
          /\ job'[w].doomed \subseteq DOMAIN rows \ DOMAIN rows'

RowsCommitted(w) ==
    /\ \A f \in DOMAIN rows' \ DOMAIN rows : NewFile(w, f)
    /\ \A f \in DOMAIN rows \ DOMAIN rows' : ~Held(w, f)
    /\ \A f \in DOMAIN rows \cap DOMAIN rows' :
          /\ rows'[f].space = rows[f].space
          /\ Held(w, f) => rows'[f].orphaned = rows[f].orphaned
    /\ \A f \in DOMAIN rows' : rows'[f] \in Row(clock) /\ MarkSound(f)'

Recent(f) == Shown(f) \/ rows[f].orphaned = clock

PhotosCommitted(w) ==
    /\ photo' \in [Resumes -> {Absent, Gone} \cup 0..created]
    /\ overtaken \subseteq overtaken' /\ \A f \in overtaken' \ overtaken : f \in FileIds /\ Shown(f)
    /\ \A f \in FileIds :
          /\ Shown(f)' => \/ Shown(f) \/ f \in overtaken \/ f \in job[w].locks
                          \/ f \in DOMAIN rows /\ Recent(f)
          /\ Shown(f) /\ ~Shown(f)' => f \in overtaken' \/ ~Held(w, f)
          /\ PhotoSound(f)'
    /\ \A f \in DOMAIN rows \ overtaken' :
          rows[f].space = "resume_private" /\ Recent(f) => f \in DOMAIN rows' /\ Recent(f)'

LinksCommitted(w) ==
    /\ items' \subseteq items /\ DOMAIN links' \subseteq DOMAIN rows' /\ LinksApart'
    /\ \A f \in DOMAIN links' : links'[f] \in [item : Items, kind : Kinds]
    /\ \A v \in Jobs \ {w}, i \in Items :
          job[v].op \in Attachments /\ job[v].phase # "list" /\ job[v].item = i =>
              i \in items' /\ (job[v].op = "replace" => PhotosOf(i)' = PhotosOf(i))

ObjectsCommitted(w) ==
    /\ objects' \subseteq objects /\ \A f \in objects \ objects' : NewFile(w, f)
    /\ \A f \in DOMAIN rows : Deletes(w, f) => f \notin DOMAIN rows'
    /\ \A f \in DOMAIN rows' \ DOMAIN rows : f \in objects' \cup lost'
    /\ \A f \in objects' : f \in DOMAIN rows \/ Owns(w, f) =>
          f \in DOMAIN rows' \cup stray' \/ Owns(w, f)'

Committed(w) ==
    CommitTaken(w) /\ RowsCommitted(w) /\ PhotosCommitted(w) /\ LinksCommitted(w)
    /\ ObjectsCommitted(w)

LEMMA CommittedRecord ==
    ASSUME NEW w \in Jobs, CommitTaken(w)
    PROVE  /\ job'[w].op \in {"idle", "clean"} /\ job'[w].locks = {}
           /\ job'[w] \in JobRecords(created, clock)
  BY IdleRecord DEF CommitTaken, CleanJobs, JobRecords

(* What w creates, other jobs do not know.                                    *)
LEMMA CommitUnknown ==
    ASSUME FilesInv, NEW w \in Jobs, RowsCommitted(w), NEW f \in DOMAIN rows' \ DOMAIN rows
    PROVE  /\ f \in FileIds /\ \A v \in Jobs : ~Mentions(v, f)
           /\ ~Shown(f) /\ f \notin overtaken /\ ~Held(w, f)
           /\ \A v \in Jobs \ {w} : ~NewFile(v, f)
  BY NewAlone DEF RowsCommitted, NewSound, Held

(* A file another job creates stays its own.                                  *)
LEMMA CommitNewStays ==
    ASSUME FilesInv, NEW w \in Jobs, CommitTaken(w), RowsCommitted(w), NEW v \in Jobs, NEW f
    PROVE  /\ NewFile(v, f)' => v # w /\ NewFile(v, f)
           /\ v # w /\ NewFile(v, f) => NewFile(v, f)'
<1>1. ASSUME NewFile(v, f)'
      PROVE  v # w /\ NewFile(v, f)
  <2>1. v # w
    BY <1>1, CommittedRecord DEF NewFile, Creates, Uploads, Attachments
  <2>2. job'[v] = job[v]
    BY <2>1 DEF CommitTaken
  <2>3. Creates(v) /\ job[v].file = f /\ f \notin DOMAIN rows'
    BY <1>1, <2>2 DEF NewFile, Creates
  <2>4. f \in job[v].locks
    BY <2>3, CreatesLocked
  <2>5. f \notin DOMAIN rows
    BY <2>1, <2>3, <2>4 DEF RowsCommitted, Held
  <2> QED
    BY <2>1, <2>3, <2>5 DEF NewFile
<1>2. ASSUME v # w, NewFile(v, f)
      PROVE  NewFile(v, f)'
  <2>1. f \notin DOMAIN rows'
    BY <1>2, NewAlone DEF RowsCommitted
  <2> QED
    BY <1>2, <2>1 DEF NewFile, Creates, CommitTaken
<1> QED
  BY <1>1, <1>2

(* Every other job is as sound as before.                                     *)
LEMMA CommitJobs ==
    ASSUME FilesInv, NEW w \in Jobs, Committed(w), NEW v \in Jobs, v # w
    PROVE  JobSound(v)'
<1> USE DEF Committed
<1>1. job'[v] = job[v] /\ JobSound(v) /\ clock' = clock /\ clock \in Nat
  BY DEF CommitTaken, FilesInv, FilesType
<1>2. /\ \A f \in DOMAIN rows' \ DOMAIN rows : ~Mentions(v, f) /\ f \notin job[v].locks
      /\ \A f \in DOMAIN rows \cap DOMAIN rows' : rows'[f].space = rows[f].space
      /\ \A f \in DOMAIN rows : f \in job[v].locks =>
            f \in DOMAIN rows' /\ rows'[f].orphaned = rows[f].orphaned
  BY CommitUnknown DEF RowsCommitted, Held
<1>3. UploadSound(v)'
  <2>1. ASSUME job[v].op \in Uploads
        PROVE  /\ job[v].phase = "put" => job[v].file \notin DOMAIN rows'
               /\ job[v].file \in DOMAIN rows' => job[v].file \in DOMAIN rows
    <3>1. job[v] \in UploadJobs(created, clock) /\ UploadSound(v)
      BY <1>1, <2>1, UploadRecord DEF JobSound
    <3>2. job[v].phase # "find" => job[v].file \in job[v].locks
      BY <2>1, <3>1 DEF UploadSound
    <3>3. job[v].phase = "find" => Mentions(v, job[v].file)
      BY <2>1 DEF Mentions
    <3> QED
      BY <1>2, <2>1, <3>1, <3>2, <3>3 DEF UploadSound, UploadJobs
  <2> QED
    BY <1>1, <1>2, <2>1 DEF JobSound, UploadSound, Recorded
<1>4. SeenSound(v)'
  <2>1. ASSUME job[v].op \in {"photo", "save", "discard"}, job[v].seen # NoFile
        PROVE  /\ Recorded(job[v].seen, "resume_private")'
               /\ \/ job[v].seen \in overtaken'
                  \/ job[v].seen \in DOMAIN rows' /\ Recent(job[v].seen)'
    <3> DEFINE f == job[v].seen
    <3>0. f' = f
      BY <1>1
    <3>1. Mentions(v, f)
      BY <2>1 DEF Mentions, Uploads
    <3>2. /\ Recorded(f, "resume_private")
          /\ f \in overtaken \/ (f \in DOMAIN rows /\ Recent(f))
      BY <1>1, <2>1 DEF JobSound, SeenSound, Recent
    <3> HIDE DEF f
    <3>3. Recorded(f, "resume_private")'
      BY <1>2, <3>0, <3>1, <3>2 DEF Recorded
    <3>4. f \in overtaken' \/ (f \in DOMAIN rows' /\ Recent(f)')
      BY <3>2, <3>0 DEF PhotosCommitted, Recorded
    <3> QED
      BY <3>0, <3>3, <3>4 DEF f
  <2> QED
    BY <1>1, <2>1 DEF SeenSound, Recent
<1>5. ResumeSound(v)' /\ CleanSound(v)'
  BY <1>1, <1>2 DEF JobSound, ResumeSound, CleanSound, Mentions
<1>6. EraseSound(v)'
  BY <1>1, <1>2 DEF JobSound, EraseSound, ObjectsCommitted
<1>7. PruneSound(v)'
  <2>1. CASE job[v].op = "prune"
    <3>1. /\ PruneSound(v) /\ job[v] \in PruneJobs(created) /\ objects' \subseteq objects
          /\ overtaken \subseteq overtaken' /\ DOMAIN rows \subseteq 1..created
      BY <2>1, PruneRecord, JobShape DEF ObjectsCommitted, PhotosCommitted
    <3>2. \A f \in job[v].locks : f \in FileIds /\ f \in DOMAIN rows /\ f \in DOMAIN rows'
              /\ rows[f].orphaned < clock /\ Held(w, f)
      <4>1. \A f \in job[v].locks : f \in DOMAIN rows /\ rows[f].orphaned < clock - Retention
        BY <2>1, <3>1 DEF PruneSound
      <4>2. \A f \in DOMAIN rows : rows[f].orphaned \in Int /\ f \in FileIds
        BY <1>1 DEF FilesInv, FilesType, Row, Never, FileIds, NoFile
      <4>3. Retention \in Nat
        BY FilesAssumption
      <4> QED
        BY <1>1, <1>2, <4>1, <4>2, <4>3 DEF Held
    <3>3. ASSUME NEW f \in job[v].doomed
          PROVE  f \notin objects' /\ (Shown(f)' => f \in overtaken')
      <4>1. f \in job[v].locks /\ f \notin objects /\ (Shown(f) => f \in overtaken)
        BY <2>1, <3>1 DEF PruneSound
      <4>2. f \in FileIds /\ f \in DOMAIN rows /\ rows[f].orphaned < clock
        BY <3>2, <4>1
      <4>3. f \notin job[w].locks
        BY <4>1 DEF FilesInv, LocksApart
      <4>4. Recent(f) => Shown(f)
        <5>1. rows[f].orphaned \in Int
          BY <4>2 DEF FilesInv, FilesType, Row, Never
        <5> QED
          BY <1>1, <4>2, <5>1 DEF Recent
      <4> QED
        BY <3>1, <4>1, <4>2, <4>3, <4>4 DEF PhotosCommitted
    <3>4. ASSUME NEW f \in job[v].kept
          PROVE  rows'[f].space = "resume_private" /\ (Shown(f)' \/ f \in overtaken')
      <4>1. f \in job[v].locks /\ rows[f].space = "resume_private" /\ (Shown(f) \/ f \in overtaken)
        BY <2>1, <3>1 DEF PruneSound
      <4>2. f \in FileIds /\ f \in DOMAIN rows /\ f \in DOMAIN rows' /\ Held(w, f)
        BY <3>2, <4>1
      <4> QED
        BY <1>2, <3>1, <4>1, <4>2 DEF PhotosCommitted
    <3> QED
      BY <1>1, <1>2, <2>1, <3>1, <3>2, <3>3, <3>4 DEF PruneSound
  <2> QED
    BY <1>1, <2>1 DEF PruneSound
<1>8. AttachSound(v)'
  <2>1. ASSUME job[v].op \in Attachments, job[v].phase # "list", NEW i, i = job[v].item
        PROVE  /\ i \in items' /\ job[v].file \notin DOMAIN rows'
               /\ job[v].op = "replace" => PhotosOf(i)' = PhotosOf(i)
    <3>1. job[v].file \in job[v].locks /\ job[v].file \notin DOMAIN rows /\ i \in Items
      BY <1>1, <2>1 DEF JobSound, AttachSound, FilesInv, FilesType
    <3> QED
      BY <1>2, <2>1, <3>1 DEF LinksCommitted
  <2>2. job[v].op = "replace" /\ job[v].phase # "list" =>
            PhotosOf(job[v].item)' = PhotosOf(job[v].item)
    <3>1. (job[v].item)' = job[v].item
      BY <1>1
    <3> QED
      BY <2>1, <3>1 DEF PhotosOf, FilesOf, Attachments
  <2> QED
    BY <1>1, <2>1, <2>2 DEF JobSound, AttachSound
<1> QED
  BY <1>3, <1>4, <1>5, <1>6, <1>7, <1>8 DEF JobSound

LEMMA CommitStep ==
    ASSUME FilesInv, NEW w \in Jobs, Committed(w)
    PROVE  FilesInv'
<1> USE DEF Committed
<1>1. /\ job'[w].op \in {"idle", "clean"} /\ job'[w].locks = {}
      /\ job'[w] \in JobRecords(created, clock) /\ created' = created /\ clock' = clock
      /\ \A v \in Jobs \ {w} : job'[v] = job[v]
  BY CommittedRecord DEF CommitTaken
<1>2. FilesType'
  <2>1. DOMAIN rows' \cup objects' \cup overtaken' \subseteq 1..created
    <3>1. DOMAIN rows' \subseteq 1..created
      BY NewAlone, JobShape DEF RowsCommitted
    <3>2. objects' \subseteq 1..created
      BY DEF ObjectsCommitted, FilesInv, FilesType
    <3>3. \A f \in overtaken' \ overtaken : f \in 1..created
      <4>1. \A r \in Resumes : photo[r] \in {Absent, Gone} \cup 0..created
        BY DEF FilesInv, FilesType
      <4> QED
        BY <4>1, JobShape DEF PhotosCommitted, FileIds, Shown, Absent, Gone, NoFile
    <3> QED
      BY <3>1, <3>2, <3>3 DEF FilesInv, FilesType
  <2>2. job' \in [Jobs -> JobRecords(created, clock)]
    BY <1>1 DEF CommitTaken, FilesInv, FilesType
  <2> QED
    BY <1>1, <2>1, <2>2 DEF FilesInv, FilesType, CommitTaken, RowsCommitted, PhotosCommitted,
           LinksCommitted
<1>3. LocksApart'
  BY <1>1 DEF FilesInv, LocksApart
<1>4. LinksApart'
  BY DEF LinksCommitted
<1>5. ReplacesApart'
  BY <1>1 DEF FilesInv, ReplacesApart
<1>6. \A f \in DOMAIN rows' : RowSound(f)'
  <2>1. ASSUME NEW f \in DOMAIN rows'
        PROVE  f \in objects' \cup lost' \/ \E v \in Jobs : Deletes(v, f)'
    <3>1. CASE f \notin DOMAIN rows
      BY <3>1 DEF ObjectsCommitted
    <3>2. CASE f \in DOMAIN rows
      <4>1. CASE f \in objects \cup lost
        BY <3>2, <4>1 DEF ObjectsCommitted, CommitTaken, NewFile
      <4>2. CASE \E v \in Jobs : Deletes(v, f)
        <5>1. PICK v \in Jobs : Deletes(v, f)
          BY <4>2
        <5>2. v # w
          BY <3>2, <5>1 DEF ObjectsCommitted
        <5>3. Deletes(v, f)'
          BY <1>1, <5>1, <5>2 DEF Deletes
        <5> QED
          BY <5>3
      <4> QED
        BY <3>2, <4>1, <4>2 DEF FilesInv, RowSound
    <3> QED
      BY <3>1, <3>2
  <2> QED
    BY <2>1 DEF RowSound, RowsCommitted
<1>7. \A f \in FileIds : PhotoSound(f)'
  BY DEF PhotosCommitted
<1>8. \A f \in objects' : ObjectSound(f)'
  <2>1. ASSUME NEW f \in objects'
        PROVE  ObjectSound(f)'
    <3>1. CASE f \in DOMAIN rows \/ Owns(w, f)
      BY <2>1, <3>1 DEF ObjectsCommitted, ObjectSound
    <3>2. CASE f \in stray
      BY <3>2 DEF ObjectSound, CommitTaken
    <3>3. CASE \E v \in Jobs \ {w} : Owns(v, f)
      <4>1. PICK v \in Jobs \ {w} : Owns(v, f)
        BY <3>3
      <4>2. Owns(v, f)'
        BY <1>1, <4>1, CommitNewStays DEF Owns
      <4> QED
        BY <4>2 DEF ObjectSound
    <3> QED
      BY <2>1, <3>1, <3>2, <3>3 DEF FilesInv, ObjectSound, ObjectsCommitted
  <2> QED
    BY <2>1
<1>9. \A v \in Jobs : JobSound(v)'
  <2>1. JobSound(w)'
    <3>1. job'[w].op = "clean" => job'[w].doomed \cap DOMAIN rows' = {}
      BY IdleRecord DEF CommitTaken
    <3> QED
      BY <1>1, <3>1 DEF JobSound, UploadSound, SeenSound, ResumeSound, EraseSound, PruneSound,
             AttachSound, CleanSound, Uploads, Attachments
  <2> QED
    BY <2>1, CommitJobs
<1>10. \A v \in Jobs : \A f \in FileIds : NewFile(v, f)' => NewSound(v, f)'
  <2>1. ASSUME NEW v \in Jobs, NEW f \in FileIds, NewFile(v, f)'
        PROVE  NewSound(v, f)'
    <3>1. v # w /\ NewFile(v, f) /\ job'[v] = job[v]
      BY <1>1, <2>1, CommitNewStays
    <3>2. NewSound(v, f) /\ f \notin DOMAIN rows /\ f \notin job[w].locks /\ ~NewFile(w, f)
      BY <3>1, NewAlone
    <3>3. ~Shown(f)' /\ f \notin overtaken'
      BY <3>2 DEF PhotosCommitted, NewSound
    <3>4. f \in objects' <=> f \in objects
      BY <3>2 DEF ObjectsCommitted
    <3>5. ASSUME NEW u \in Jobs, Mentions(u, f)'
          PROVE  FALSE
      <4>1. CASE u # w
        BY <1>1, <3>2, <3>5, <4>1 DEF Mentions, NewSound
      <4>2. CASE u = w
        <5>1. job'[w].op = "clean" /\ f \in job'[w].doomed
          BY <1>1, <3>5, <4>2 DEF Mentions, Uploads
        <5>2. f \in DOMAIN rows
          BY <5>1, IdleRecord DEF CommitTaken
        <5> QED
          BY <3>2, <5>2
      <4> QED
        BY <4>1, <4>2
    <3> QED
      BY <3>1, <3>2, <3>3, <3>4, <3>5 DEF NewSound
  <2> QED
    BY <2>1
<1> QED
  BY <1>2, <1>3, <1>4, <1>5, <1>6, <1>7, <1>8, <1>9, <1>10 DEF FilesInv

-----------------------------------------------------------------------------
(* Rows after a commit *)

LEMMA SyncedRows ==
    ASSUME NEW R, NEW P, NEW attached, NEW detached, NEW n \in Nat, NEW now \in 0..n,
           \A f \in DOMAIN R : R[f] \in Row(n)
    PROVE  LET S == Synced(R, P, attached, detached, now)
           IN  /\ DOMAIN S = DOMAIN R
               /\ \A f \in DOMAIN R :
                     /\ S[f] \in Row(n) /\ S[f].space = R[f].space
                     /\ S[f].orphaned =
                            IF f \in detached /\ ~UsedBy(P, links, f) THEN now
                            ELSE IF f \in attached THEN Never ELSE R[f].orphaned
<1> DEFINE A == SetAttached(R, attached)
<1>1. DOMAIN A = DOMAIN R
  BY DEF SetAttached
<1>2. \A f \in DOMAIN R :
          /\ A[f] \in Row(n) /\ A[f].space = R[f].space
          /\ A[f].orphaned = IF f \in attached THEN Never ELSE R[f].orphaned
  <2>1. ASSUME NEW f \in DOMAIN R
        PROVE  A[f] = [R[f] EXCEPT !.orphaned = IF f \in attached THEN Never ELSE @]
    BY <2>1 DEF SetAttached
  <2> HIDE DEF A
  <2> QED
    BY <2>1 DEF Row
<1> HIDE DEF A
<1> DEFINE S == SetOrphanedIfUnused(A, P, detached, now)
<1>3. DOMAIN S = DOMAIN R
  BY <1>1 DEF SetOrphanedIfUnused
<1>4. \A f \in DOMAIN R :
          /\ S[f] \in Row(n) /\ S[f].space = A[f].space
          /\ S[f].orphaned = IF f \in detached /\ ~UsedBy(P, links, f) THEN now ELSE A[f].orphaned
  <2> SUFFICES ASSUME NEW f \in DOMAIN R
               PROVE  /\ S[f] \in Row(n) /\ S[f].space = A[f].space
                      /\ S[f].orphaned = IF f \in detached /\ ~UsedBy(P, links, f)
                                        THEN now ELSE A[f].orphaned
    OBVIOUS
  <2>1. S[f] = [A[f] EXCEPT !.orphaned =
                    IF f \in detached /\ ~UsedBy(P, links, f) THEN now ELSE @]
    BY <1>1 DEF SetOrphanedIfUnused
  <2> HIDE DEF S
  <2>2. A[f] \in Row(n)
    BY <1>2
  <2>3. CASE f \in detached /\ ~UsedBy(P, links, f)
    <3>1. S[f] = [A[f] EXCEPT !.orphaned = now]
      BY <2>1, <2>3
    <3> QED
      BY <2>2, <2>3, <3>1 DEF Row
  <2>4. CASE ~(f \in detached /\ ~UsedBy(P, links, f))
    <3>1. S[f] = [A[f] EXCEPT !.orphaned = @]
      BY <2>1, <2>4
    <3> QED
      BY <2>2, <2>4, <3>1 DEF Row
  <2> QED
    BY <2>3, <2>4
<1>5. S = Synced(R, P, attached, detached, now)
  BY DEF Synced, A
<1> HIDE DEF S
<1> QED
  BY <1>2, <1>3, <1>4, <1>5

(* Photos and the marks of their rows are not touched.                        *)
LEMMA PhotosRest ==
    ASSUME FilesInv, NEW w \in Jobs, photo' = photo, overtaken' = overtaken, clock' = clock,
           \A f \in DOMAIN rows' \ DOMAIN rows : NewFile(w, f),
           \A f \in DOMAIN rows \cap DOMAIN rows' : rows'[f].space = rows[f].space,
           \A f \in DOMAIN rows : rows[f].space = "resume_private" =>
               f \in DOMAIN rows' /\ rows'[f].orphaned = rows[f].orphaned
    PROVE  PhotosCommitted(w)
<1>1. photo' \in [Resumes -> {Absent, Gone} \cup 0..created]
  BY DEF FilesInv, FilesType
<1>2. \A f : Shown(f)' <=> Shown(f)
  BY DEF Shown
<1>3. ASSUME NEW f \in FileIds
      PROVE  PhotoSound(f)'
  <2>1. PhotoSound(f)
    BY DEF FilesInv
  <2>2. f \in DOMAIN rows' \ DOMAIN rows => ~Shown(f) /\ f \notin overtaken
    BY NewAlone DEF NewSound
  <2> QED
    BY <1>2, <2>1, <2>2 DEF PhotoSound, Recorded
<1>4. \A f \in DOMAIN rows \ overtaken' :
          rows[f].space = "resume_private" /\ Recent(f) => f \in DOMAIN rows' /\ Recent(f)'
  BY <1>2 DEF Recent
<1> QED
  BY <1>1, <1>2, <1>3, <1>4 DEF PhotosCommitted

(* Neither items nor links are touched.                                       *)
LEMMA LinksRest ==
    ASSUME FilesInv, NEW w \in Jobs, links' = links, items' = items,
           \A f \in DOMAIN rows : rows[f].space = "knowledge" => f \in DOMAIN rows'
    PROVE  LinksCommitted(w)
<1>1. DOMAIN links' \subseteq DOMAIN rows'
  BY DEF FilesInv, FilesType, RowSound, MarkSound
<1>2. LinksApart' /\ \A f \in DOMAIN links' : links'[f] \in [item : Items, kind : Kinds]
  BY DEF FilesInv, FilesType, LinksApart
<1>3. ASSUME NEW v \in Jobs, job[v].op \in Attachments, job[v].phase # "list"
      PROVE  job[v].item \in items'
  BY <1>3 DEF FilesInv, JobSound, AttachSound
<1>4. \A i : PhotosOf(i)' = PhotosOf(i)
  BY DEF PhotosOf, FilesOf
<1> QED
  BY <1>1, <1>2, <1>3, <1>4 DEF LinksCommitted

-----------------------------------------------------------------------------
(* Each commit *)

LEMMA EndsTaken ==
    ASSUME FilesInv, NEW w \in Jobs, Ends(w), UNCHANGED <<scenario, clock, created>>,
           lost \subseteq lost', stray \subseteq stray'
    PROVE  CommitTaken(w)
<1>1. /\ job' = [v \in Jobs |-> job'[v]] /\ job'[w] = Idle
      /\ \A v \in Jobs \ {w} : job'[v] = job[v]
  BY BecomesRecord DEF Ends
<1> QED
  BY <1>1 DEF CommitTaken

LEMMA CleansTaken ==
    ASSUME FilesInv, NEW w \in Jobs, NEW doomed, Cleans(w, doomed),
           doomed \subseteq DOMAIN rows \ DOMAIN rows',
           UNCHANGED <<scenario, clock, created, history>>
    PROVE  CommitTaken(w) /\ job'[w].op = "clean" /\ job'[w].doomed = doomed
<1> DEFINE j == [op |-> "clean", phase |-> "clean", locks |-> {}, doomed |-> doomed]
<1>1. /\ job' = [v \in Jobs |-> job'[v]] /\ job'[w] = j
      /\ \A v \in Jobs \ {w} : job'[v] = job[v]
  BY BecomesRecord DEF Cleans
<1>2. j \in CleanJobs(created) /\ j.op = "clean" /\ j.doomed = doomed
  BY JobShape DEF CleanJobs
<1> HIDE DEF j
<1> QED
  BY <1>1, <1>2 DEF CommitTaken, history

LEMMA MarkedRest ==
    ASSUME FilesInv, NEW f \in DOMAIN rows, f \in DOMAIN rows', photo' = photo,
           overtaken' = overtaken, f \in DOMAIN links' <=> f \in DOMAIN links,
           rows'[f].space = rows[f].space, rows'[f].orphaned = rows[f].orphaned
    PROVE  MarkSound(f)'
<1>1. MarkSound(f)
  BY DEF FilesInv, RowSound
<1> QED
  BY <1>1 DEF MarkSound, Shown

LEMMA RowTyped ==
    ASSUME FilesInv, NEW f \in DOMAIN rows
    PROVE  rows[f] \in Row(clock) /\ RowSound(f) /\ MarkSound(f) /\ f \in FileIds /\ f \in 1..created
  BY DEF FilesInv, FilesType, RowSound, FileIds, NoFile

LEMMA UploadCommits ==
    ASSUME FilesInv, NEW w \in Jobs, In(w, Uploads, "commit")
    PROVE  /\ job[w] \in UploadJobs(created, clock) /\ job[w].now = clock
           /\ job[w].locks = {job[w].file} /\ job[w].file \in FileIds
           /\ Recorded(job[w].file, Namespace(job[w].op))
           /\ job[w].file \notin DOMAIN rows =>
                 NewFile(w, job[w].file) /\ job[w].file \in objects
           /\ Uploaded(job[w]) \in Row(clock) /\ Uploaded(job[w]).space = Namespace(job[w].op)
           /\ Uploaded(job[w]).orphaned \in {Never, clock}
           /\ Uploaded(job[w]).orphaned = Never =>
                 job[w].file \in DOMAIN rows /\ rows[job[w].file].orphaned = Never
<1>1. /\ job[w] \in UploadJobs(created, clock) /\ job[w].op \in Uploads
      /\ job[w].phase = "commit" /\ created \in Nat /\ clock \in Nat
  BY UploadRecord, JobShape DEF In
<1>2. UploadSound(w)
  BY DEF FilesInv, JobSound
<1>3. job[w].locks = {job[w].file} /\ job[w].file \in FileIds /\ job[w].now = clock
      /\ Recorded(job[w].file, Namespace(job[w].op))
  BY <1>1, <1>2 DEF UploadSound, UploadJobs, FileIds
<1>4. job[w].file \notin DOMAIN rows => NewFile(w, job[w].file) /\ job[w].file \in objects
  <2>1. job[w].file \notin DOMAIN rows => NewFile(w, job[w].file)
    BY <1>1 DEF NewFile, Creates
  <2> QED
    BY <1>1, <2>1, NewAlone DEF NewSound
<1>5. Namespace(job[w].op) \in Spaces /\ job[w].content \in Contents
  BY <1>1 DEF Namespace, Uploads, Spaces, UploadJobs
<1>6. /\ Uploaded(job[w]).space = Namespace(job[w].op)
      /\ Uploaded(job[w]).orphaned \in {Never, clock}
      /\ Uploaded(job[w]).orphaned = Never =>
            job[w].file \in DOMAIN rows /\ rows[job[w].file].orphaned = Never
  BY <1>1, <1>3 DEF Uploaded, Never
<1>7. Uploaded(job[w]) \in Row(clock)
  BY <1>1, <1>3, <1>5 DEF Uploaded, Row, Never
<1> QED
  BY <1>1, <1>3, <1>4, <1>6, <1>7

LEMMA CommitMediaStep ==
    ASSUME FilesInv, NEW w \in Jobs, CommitMedia(w)
    PROVE  FilesInv'
<1>0. PICK f, row : f = job[w].file /\ row = Uploaded(job[w])
  OBVIOUS
<1>1. /\ In(w, Uploads, "commit") /\ job[w].op = "media" /\ Ends(w) /\ rows' = WithRow(rows, f, row)
      /\ UNCHANGED <<scenario, clock, created, objects, photo, items, links, history>>
  BY <1>0 DEF CommitMedia, In, Uploads, Later, bounds
<1>2. /\ job[w].locks = {f} /\ f \in FileIds /\ row \in Row(clock) /\ row.space = "media"
      /\ f \in DOMAIN rows => rows[f].space = "media"
      /\ f \notin DOMAIN rows => NewFile(w, f) /\ f \in objects
      /\ row.orphaned = Never => f \in DOMAIN rows /\ rows[f].orphaned = Never
  BY <1>0, <1>1, UploadCommits DEF Namespace, Recorded
<1>3. /\ DOMAIN rows' = DOMAIN rows \cup {f} /\ rows'[f] = row
      /\ \A g \in DOMAIN rows : g # f => rows'[g] = rows[g]
  BY <1>1 DEF WithRow
<1>4. ~Held(w, f)
  BY <1>2 DEF Held, FilesInv, LocksApart
<1>5. CommitTaken(w)
  BY <1>1, EndsTaken DEF history
<1>6. f \notin DOMAIN links
  BY <1>2, RowTyped DEF FilesInv, FilesType, MarkSound
<1>7. RowsCommitted(w)
  <2>1. MarkSound(f)'
    BY <1>1, <1>2, <1>3, <1>6, RowTyped DEF MarkSound
  <2>2. \A g \in DOMAIN rows : g # f => MarkSound(g)' /\ rows'[g] \in Row(clock)
    BY <1>1, <1>3, MarkedRest, RowTyped DEF history
  <2> QED
    BY <1>2, <1>3, <1>4, <2>1, <2>2 DEF RowsCommitted
<1>8. PhotosCommitted(w)
  BY <1>1, <1>2, <1>3, PhotosRest DEF history
<1>9. LinksCommitted(w)
  BY <1>1, <1>3, LinksRest
<1>10. ObjectsCommitted(w)
  BY <1>0, <1>1, <1>2, <1>3 DEF ObjectsCommitted, Deletes, Owns, NewFile
<1> QED
  BY <1>5, <1>7, <1>8, <1>9, <1>10, CommitStep DEF Committed

LEMMA CommitEraseStep ==
    ASSUME FilesInv, NEW w \in Jobs, CommitErase(w)
    PROVE  FilesInv'
<1>0. PICK f : f = job[w].file
  OBVIOUS
<1>1. /\ job[w].op = "erase" /\ Ends(w) /\ rows' = Without(rows, {f})
      /\ UNCHANGED <<scenario, clock, created, objects, photo, items, links, history>>
  BY <1>0 DEF CommitErase, In, Later, bounds
<1>2. /\ job[w].locks = {f} /\ f \in DOMAIN rows /\ rows[f].space = "media" /\ f \notin objects
  BY <1>0, <1>1 DEF FilesInv, JobSound, EraseSound
<1>3. /\ DOMAIN rows' = DOMAIN rows \ {f} /\ \A g \in DOMAIN rows' : rows'[g] = rows[g]
  BY <1>1 DEF Without
<1>4. ~Held(w, f)
  BY <1>2 DEF Held, FilesInv, LocksApart
<1>5. CommitTaken(w)
  BY <1>1, EndsTaken DEF history
<1>6. RowsCommitted(w)
  <2>1. \A g \in DOMAIN rows' : MarkSound(g)' /\ rows'[g] \in Row(clock)
    BY <1>1, <1>3, MarkedRest, RowTyped DEF history
  <2> QED
    BY <1>3, <1>4, <2>1 DEF RowsCommitted
<1>7. PhotosCommitted(w)
  BY <1>1, <1>2, <1>3, PhotosRest DEF history
<1>8. LinksCommitted(w)
  BY <1>1, <1>2, <1>3, LinksRest
<1>9. ObjectsCommitted(w)
  BY <1>0, <1>1, <1>2, <1>3 DEF ObjectsCommitted, Deletes, Owns, NewFile, Creates, Uploads, Attachments
<1> QED
  BY <1>5, <1>6, <1>7, <1>8, <1>9, CommitStep DEF Committed

(* What the deleted rows of a prune run belonged to.                          *)
LEMMA CommitPruneStep ==
    ASSUME FilesInv, NEW w \in Jobs, CommitPrune(w)
    PROVE  FilesInv'
<1> DEFINE S == Synced(rows, photo, job[w].kept, {}, clock)
<1>1. /\ job[w].op = "prune" /\ Ends(w) /\ rows' = Without(S, job[w].doomed)
      /\ UNCHANGED <<scenario, clock, created, objects, photo, items, links, history>>
  BY DEF CommitPrune, In, Later, bounds
<1>2. PruneSound(w) /\ \A f : ~Owns(w, f)
  BY <1>1, PruneRecord
<1>3. /\ DOMAIN S = DOMAIN rows
      /\ \A f \in DOMAIN rows :
            /\ S[f] \in Row(clock) /\ S[f].space = rows[f].space
            /\ S[f].orphaned = IF f \in job[w].kept THEN Never ELSE rows[f].orphaned
  <2>1. clock \in Nat /\ clock \in 0..clock /\ \A f \in DOMAIN rows : rows[f] \in Row(clock)
    BY DEF FilesInv, FilesType
  <2> QED
    BY <2>1, SyncedRows
<1> HIDE DEF S
<1>4. /\ DOMAIN rows' = DOMAIN rows \ job[w].doomed
      /\ \A f \in DOMAIN rows' :
            /\ f \in DOMAIN rows /\ rows'[f] \in Row(clock) /\ rows'[f].space = rows[f].space
            /\ rows'[f].orphaned = IF f \in job[w].kept THEN Never ELSE rows[f].orphaned
  BY <1>1, <1>3 DEF Without
<1>5. \A f \in job[w].doomed \cup job[w].kept :
          ~Held(w, f) /\ f \in DOMAIN rows /\ rows[f].orphaned # Never
          /\ rows[f].orphaned < clock - Retention
  BY <1>1, <1>2 DEF PruneSound, Held, FilesInv, LocksApart
<1>6. CommitTaken(w)
  BY <1>1, EndsTaken DEF history
<1>7. \A f \in DOMAIN rows' : MarkSound(f)'
  <2>1. ASSUME NEW f \in DOMAIN rows'
        PROVE  MarkSound(f)'
    <3>1. CASE f \in job[w].kept
      <4>1. rows[f].space = "resume_private" /\ (Shown(f) \/ f \in overtaken)
        BY <1>1, <1>2, <3>1 DEF PruneSound
      <4>2. f \notin DOMAIN links
        BY <1>4, <4>1, RowTyped DEF MarkSound
      <4> QED
        BY <1>1, <1>4, <4>1, <4>2 DEF MarkSound, Shown, history
    <3>2. CASE f \notin job[w].kept
      BY <1>1, <1>4, <3>2, MarkedRest DEF history
    <3> QED
      BY <3>1, <3>2
  <2> QED
    BY <2>1
<1>8. RowsCommitted(w)
  BY <1>4, <1>5, <1>7 DEF RowsCommitted
<1>9. PhotosCommitted(w)
  <2>1. photo' = photo /\ overtaken' = overtaken /\ \A f : Shown(f)' <=> Shown(f)
    BY <1>1 DEF Shown, history
  <2>2. ASSUME NEW f \in FileIds
        PROVE  PhotoSound(f)'
    <3>1. PhotoSound(f)
      BY DEF FilesInv
    <3>2. f \in job[w].doomed /\ Shown(f) => f \in overtaken
      BY <1>1, <1>2 DEF PruneSound
    <3> QED
      BY <1>4, <2>1, <3>1, <3>2 DEF PhotoSound, Recorded
  <2>3. ASSUME NEW f \in DOMAIN rows \ overtaken', rows[f].space = "resume_private", Recent(f)
        PROVE  f \in DOMAIN rows' /\ Recent(f)'
    <3>1. Shown(f) \/ ~(rows[f].orphaned < clock - Retention)
      <4>1. clock \in Nat /\ Retention \in Nat
        BY FilesAssumption DEF FilesInv, FilesType
      <4> QED
        BY <2>3, <4>1 DEF Recent
    <3>2. f \in DOMAIN rows'
      BY <1>1, <1>2, <1>4, <1>5, <2>1, <2>3, <3>1 DEF PruneSound
    <3>3. f \in job[w].kept => Shown(f)
      BY <1>1, <1>2, <2>1, <2>3 DEF PruneSound
    <3> QED
      BY <1>1, <1>4, <2>1, <2>3, <3>2, <3>3 DEF Recent
  <2> QED
    BY <2>1, <2>2, <2>3 DEF PhotosCommitted, FilesInv, FilesType
<1>10. LinksCommitted(w)
  <2>1. \A f \in DOMAIN rows : rows[f].space = "knowledge" => f \notin job[w].doomed
    BY <1>5, RowTyped DEF MarkSound
  <2> QED
    BY <1>1, <1>4, <2>1, LinksRest
<1>11. ObjectsCommitted(w)
  BY <1>1, <1>2, <1>4 DEF ObjectsCommitted, Deletes, PruneSound
<1> QED
  BY <1>6, <1>8, <1>9, <1>10, <1>11, CommitStep DEF Committed

-----------------------------------------------------------------------------
(* A resume is written: from the rows R, with the photo in value              *)

ResumeWritten(w, r, seen, value, R, attached) ==
    /\ r \in Resumes /\ Present(r) /\ value \in {Gone} \cup 0..created
    /\ photo' = [photo EXCEPT ![r] = value]
    /\ overtaken' = overtaken \cup ({photo[r]} \ {NoFile, seen, value})
    /\ DOMAIN rows \subseteq DOMAIN R /\ \A f \in DOMAIN R : R[f] \in Row(clock)
    /\ seen \in 0..created
    /\ seen # NoFile =>
          /\ Recorded(seen, "resume_private")
          /\ seen \in overtaken \/ (seen \in DOMAIN rows /\ Recent(seen))
    /\ \A f \in {seen} \ {NoFile, value} : ~Locked(f)
    /\ \/ /\ attached = {value} /\ value \in FileIds /\ job[w].locks = {value}
          /\ DOMAIN R = DOMAIN rows \cup {value} /\ R[value].space = "resume_private"
          /\ \A f \in DOMAIN rows : f # value => R[f] = rows[f]
          /\ value \in DOMAIN rows => rows[value].space = "resume_private"
          /\ value \notin DOMAIN rows => NewFile(w, value)
       \/ attached = {} /\ R = rows /\ value \in {Gone, NoFile, seen}
    /\ rows' = Synced(R, photo', attached, {seen} \ {NoFile, value}, clock)
    /\ UNCHANGED <<clock, created, items, links>>

LEMMA WrittenShown ==
    ASSUME FilesInv, NEW w, NEW r, NEW seen, NEW value, NEW R, NEW attached,
           ResumeWritten(w, r, seen, value, R, attached), NEW f
    PROVE  /\ Shown(f)' => Shown(f) \/ f = value
           /\ f = value => Shown(f)'
           /\ Shown(f) /\ ~Shown(f)' => f = photo[r] /\ f # value
           /\ UsedBy(photo', links, f) <=> f \in DOMAIN links \/ Shown(f)'
           /\ Shown(f) /\ ~Shown(f)' /\ f # NoFile =>
                 f \in overtaken' \/ f \in {seen} \ {NoFile, value}
<1>1. photo \in [Resumes -> {Absent, Gone} \cup 0..created]
  BY DEF FilesInv, FilesType
<1>2. photo'[r] = value /\ \A s \in Resumes : s # r => photo'[s] = photo[s]
  BY <1>1 DEF ResumeWritten
<1>3. /\ r \in Resumes
      /\ overtaken' = overtaken \cup ({photo[r]} \ {NoFile, seen, value})
  BY DEF ResumeWritten
<1> QED
  BY <1>2, <1>3 DEF Shown, UsedBy

LEMMA WrittenRows ==
    ASSUME FilesInv, NEW w, NEW r, NEW seen, NEW value, NEW R, NEW attached,
           ResumeWritten(w, r, seen, value, R, attached)
    PROVE  /\ DOMAIN rows' = DOMAIN R
           /\ \A f \in DOMAIN R :
                 /\ rows'[f] \in Row(clock) /\ rows'[f].space = R[f].space
                 /\ rows'[f].orphaned =
                        IF f \in {seen} \ {NoFile, value} /\ f \notin DOMAIN links /\ ~Shown(f)'
                        THEN clock ELSE IF f \in attached THEN Never ELSE R[f].orphaned
<1> DEFINE detached == {seen} \ {NoFile, value}
           S == Synced(R, photo', attached, detached, clock)
<1>1. clock \in Nat /\ clock \in 0..clock /\ rows' = S
  BY DEF FilesInv, FilesType, ResumeWritten
<1>2. /\ DOMAIN S = DOMAIN R
      /\ \A f \in DOMAIN R :
            /\ S[f] \in Row(clock) /\ S[f].space = R[f].space
            /\ S[f].orphaned = IF f \in detached /\ ~UsedBy(photo', links, f) THEN clock
                               ELSE IF f \in attached THEN Never ELSE R[f].orphaned
  <2>1. \A f \in DOMAIN R : R[f] \in Row(clock)
    BY DEF ResumeWritten
  <2> HIDE DEF detached
  <2> QED
    BY <1>1, <2>1, SyncedRows
<1> HIDE DEF S
<1> QED
  BY <1>1, <1>2, WrittenShown

LEMMA ResumeRows ==
    ASSUME FilesInv, NEW w \in Jobs, NEW r, NEW seen, NEW value, NEW R, NEW attached,
           ResumeWritten(w, r, seen, value, R, attached)
    PROVE  RowsCommitted(w)
<1>1. /\ DOMAIN rows' = DOMAIN R
      /\ \A f \in DOMAIN R :
            /\ rows'[f] \in Row(clock) /\ rows'[f].space = R[f].space
            /\ rows'[f].orphaned =
                   IF f \in {seen} \ {NoFile, value} /\ f \notin DOMAIN links /\ ~Shown(f)'
                   THEN clock ELSE IF f \in attached THEN Never ELSE R[f].orphaned
  BY WrittenRows
<1>2. /\ DOMAIN rows \subseteq DOMAIN R /\ links' = links
      /\ \A f \in DOMAIN rows : R[f].space = rows[f].space
      /\ \A f \in DOMAIN R \ attached : f \in DOMAIN rows /\ R[f] = rows[f]
      /\ \A f \in attached : f = value /\ f \in DOMAIN R /\ R[f].space = "resume_private"
                             /\ f \in job[w].locks
      /\ DOMAIN R \ DOMAIN rows \subseteq attached
      /\ \A f \in DOMAIN R \ DOMAIN rows : NewFile(w, f)
  BY DEF ResumeWritten
<1>3. \A f : Held(w, f) => f \notin attached /\ f \notin {seen} \ {NoFile, value}
  BY <1>2 DEF Held, FilesInv, LocksApart, ResumeWritten, Locked
<1>4. ASSUME NEW f \in DOMAIN R
      PROVE  MarkSound(f)'
  <2>1. f \in attached => f \notin DOMAIN links /\ Shown(f)' /\ rows'[f].space = "resume_private"
    <3>1. f \in DOMAIN links => f \in DOMAIN rows /\ rows[f].space = "knowledge"
      BY RowTyped DEF FilesInv, FilesType, MarkSound
    <3> QED
      BY <1>1, <1>2, <3>1, WrittenShown
  <2>2. CASE f \in attached
    BY <1>2, <2>1, <2>2 DEF MarkSound
  <2>3. CASE f \notin attached
    <3>1. f \in DOMAIN rows /\ R[f] = rows[f] /\ MarkSound(f) /\ f \in FileIds /\ rows'[f].space = rows[f].space
      BY <1>1, <1>2, <2>3, RowTyped
    <3>2. CASE f \in {seen} \ {NoFile, value} /\ f \notin DOMAIN links /\ ~Shown(f)'
      <4>1. rows'[f].orphaned = clock /\ clock # Never /\ f \notin DOMAIN links
        BY <1>1, <3>2, JobShape DEF Never
      <4> QED
        BY <1>2, <3>1, <4>1 DEF MarkSound
    <3>3. CASE ~(f \in {seen} \ {NoFile, value} /\ f \notin DOMAIN links /\ ~Shown(f)')
      <4>1. rows'[f].orphaned = rows[f].orphaned
        BY <1>1, <2>3, <3>1, <3>3
      <4>2. overtaken \subseteq overtaken' /\ f # NoFile
        BY <3>1 DEF ResumeWritten, FileIds
      <4>3. Shown(f) \/ f \in overtaken => Shown(f)' \/ f \in overtaken' \/ f \in DOMAIN links
        BY <3>3, <4>2, WrittenShown
      <4> QED
        BY <1>2, <3>1, <4>1, <4>3 DEF MarkSound
    <3> QED
      BY <3>2, <3>3
  <2> QED
    BY <2>2, <2>3
<1>5. \A f \in DOMAIN rows : Held(w, f) => rows'[f].orphaned = rows[f].orphaned
  BY <1>1, <1>2, <1>3
<1> QED
  BY <1>1, <1>2, <1>4, <1>5 DEF RowsCommitted

LEMMA ResumePhotos ==
    ASSUME FilesInv, NEW w \in Jobs, NEW r, NEW seen, NEW value, NEW R, NEW attached,
           ResumeWritten(w, r, seen, value, R, attached)
    PROVE  PhotosCommitted(w)
<1>1. /\ DOMAIN rows' = DOMAIN R
      /\ \A f \in DOMAIN R :
            /\ rows'[f].space = R[f].space
            /\ rows'[f].orphaned =
                   IF f \in {seen} \ {NoFile, value} /\ f \notin DOMAIN links /\ ~Shown(f)'
                   THEN clock ELSE IF f \in attached THEN Never ELSE R[f].orphaned
  BY WrittenRows
<1>2. /\ DOMAIN rows \subseteq DOMAIN R /\ clock' = clock /\ overtaken \subseteq overtaken'
      /\ \A f \in DOMAIN rows : R[f].space = rows[f].space
      /\ \A f \in DOMAIN R \ attached : f \in DOMAIN rows /\ R[f] = rows[f]
      /\ \A f \in attached : f = value /\ f \in DOMAIN R /\ R[f].space = "resume_private"
                             /\ f \in job[w].locks
      /\ value \in FileIds => value \in attached \/ (attached = {} /\ value = seen)
  BY DEF ResumeWritten, FileIds, Gone
<1>3. photo \in [Resumes -> {Absent, Gone} \cup 0..created] /\ created \in Nat
  BY DEF FilesInv, FilesType
<1>4. photo' \in [Resumes -> {Absent, Gone} \cup 0..created]
  BY <1>3 DEF ResumeWritten
<1>5. \A f \in overtaken' \ overtaken : f \in FileIds /\ Shown(f)
  <2>1. photo[r] \in 0..created /\ r \in Resumes
    BY <1>3 DEF ResumeWritten, Present, NoFile, Absent, Gone
  <2> QED
    BY <1>3, <2>1 DEF ResumeWritten, Shown, FileIds
<1>6. \A f \in FileIds : Shown(f) /\ ~Shown(f)' => f \in overtaken' \/ f \in {seen} \ {NoFile, value}
  BY WrittenShown DEF FileIds
<1>7. seen # NoFile => Recorded(seen, "resume_private")
                       /\ (seen \in overtaken \/ (seen \in DOMAIN rows /\ Recent(seen)))
  BY DEF ResumeWritten
<1>8. \A f \in {seen} \ {NoFile, value} : ~Held(w, f)
  BY DEF ResumeWritten, Locked, Held
<1>9. ASSUME NEW f \in FileIds, Shown(f)'
      PROVE  Shown(f) \/ f \in overtaken \/ f \in attached \/ (f \in DOMAIN rows /\ Recent(f))
  BY <1>2, <1>7, <1>9, WrittenShown DEF FileIds
<1>10. ASSUME NEW f \in FileIds
       PROVE  PhotoSound(f)'
  <2>1. PhotoSound(f)
    BY DEF FilesInv
  <2>2. Shown(f)' \/ f \in overtaken' => Recorded(f, "resume_private")'
    <3>1. f \in attached => Recorded(f, "resume_private")'
      BY <1>1, <1>2 DEF Recorded
    <3>2. f \in DOMAIN rows' /\ f \notin attached => rows'[f].space = rows[f].space /\ f \in DOMAIN rows
      BY <1>1, <1>2
    <3>3. Shown(f)' => Shown(f) \/ f \in attached \/ f = seen
      BY <1>2, WrittenShown
    <3>4. f = seen => Recorded(f, "resume_private")
      BY <1>7 DEF FileIds
    <3> QED
      BY <1>5, <2>1, <3>1, <3>2, <3>3, <3>4 DEF PhotoSound, Recorded
  <2>3. Shown(f)' => f \in DOMAIN rows' \cup overtaken'
    BY <1>1, <1>2, <1>9, <2>1 DEF PhotoSound
  <2> QED
    BY <2>2, <2>3 DEF PhotoSound
<1>11. ASSUME NEW f \in DOMAIN rows \ overtaken', rows[f].space = "resume_private", Recent(f)
       PROVE  f \in DOMAIN rows' /\ Recent(f)'
  <2>1. f \in FileIds /\ f \notin DOMAIN links /\ f \in DOMAIN R
    BY <1>2, <1>11, RowTyped DEF MarkSound
  <2>2. CASE Shown(f)'
    BY <1>1, <2>1, <2>2 DEF Recent
  <2>3. CASE ~Shown(f)'
    <3>1. f \notin attached
      BY <1>2, <2>3, WrittenShown
    <3>2. Shown(f) => f \in {seen} \ {NoFile, value}
      BY <1>6, <1>11, <2>1, <2>3
    <3> QED
      BY <1>1, <1>2, <1>11, <2>1, <2>3, <3>1, <3>2 DEF Recent
  <2> QED
    BY <2>2, <2>3
<1>12. ASSUME NEW f \in FileIds
       PROVE  /\ Shown(f)' => \/ Shown(f) \/ f \in overtaken \/ f \in job[w].locks
                              \/ f \in DOMAIN rows /\ Recent(f)
              /\ Shown(f) /\ ~Shown(f)' => f \in overtaken' \/ ~Held(w, f)
              /\ PhotoSound(f)'
  BY <1>2, <1>6, <1>8, <1>9, <1>10
<1> QED
  BY <1>2, <1>4, <1>5, <1>11, <1>12 DEF PhotosCommitted

LEMMA ResumeCommits ==
    ASSUME FilesInv, NEW w \in Jobs, NEW r, NEW seen, NEW value, NEW R, NEW attached,
           ResumeWritten(w, r, seen, value, R, attached), CommitTaken(w), ObjectsCommitted(w)
    PROVE  FilesInv'
<1>1. DOMAIN rows' = DOMAIN R
  BY WrittenRows
<1>2. LinksCommitted(w)
  BY <1>1, LinksRest DEF ResumeWritten
<1> QED
  BY <1>2, ResumeRows, ResumePhotos, CommitStep DEF Committed

LEMMA CommitPhotoStep ==
    ASSUME FilesInv, NEW w \in Jobs, CommitPhoto(w)
    PROVE  FilesInv'
<1>0. PICK f, row, seen, r : /\ f = job[w].file /\ row = Uploaded(job[w]) /\ seen = job[w].seen
                             /\ r = job[w].target[1]
  OBVIOUS
<1> DEFINE R == WithRow(rows, f, row)
<1>1. /\ In(w, Uploads, "commit") /\ job[w].op = "photo" /\ Ends(w)
      /\ UNCHANGED <<scenario, clock, created, objects, items, links, lost, stray>>
  BY DEF CommitPhoto, In, Uploads, Later, bounds
<1>2. /\ job[w].locks = {f} /\ f \in FileIds /\ row \in Row(clock) /\ row.space = "resume_private"
      /\ f \in DOMAIN rows => rows[f].space = "resume_private"
      /\ f \notin DOMAIN rows => NewFile(w, f) /\ f \in objects
      /\ job[w].now = clock /\ job[w] \in UploadJobs(created, clock)
  BY <1>0, <1>1, UploadCommits DEF Namespace, Recorded
<1>3. /\ DOMAIN R = DOMAIN rows \cup {f} /\ R[f] = row
      /\ \A g \in DOMAIN rows : g # f => R[g] = rows[g]
  BY DEF WithRow
<1>4. rows' = Synced(R, photo', {f}, {seen} \ {NoFile, f}, clock)
  BY <1>0, <1>2 DEF CommitPhoto
<1> HIDE DEF R
<1>5. /\ \A g \in {seen} \ {NoFile, f} : ~Locked(g)
      /\ Present(r) /\ photo' = [photo EXCEPT ![r] = f]
      /\ overtaken' = overtaken \cup ({photo[r]} \ {NoFile, seen, f})
  BY <1>0 DEF CommitPhoto, WriteResume
<1>6. r \in Resumes
  BY <1>0, <1>1 DEF FilesInv, JobSound, UploadSound, Uploads
<1>7. f \in 0..created /\ seen \in 0..created
  BY <1>0, <1>2, JobShape DEF UploadJobs
<1>8. seen # NoFile =>
          /\ Recorded(seen, "resume_private")
          /\ seen \in overtaken \/ (seen \in DOMAIN rows /\ Recent(seen))
  BY <1>0, <1>1 DEF FilesInv, JobSound, SeenSound, Recent
<1>9. \A g \in DOMAIN R : R[g] \in Row(clock)
  BY <1>2, <1>3, RowTyped
<1>10. ResumeWritten(w, r, seen, f, R, {f})
  BY <1>1, <1>2, <1>3, <1>4, <1>5, <1>6, <1>7, <1>8, <1>9 DEF ResumeWritten
<1>11. CommitTaken(w)
  BY <1>1, EndsTaken
<1>12. ObjectsCommitted(w)
  <2>1. DOMAIN rows' = DOMAIN R
    BY <1>10, WrittenRows
  <2> QED
    BY <1>0, <1>1, <1>2, <1>3, <2>1 DEF ObjectsCommitted, Deletes, Owns, NewFile
<1> QED
  BY <1>10, <1>11, <1>12, ResumeCommits

LEMMA CommitResumeStep ==
    ASSUME FilesInv, NEW w \in Jobs, CommitResume(w)
    PROVE  FilesInv'
<1>0. PICK value, seen, r : /\ value = job[w].value /\ seen = job[w].seen
                            /\ r = job[w].target[1]
  OBVIOUS
<1>1. /\ job[w].op \in {"save", "discard"} /\ Ends(w)
      /\ UNCHANGED <<scenario, clock, created, objects, items, links, lost, stray>>
  BY DEF CommitResume, In, Later, bounds
<1>2. job[w] \in ResumeJobs(created, clock)
  BY <1>1, JobShape, Shapes
<1>3. /\ job[w].now = clock /\ seen \in 0..created /\ value \in {Gone} \cup 0..created
      /\ r \in Resumes /\ value \in {Gone, NoFile, seen}
  BY <1>0, <1>1, <1>2 DEF ResumeJobs, FilesInv, JobSound, ResumeSound
<1>4. rows' = Synced(rows, photo', {}, {seen} \ {NoFile, value}, clock)
  BY <1>0, <1>3 DEF CommitResume
<1>5. /\ \A g \in {seen} \ {NoFile, value} : ~Locked(g)
      /\ Present(r) /\ photo' = [photo EXCEPT ![r] = value]
      /\ overtaken' = overtaken \cup ({photo[r]} \ {NoFile, seen, value})
  BY <1>0 DEF CommitResume, WriteResume
<1>6. seen # NoFile =>
          /\ Recorded(seen, "resume_private")
          /\ seen \in overtaken \/ (seen \in DOMAIN rows /\ Recent(seen))
  BY <1>0, <1>1 DEF FilesInv, JobSound, SeenSound, Recent
<1>7. \A g \in DOMAIN rows : rows[g] \in Row(clock)
  BY RowTyped
<1>8. ResumeWritten(w, r, seen, value, rows, {})
  BY <1>1, <1>3, <1>4, <1>5, <1>6, <1>7 DEF ResumeWritten
<1>9. CommitTaken(w)
  BY <1>1, EndsTaken
<1>10. ObjectsCommitted(w)
  <2>1. DOMAIN rows' = DOMAIN rows
    BY <1>8, WrittenRows
  <2> QED
    BY <1>1, <2>1, EmptyHanded DEF ObjectsCommitted
<1> QED
  BY <1>8, <1>9, <1>10, ResumeCommits

-----------------------------------------------------------------------------
(* Files of items: links and rows come and go together.                       *)

LEMMA LinkTyped ==
    ASSUME FilesInv, NEW f \in DOMAIN links
    PROVE  /\ f \in DOMAIN rows /\ rows[f].space = "knowledge" /\ f \in FileIds /\ f \in 1..created
           /\ links[f] \in [item : Items, kind : Kinds] /\ links[f].item \in items
  BY RowTyped DEF FilesInv, FilesType, MarkSound, LinksApart

(* What an attachment that is being made holds.                               *)
LEMMA Attaches ==
    ASSUME FilesInv, NEW w \in Jobs, job[w].op \in Attachments, job[w].phase # "list"
    PROVE  /\ job[w].item \in items /\ job[w].item \in Items /\ job[w].file \notin DOMAIN rows
           /\ job[w].locks = job[w].dropped \cup {job[w].file}
           /\ job[w].dropped = IF job[w].op = "replace" THEN PhotosOf(job[w].item) ELSE {}
           /\ NewFile(w, job[w].file) /\ w \in Attaching(job[w].item)
           /\ job[w].phase = "commit" => job[w].file \in objects
<1>1. job[w] \in AttachJobs(created)
  BY JobShape, Shapes DEF ListJobs
<1>2. AttachSound(w) /\ items \subseteq Items
  BY DEF FilesInv, JobSound, FilesType
<1>3. NewFile(w, job[w].file)
  BY <1>1, <1>2 DEF AttachSound, NewFile, Creates, AttachJobs
<1>4. w \in Attaching(job[w].item)
  BY <1>1 DEF Attaching, AttachJobs
<1>5. job[w].phase = "commit" => job[w].file \in objects
  BY <1>3, NewAlone DEF NewSound
<1> QED
  BY <1>2, <1>3, <1>4, <1>5 DEF AttachSound

LEMMA StoredCommitted ==
    ASSUME FilesInv, NEW w \in Jobs, In(w, Attachments, "commit"), Stored(job[w]),
           photo' = photo, overtaken' = overtaken, items' = items, clock' = clock
    PROVE  /\ RowsCommitted(w) /\ PhotosCommitted(w) /\ LinksCommitted(w)
           /\ DOMAIN rows' = (DOMAIN rows \ job[w].dropped) \cup {job[w].file}
<1>0. PICK f, item, dropped, row, link :
          /\ f = job[w].file /\ item = job[w].item /\ dropped = job[w].dropped
          /\ row = [space |-> "knowledge", content |-> "private", orphaned |-> Never]
          /\ link = [item |-> item, kind |-> IF job[w].op = "replace" THEN "photo" ELSE "file"]
  OBVIOUS
<1>1. /\ job[w].op \in Attachments /\ job[w].phase # "list"
      /\ rows' = WithRow(Without(rows, dropped), f, row)
      /\ links' = WithRow(Without(links, dropped), f, link)
  BY <1>0 DEF In, Stored
<1>2. /\ item \in items /\ item \in Items /\ f \notin DOMAIN rows
      /\ job[w].locks = dropped \cup {f} /\ NewFile(w, f)
      /\ dropped = IF job[w].op = "replace" THEN PhotosOf(item) ELSE {}
  BY <1>0, <1>1, Attaches
<1>3. /\ row \in Row(clock) /\ row.space = "knowledge" /\ row.orphaned = Never
      /\ link \in [item : Items, kind : Kinds] /\ link.item = item
      /\ link.kind = IF job[w].op = "replace" THEN "photo" ELSE "file"
  BY <1>0, <1>2 DEF Row, Spaces, Kinds
<1>4. /\ DOMAIN rows' = (DOMAIN rows \ dropped) \cup {f} /\ rows'[f] = row
      /\ \A g \in DOMAIN rows' : g # f => g \in DOMAIN rows /\ rows'[g] = rows[g]
  BY <1>1 DEF WithRow, Without
<1>5. /\ DOMAIN links' = (DOMAIN links \ dropped) \cup {f} /\ links'[f] = link
      /\ \A g \in DOMAIN links' : g # f => g \in DOMAIN links /\ links'[g] = links[g]
  BY <1>1 DEF WithRow, Without
<1>6. /\ dropped \subseteq DOMAIN links /\ f \notin DOMAIN links
      /\ \A g \in dropped : links[g].item = item
  BY <1>2, LinkTyped DEF PhotosOf, FilesOf
<1>7. RowsCommitted(w)
  <2>1. \A g \in dropped \cup {f} : ~Held(w, g)
    BY <1>2 DEF Held, FilesInv, LocksApart
  <2>2. MarkSound(f)'
    <3>1. ASSUME NEW g, g = f
          PROVE  MarkSound(g)'
      BY <1>3, <1>4, <1>5, <3>1 DEF MarkSound
    <3> QED
      BY <1>3, <1>4, <1>5 DEF MarkSound
  <2>3. ASSUME NEW g \in DOMAIN rows', g # f
        PROVE  rows'[g] \in Row(clock) /\ MarkSound(g)'
    BY <1>4, <1>5, <2>3, RowTyped, MarkedRest
  <2> QED
    BY <1>2, <1>3, <1>4, <2>1, <2>2, <2>3 DEF RowsCommitted
<1>8. PhotosCommitted(w)
  <2>1. \A g \in DOMAIN rows : rows[g].space = "resume_private" => g \notin dropped /\ g # f
    BY <1>2, <1>6, LinkTyped
  <2> QED
    BY <1>2, <1>4, <2>1, PhotosRest
<1>9. LinksCommitted(w)
  <2>1. DOMAIN links' \subseteq DOMAIN rows'
    BY <1>4, <1>5, LinkTyped
  <2>2. \A g \in DOMAIN links' :
            links'[g] \in [item : Items, kind : Kinds] /\ links'[g].item \in items
    BY <1>2, <1>3, <1>5, LinkTyped
  <2>3. ASSUME NEW g \in DOMAIN links', g # f, links'[g].item = item
        PROVE  "file" \in {links'[f].kind, links'[g].kind}
    <3>1. g \in DOMAIN links \ dropped /\ links'[g] = links[g] /\ links[g].item = item
      BY <1>5, <2>3
    <3>2. job[w].op = "replace" => links[g].kind # "photo"
      BY <1>2, <3>1 DEF PhotosOf, FilesOf
    <3>3. links[g].kind \in {"photo", "file"}
      BY <3>1, LinkTyped DEF Kinds
    <3> QED
      BY <1>3, <1>5, <3>1, <3>2, <3>3
  <2>4. ASSUME NEW g \in DOMAIN links', NEW h \in DOMAIN links', g # h, g # f, h # f,
               links'[g].item = links'[h].item
        PROVE  "file" \in {links'[g].kind, links'[h].kind}
    BY <1>5, <2>4 DEF FilesInv, LinksApart
  <2>5. LinksApart'
    <3>1. \A g, h \in DOMAIN links' :
              (g # h /\ links'[g].item = links'[h].item)
              => "file" \in {links'[g].kind, links'[h].kind}
      <4> SUFFICES ASSUME NEW g \in DOMAIN links', NEW h \in DOMAIN links', g # h,
                          links'[g].item = links'[h].item
                   PROVE  "file" \in {links'[g].kind, links'[h].kind}
        OBVIOUS
      <4>1. CASE g = f
        BY <1>3, <1>5, <2>3, <4>1
      <4>2. CASE h = f
        BY <1>3, <1>5, <2>3, <4>2
      <4>3. CASE g # f /\ h # f
        BY <2>4, <4>3
      <4> QED
        BY <4>1, <4>2, <4>3
    <3> QED
      BY <2>2, <3>1 DEF LinksApart
  <2>6. ASSUME NEW v \in Jobs \ {w}, NEW i \in Items, job[v].op \in Attachments,
               job[v].phase # "list", job[v].item = i
        PROVE  i \in items' /\ (job[v].op = "replace" => PhotosOf(i)' = PhotosOf(i))
    <3>1. i \in items'
      BY <2>6, Attaches
    <3>2. job[v].op = "replace" /\ i = item => job[w].op # "replace"
      BY <1>0, <1>1, <2>6 DEF FilesInv, ReplacesApart
    <3>3. CASE i # item
      <4>1. \A g : (g \in DOMAIN links' /\ links'[g].item = i)
                   <=> (g \in DOMAIN links /\ links[g].item = i)
        BY <1>3, <1>5, <1>6, <3>3
      <4>2. \A g \in DOMAIN links' : links'[g].item = i => links'[g] = links[g]
        BY <1>3, <1>5, <3>3
      <4> QED
        BY <3>1, <4>1, <4>2 DEF PhotosOf, FilesOf
    <3>4. CASE i = item /\ job[w].op # "replace"
      BY <1>2, <1>3, <1>5, <1>6, <3>4 DEF PhotosOf, FilesOf
    <3> QED
      BY <3>1, <3>2, <3>3, <3>4
  <2> QED
    BY <2>1, <2>2, <2>5, <2>6 DEF LinksCommitted
<1> QED
  BY <1>0, <1>4, <1>7, <1>8, <1>9

LEMMA CommitAttachStep ==
    ASSUME FilesInv, NEW w \in Jobs, CommitAttach(w)
    PROVE  FilesInv'
<1>0. PICK f, dropped : f = job[w].file /\ dropped = job[w].dropped
  OBVIOUS
<1>1. /\ In(w, Attachments, "commit") /\ job[w].op \in Attachments /\ job[w].phase # "list"
      /\ Stored(job[w]) /\ Cleans(w, dropped)
      /\ UNCHANGED <<scenario, clock, created, objects, photo, items, history>>
  BY <1>0 DEF CommitAttach, In, Later, bounds
<1>2. /\ RowsCommitted(w) /\ PhotosCommitted(w) /\ LinksCommitted(w)
      /\ DOMAIN rows' = (DOMAIN rows \ dropped) \cup {f}
  BY <1>0, <1>1, StoredCommitted DEF history
<1>3. f \notin DOMAIN rows /\ f \in objects /\ dropped \subseteq DOMAIN rows
  <2>1. dropped = IF job[w].op = "replace" THEN PhotosOf(job[w].item) ELSE {}
    BY <1>0, <1>1, Attaches
  <2>2. dropped \subseteq DOMAIN rows
    BY <2>1, LinkTyped DEF PhotosOf, FilesOf
  <2> QED
    BY <1>0, <1>1, <2>2, Attaches DEF In
<1>4. CommitTaken(w) /\ job'[w].op = "clean" /\ job'[w].doomed = dropped
  <2>1. dropped \subseteq DOMAIN rows \ DOMAIN rows'
    BY <1>2, <1>3
  <2> QED
    BY <1>1, <2>1, CleansTaken
<1>5. ObjectsCommitted(w)
  BY <1>0, <1>1, <1>2, <1>3, <1>4
     DEF ObjectsCommitted, Deletes, Owns, NewFile, Attachments
<1> QED
  BY <1>2, <1>4, <1>5, CommitStep DEF Committed

LEMMA CommitUnansweredStep ==
    ASSUME FilesInv, NEW w \in Jobs, CommitUnanswered(w)
    PROVE  FilesInv'
<1>0. PICK f, dropped : f = job[w].file /\ dropped = job[w].dropped
  OBVIOUS
<1>1. /\ In(w, Attachments, "commit") /\ job[w].op \in Attachments /\ job[w].phase # "list"
      /\ Stored(job[w]) /\ Ends(w) /\ objects' = objects \ {f}
      /\ lost' = lost \cup {f} /\ stray' = stray \cup dropped
      /\ UNCHANGED <<scenario, clock, created, photo, items, overtaken>>
  BY <1>0 DEF CommitUnanswered, In, Fault
<1>2. /\ RowsCommitted(w) /\ PhotosCommitted(w) /\ LinksCommitted(w)
      /\ DOMAIN rows' = (DOMAIN rows \ dropped) \cup {f}
  BY <1>0, <1>1, StoredCommitted
<1>3. CommitTaken(w)
  BY <1>1, EndsTaken
<1>4. NewFile(w, f)
  BY <1>0, <1>1, Attaches
<1>5. ObjectsCommitted(w)
  BY <1>0, <1>1, <1>2, <1>4 DEF ObjectsCommitted, Deletes, Owns, NewFile, Attachments
<1> QED
  BY <1>2, <1>3, <1>5, CommitStep DEF Committed

(* Links go with their rows, and their objects are to be cleaned.             *)
LEMMA UnlinkStep ==
    ASSUME FilesInv, NEW w \in Jobs, NEW F \in SUBSET DOMAIN links,
           job[w].op \in {"idle", "remove"}, \A f \in F : ~Locked(f),
           rows' = Without(rows, F), links' = Without(links, F), Cleans(w, F),
           items' \subseteq items,
           \A f \in DOMAIN links \ F : links[f].item \in items',
           \A v \in Jobs \ {w} : job[v].op \in Attachments /\ job[v].phase # "list" =>
               job[v].item \in items',
           UNCHANGED <<scenario, clock, created, objects, photo, history>>
    PROVE  FilesInv'
<1>1. /\ DOMAIN rows' = DOMAIN rows \ F /\ \A g \in DOMAIN rows' : rows'[g] = rows[g]
      /\ DOMAIN links' = DOMAIN links \ F /\ \A g \in DOMAIN links' : links'[g] = links[g]
  BY DEF Without
<1>2. \A f \in F : f \in DOMAIN rows /\ rows[f].space = "knowledge" /\ ~Held(w, f)
  BY LinkTyped DEF Locked, Held
<1>3. CommitTaken(w) /\ job'[w].op = "clean" /\ job'[w].doomed = F
  <2>1. F \subseteq DOMAIN rows \ DOMAIN rows'
    BY <1>1, <1>2
  <2> QED
    BY <2>1, CleansTaken
<1>4. RowsCommitted(w)
  <2>1. \A g \in DOMAIN rows' : rows'[g] \in Row(clock) /\ MarkSound(g)'
    BY <1>1, RowTyped, MarkedRest DEF history
  <2> QED
    BY <1>1, <1>2, <2>1 DEF RowsCommitted
<1>5. PhotosCommitted(w)
  BY <1>1, <1>2, PhotosRest DEF history
<1>6. LinksCommitted(w)
  <2>1. DOMAIN links' \subseteq DOMAIN rows'
    BY <1>1, LinkTyped
  <2>2. LinksApart' /\ \A g \in DOMAIN links' : links'[g] \in [item : Items, kind : Kinds]
    BY <1>1 DEF FilesInv, FilesType, LinksApart
  <2>3. ASSUME NEW v \in Jobs \ {w}, NEW i \in Items, job[v].op = "replace",
               job[v].phase # "list", job[v].item = i
        PROVE  PhotosOf(i)' = PhotosOf(i)
    <3>1. PhotosOf(i) \subseteq job[v].locks
      BY <2>3, Attaches DEF Attachments
    <3>2. \A f \in PhotosOf(i) : f \notin F
      BY <3>1 DEF Locked
    <3> QED
      BY <1>1, <3>2 DEF PhotosOf, FilesOf
  <2> QED
    BY <2>1, <2>2, <2>3 DEF LinksCommitted
<1>7. ObjectsCommitted(w)
  <2>1. \A f : ~Deletes(w, f) /\ ~Owns(w, f)
    BY EmptyHanded
  <2>2. \A f \in F : Owns(w, f)'
    BY <1>3 DEF Owns
  <2> QED
    BY <1>1, <2>1, <2>2 DEF ObjectsCommitted
<1> QED
  BY <1>3, <1>4, <1>5, <1>6, <1>7, CommitStep DEF Committed

LEMMA DetachStep ==
    ASSUME FilesInv, NEW w \in Jobs, Detach(w)
    PROVE  FilesInv'
<1>1. PICK f \in DOMAIN links : Unlink(w, f)
  BY DEF Detach, DeleteAttachment, DeletePersonPhoto, PhotosOf, FilesOf
<1>2. /\ job[w].op = "idle" /\ {f} \in SUBSET DOMAIN links
      /\ UNCHANGED <<scenario, clock>> /\ UNCHANGED <<created, objects, photo, items, history>>
  BY <1>1 DEF Unlink, Request, Idle
<1>3. \A g \in DOMAIN links : links[g].item \in items
  BY LinkTyped
<1>4. \A v \in Jobs : job[v].op \in Attachments /\ job[v].phase # "list" => job[v].item \in items'
  BY <1>2, Attaches
<1>5. /\ \A g \in {f} : ~Locked(g)
      /\ rows' = Without(rows, {f}) /\ links' = Without(links, {f}) /\ Cleans(w, {f})
  BY <1>1 DEF Unlink
<1> QED
  BY <1>2, <1>3, <1>4, <1>5, UnlinkStep

LEMMA CommitRemoveStep ==
    ASSUME FilesInv, NEW w \in Jobs, CommitRemove(w)
    PROVE  FilesInv'
<1>0. PICK item, F : item = job[w].item /\ F = job[w].dropped
  OBVIOUS
<1>1. /\ job[w].op = "remove" /\ FilesOf(item) = F /\ \A f \in F : ~Locked(f)
      /\ Attaching(item) = {} /\ items' = items \ {item}
      /\ links' = Without(links, F) /\ rows' = Without(rows, F) /\ Cleans(w, F)
      /\ UNCHANGED <<scenario, clock>> /\ UNCHANGED <<created, objects, photo, history>>
  BY <1>0 DEF CommitRemove, In, Later, bounds
<1>2. F \in SUBSET DOMAIN links /\ \A f \in DOMAIN links \ F : links[f].item # item
  BY <1>1 DEF FilesOf
<1>3. \A f \in DOMAIN links \ F : links[f].item \in items'
  BY <1>1, <1>2, LinkTyped
<1>4. \A v \in Jobs : job[v].op \in Attachments /\ job[v].phase # "list" => job[v].item \in items'
  BY <1>1, Attaches
<1> QED
  BY <1>1, <1>2, <1>3, <1>4, UnlinkStep

-----------------------------------------------------------------------------
(* Steps of the rest of the workspace *)

(* Neither jobs, rows nor objects change: items and resumes may come.         *)
LEMMA StillStep ==
    ASSUME FilesInv, UNCHANGED <<scenario, clock, created, rows, objects, links, job, history>>,
           items \subseteq items', items' \subseteq Items,
           photo' \in [Resumes -> {Absent, Gone} \cup 0..created],
           \A f \in FileIds : Shown(f)' <=> Shown(f)
    PROVE  FilesInv'
<1>1. /\ scenario' = scenario /\ clock' = clock /\ created' = created /\ rows' = rows
      /\ objects' = objects /\ links' = links /\ job' = job /\ lost' = lost /\ stray' = stray
      /\ overtaken' = overtaken
  BY DEF history
<1>2. FilesType'
  BY <1>1 DEF FilesInv, FilesType
<1>3. LocksApart' /\ LinksApart' /\ ReplacesApart'
  BY <1>1 DEF FilesInv, LocksApart, LinksApart, ReplacesApart
<1>4. ASSUME NEW f \in DOMAIN rows'
      PROVE  RowSound(f)'
  <2>1. RowSound(f) /\ f \in FileIds
    BY <1>1, <1>4, RowTyped
  <2>2. \A v : Deletes(v, f)' <=> Deletes(v, f)
    BY <1>1 DEF Deletes
  <2> QED
    BY <1>1, <2>1, <2>2 DEF RowSound, MarkSound
<1>5. ASSUME NEW f \in FileIds
      PROVE  PhotoSound(f)'
  BY <1>1, <1>5 DEF FilesInv, PhotoSound, Recorded
<1>6. \A w, f : NewFile(w, f)' <=> NewFile(w, f)
  BY <1>1 DEF NewFile, Creates
<1>7. ASSUME NEW f \in objects'
      PROVE  ObjectSound(f)'
  BY <1>1, <1>6, <1>7 DEF FilesInv, ObjectSound, Owns
<1>8. ASSUME NEW w \in Jobs
      PROVE  JobSound(w)'
  <2>1. JobSound(w)
    BY DEF FilesInv
  <2>2. UploadSound(w)' /\ ResumeSound(w)' /\ EraseSound(w)' /\ CleanSound(w)'
    BY <1>1, <2>1 DEF JobSound, UploadSound, ResumeSound, EraseSound, CleanSound, Recorded
  <2>3. SeenSound(w)'
    <3>1. job[w].seen \in DOMAIN rows => job[w].seen \in FileIds
      BY RowTyped
    <3> QED
      BY <1>1, <2>1, <3>1 DEF JobSound, SeenSound, Recorded
  <2>4. PruneSound(w)'
    <3>1. job[w].op = "prune" => \A f \in job[w].locks : f \in FileIds
      BY <2>1, RowTyped DEF JobSound, PruneSound
    <3> QED
      BY <1>1, <2>1, <3>1 DEF JobSound, PruneSound
  <2>5. AttachSound(w)'
    BY <1>1, <2>1 DEF JobSound, AttachSound, PhotosOf, FilesOf
  <2> QED
    BY <2>2, <2>3, <2>4, <2>5 DEF JobSound
<1>9. ASSUME NEW w \in Jobs, NEW f \in FileIds, NewFile(w, f)'
      PROVE  NewSound(w, f)'
  <2>1. NewSound(w, f)
    BY <1>6, <1>9 DEF FilesInv
  <2> QED
    BY <1>1, <1>9, <2>1 DEF NewSound, Mentions
<1> QED
  BY <1>2, <1>3, <1>4, <1>5, <1>7, <1>8, <1>9 DEF FilesInv

LEMMA CreateResumeStep ==
    ASSUME FilesInv, NEW r \in Resumes, CreateResume(r)
    PROVE  FilesInv'
<1>1. photo \in [Resumes -> {Absent, Gone} \cup 0..created] /\ created \in Nat /\ items \subseteq Items
  BY DEF FilesInv, FilesType
<1>2. photo[r] = Absent /\ photo' = [photo EXCEPT ![r] = NoFile] /\ items' = items
  BY DEF CreateResume
<1>3. photo' \in [Resumes -> {Absent, Gone} \cup 0..created]
  BY <1>1, <1>2 DEF NoFile
<1>4. photo'[r] = NoFile /\ \A s \in Resumes : s # r => photo'[s] = photo[s]
  BY <1>1, <1>2
<1>5. \A f \in FileIds : Shown(f)' <=> Shown(f)
  BY <1>2, <1>4 DEF Shown, FileIds, Absent
<1> QED
  BY <1>1, <1>2, <1>3, <1>5, StillStep DEF CreateResume, bounds

(* Time passes, or not, and no file or item is touched.                       *)
LEMMA RestStep ==
    ASSUME FilesInv, UNCHANGED <<scenario, clock, database, created, objects, job, history>>
    PROVE  FilesInv'
<1>1. rows' = rows /\ photo' = photo /\ items' = items /\ links' = links
  BY DEF database
<1>2. \A f : Shown(f)' <=> Shown(f)
  BY <1>1 DEF Shown
<1>3. photo' \in [Resumes -> {Absent, Gone} \cup 0..created] /\ items \subseteq Items
  BY <1>1 DEF FilesInv, FilesType
<1> QED
  BY <1>1, <1>2, <1>3, StillStep

LEMMA TickStep ==
    ASSUME FilesInv, Tick
    PROVE  FilesInv'
<1>1. /\ clock' = clock + 1 /\ \A w \in Jobs : job[w] = Idle
      /\ scenario' = scenario /\ created' = created /\ rows' = rows /\ photo' = photo
      /\ items' = items /\ links' = links /\ objects' = objects /\ job' = job
      /\ lost' = lost /\ stray' = stray /\ overtaken' = overtaken
  BY DEF Tick, bounds, database, history
<1>2. clock \in Nat /\ clock' \in Nat /\ 0..clock \subseteq 0..clock'
  BY <1>1 DEF FilesInv, FilesType
<1>3. FilesType'
  <2>1. \A f \in DOMAIN rows : rows[f] \in Row(clock')
    BY <1>2, RowTyped DEF Row
  <2>2. job' \in [Jobs -> JobRecords(created', clock')]
    <3>1. \A w \in Jobs : job[w] \in JobRecords(created', clock')
      BY <1>1, IdleRecord
    <3> QED
      BY <1>1, <3>1 DEF FilesInv, FilesType
  <2> QED
    BY <1>1, <1>2, <2>1, <2>2 DEF FilesInv, FilesType
<1>4. \A w \in Jobs : job[w].op = "idle" /\ job'[w].op = "idle" /\ job'[w].locks = {}
  BY <1>1, IdleRecord
<1>5. LocksApart' /\ LinksApart' /\ ReplacesApart'
  BY <1>1, <1>4 DEF FilesInv, LocksApart, LinksApart, ReplacesApart
<1>6. ASSUME NEW w \in Jobs
      PROVE  JobSound(w)' /\ \A f : ~NewFile(w, f) /\ ~NewFile(w, f)' /\ ~Deletes(w, f) /\ ~Owns(w, f)
  BY <1>4, EmptyHanded DEF JobSound, UploadSound, SeenSound, ResumeSound, EraseSound, PruneSound,
         AttachSound, CleanSound, NewFile, Creates, Uploads, Attachments
<1>7. ASSUME NEW f \in DOMAIN rows'
      PROVE  RowSound(f)'
  BY <1>1, <1>6, <1>7 DEF FilesInv, RowSound, MarkSound, Shown
<1>8. ASSUME NEW f \in FileIds
      PROVE  PhotoSound(f)'
  BY <1>1, <1>8 DEF FilesInv, PhotoSound, Recorded, Shown
<1>9. ASSUME NEW f \in objects'
      PROVE  ObjectSound(f)'
  BY <1>1, <1>6, <1>9 DEF FilesInv, ObjectSound
<1> QED
  BY <1>3, <1>5, <1>6, <1>7, <1>8, <1>9 DEF FilesInv

-----------------------------------------------------------------------------
(* The steps of the workspace *)

LEMMA ReadsStep ==
    ASSUME FilesInv, NEW w \in Jobs, NEW op, Reads(w, op)
    PROVE  FilesInv'
<1>1. [op |-> "other", phase |-> "commit", locks |-> {}] \in OtherJobs
  BY DEF OtherJobs
<1> QED
  BY <1>1, BareBegins DEF Reads, Files, database

LEMMA WritesStep ==
    ASSUME FilesInv, NEW w \in Jobs, NEW op, Writes(w, op), items' = items
    PROVE  FilesInv'
  BY OtherEndsStep DEF Writes, In, Later, bounds, Files, database

LEMMA ContinuesStep ==
    ASSUME FilesInv, NEW w \in Jobs, NEW op, NEW page, Continues(w, op, page)
    PROVE  FilesInv'
  BY RestStep DEF Continues, Later, bounds, Files, database

LEMMA NewItemStep ==
    ASSUME FilesInv, NEW w \in Jobs, NEW kind \in SUBSET Items, NewItem(w, kind)
    PROVE  FilesInv'
<1>1. items \subseteq items' /\ items' \subseteq Items
  BY DEF NewItem, FilesInv, FilesType
<1>2. photo' = photo /\ \A f : Shown(f)' <=> Shown(f)
  BY DEF NewItem, Files, Shown
<1>3. photo' \in [Resumes -> {Absent, Gone} \cup 0..created]
  BY <1>2 DEF FilesInv, FilesType
<1> QED
  BY <1>1, <1>2, <1>3, StillStep DEF NewItem, Files, Request

LEMMA StartsStep ==
    ASSUME FilesInv, NEW w \in Jobs, Starts(w)
    PROVE  FilesInv'
  BY StartMediaStep, StartPhotoStep, StartEraseStep, SaveResumeStep, DiscardResumeStep DEF Starts

LEMMA WorksStep ==
    ASSUME FilesInv, NEW w \in Jobs, Works(w)
    PROVE  FilesInv'
  BY RollBackStep, AwaitDuplicateStep, FindDuplicateStep, FindNothingStep, PutObjectStep,
     CommitMediaStep, CommitPhotoStep, CommitEraseStep, CommitResumeStep, PruneCandidateStep,
     PrunePhotosStep, CommitPruneStep, ReplaceStep, CleanStep DEF Works

LEMMA BreaksStep ==
    ASSUME FilesInv, NEW w \in Jobs, Breaks(w)
    PROVE  FilesInv'
  BY PruneCandidateStep, PutUnansweredStep, CrashStep DEF Breaks

LEMMA KnowledgeStartsStep ==
    ASSUME FilesInv, NEW w \in Jobs, KnowledgeStarts(w)
    PROVE  FilesInv'
<1>1. CASE \E op : Reads(w, op)
  BY <1>1, ReadsStep
<1>2. CASE CreatePerson(w) \/ CreateDate(w)
  BY <1>2, NewItemStep, KnowledgeAssumption DEF CreatePerson, CreateDate
<1>3. CASE DeletePerson(w) \/ DeleteDate(w)
  BY <1>3, StartRemoveStep DEF DeletePerson, DeleteDate, StartDelete
<1>4. CASE CreateType(w)
  BY <1>4, RestStep DEF CreateType, Request, Files, database
<1>5. \/ StartPerson(w) \/ StartDate(w) \/ StartPeople(w) \/ StartReferences(w)
      \/ StartDates(w) \/ StartShow(w) \/ StartTag(w) \/ StartRename(w) \/ StartUntag(w)
      \/ StartRetype(w) \/ StartUntype(w) \/ StartTitle(w)
      => \E op : Reads(w, op)
  BY DEF StartPerson, StartDate, StartPeople, StartReferences, StartDates, StartShow, StartTag,
         StartRename, StartUntag, StartRetype, StartUntype, StartTitle
<1> QED
  BY <1>1, <1>2, <1>3, <1>4, <1>5 DEF KnowledgeStarts

LEMMA ServesStep ==
    ASSUME FilesInv, NEW w \in Jobs, Serves(w)
    PROVE  FilesInv'
<1>1. CASE Delete(w)
  BY <1>1, CommitRemoveStep DEF Delete
<1>2. CASE FillDates(w) \/ FillPerson(w)
  BY <1>2, ContinuesStep DEF FillDates, FillPerson
<1>3. CASE ShowList(w)
  BY <1>3, OtherEndsStep DEF ShowList, In, Later, bounds, Files, database
<1>4. CASE \E op : Writes(w, op) /\ items' = items
  BY <1>4, WritesStep
<1>5. \/ SavePerson(w) \/ SaveDate(w) \/ AddTag(w) \/ Rename(w) \/ Untag(w) \/ Retype(w)
      \/ Untype(w) \/ Title(w)
      => \E op : Writes(w, op) /\ items' = items
  BY DEF SavePerson, SaveDate, UpdatesItem, AddTag, Rename, Untag, Retype, Untype, Title
<1> QED
  BY <1>1, <1>2, <1>3, <1>4, <1>5 DEF Serves

LEMMA KnowledgeStep ==
    ASSUME FilesInv, KnowledgeNext
    PROVE  FilesInv'
<1>1. CASE Tick
  BY <1>1, TickStep
<1>2. CASE \E r \in Resumes : CreateResume(r)
  BY <1>2, CreateResumeStep
<1>3. ASSUME NEW w \in Jobs, StartFile(w)
      PROVE  FilesInv'
  BY <1>3, StartsStep, AttachStep, StartReplaceStep DEF StartFile
<1>4. ASSUME NEW w \in Jobs, Detached(w) \/ Prunes(w)
      PROVE  FilesInv'
  BY <1>4, DetachStep, StartPruneStep DEF Detached, Prunes
<1>5. ASSUME NEW w \in Jobs, Advances(w)
      PROVE  FilesInv'
  BY <1>5, WorksStep, CommitAttachStep, ServesStep DEF Advances
<1> QED
  BY <1>1, <1>2, <1>3, <1>4, <1>5, KnowledgeStartsStep, BreaksStep, CommitUnansweredStep
     DEF KnowledgeNext

LEMMA AgendaStep ==
    ASSUME FilesInv, [AgendaNext]_agendaVars
    PROVE  FilesInv'
<1>1. CASE KnowledgeNext
  BY <1>1, KnowledgeStep
<1>2. ASSUME NEW w \in Jobs, AskEvent(w) \/ AskCalendar(w) \/ AskOverview(w)
      PROVE  FilesInv'
  <2>1. \E op : Reads(w, op)
    BY <1>2 DEF AskEvent, AskCalendar, AskOverview
  <2> QED
    BY <2>1, ReadsStep
<1>3. ASSUME NEW w \in Jobs, WriteEvent(w)
      PROVE  FilesInv'
  <2>1. Writes(w, "event") /\ items' = items
    BY <1>3 DEF WriteEvent
  <2> QED
    BY <2>1, WritesStep
<1>4. CASE UNCHANGED allVars
  BY <1>4, RestStep DEF allVars, vars, bounds
<1> QED
  BY <1>1, <1>2, <1>3, <1>4 DEF AgendaNext, ChangeZone, agendaVars

LEMMA FilesInit ==
    ASSUME AgendaInit
    PROVE  FilesInv
<1>1. /\ scenario \in Scenarios /\ clock = 0 /\ created = 0 /\ DOMAIN rows = {} /\ objects = {}
      /\ photo = [r \in Resumes |-> Absent] /\ items = scenario.items /\ DOMAIN links = {}
      /\ job = [w \in Jobs |-> Idle] /\ lost = {} /\ stray = {} /\ overtaken = {}
  BY DEF AgendaInit, KnowledgeInit, Init
<1>2. \A w \in Jobs : job[w] = Idle /\ job[w].op = "idle" /\ job[w].locks = {}
  BY <1>1, IdleRecord
<1>3. FilesType
  <2>1. items \subseteq Items
    BY <1>1, FilesAssumption
  <2>2. job \in [Jobs -> JobRecords(created, clock)]
    BY <1>1, IdleRecord
  <2> QED
    BY <1>1, <2>1, <2>2 DEF FilesType
<1>4. LocksApart /\ LinksApart /\ ReplacesApart
  BY <1>1, <1>2 DEF LocksApart, LinksApart, ReplacesApart
<1>5. \A f \in FileIds : PhotoSound(f)
  BY <1>1 DEF PhotoSound, Shown, Recorded, FileIds, Absent
<1>6. \A w \in Jobs : JobSound(w) /\ \A f : ~NewFile(w, f)
  BY <1>2 DEF JobSound, UploadSound, SeenSound, ResumeSound, EraseSound, PruneSound,
         AttachSound, CleanSound, NewFile, Creates, Uploads, Attachments
<1> QED
  BY <1>1, <1>3, <1>4, <1>5, <1>6 DEF FilesInv

LEMMA FilesAlways == AgendaSpec => []FilesInv
<1>1. AgendaInit => FilesInv
  BY FilesInit
<1>2. FilesInv /\ [AgendaNext]_agendaVars => FilesInv'
  BY AgendaStep
<1> QED
  BY <1>1, <1>2, PTL DEF AgendaSpec

-----------------------------------------------------------------------------
(* The theorems *)

LEMMA PresentFollows ==
    ASSUME FilesInv
    PROVE  UsedPresent
<1>1. \A f \in DOMAIN rows : RowSound(f) /\ f \in FileIds
  BY RowTyped
<1>2. \A f \in DOMAIN rows : f \in objects \/ f \in lost \/ \E w \in Jobs : Deletes(w, f)
  BY <1>1 DEF RowSound
<1>3. ASSUME NEW f \in DOMAIN rows, NEW w \in Jobs, Deletes(w, f)
      PROVE  f \notin DOMAIN links /\ (Shown(f) => f \in overtaken)
  <2>1. MarkSound(f) /\ PhotoSound(f) /\ EraseSound(w) /\ PruneSound(w)
    BY <1>1 DEF RowSound, FilesInv, JobSound
  <2>2. CASE job[w].op = "erase" /\ job[w].file = f
    BY <2>1, <2>2 DEF EraseSound, MarkSound, PhotoSound, Recorded
  <2>3. CASE job[w].op = "prune" /\ f \in job[w].doomed
    BY <2>1, <2>3 DEF PruneSound, MarkSound
  <2> QED
    BY <1>3, <2>2, <2>3 DEF Deletes
<1>4. PhotosShown \subseteq DOMAIN rows \cup overtaken
  <2>1. ASSUME NEW r \in Resumes, photo[r] > NoFile
        PROVE  photo[r] \in FileIds /\ Shown(photo[r])
    <3>1. photo[r] \in {Absent, Gone} \cup 0..created /\ created \in Nat
      BY DEF FilesInv, FilesType
    <3> QED
      BY <2>1, <3>1 DEF FileIds, Shown, NoFile, Absent, Gone
  <2> QED
    BY <2>1 DEF PhotosShown, FilesInv, PhotoSound
<1>5. ASSUME NEW r \in Resumes, Present(r)
      PROVE  Exported(r) \/ photo[r] \in lost \cup overtaken
  <2>1. photo[r] \in {Absent, Gone} \cup 0..created /\ created \in Nat
    BY DEF FilesInv, FilesType
  <2>2. CASE photo[r] = NoFile
    BY <1>5, <2>2 DEF Exported
  <2>3. CASE photo[r] # NoFile
    <3>1. photo[r] > NoFile /\ photo[r] \in FileIds /\ Shown(photo[r])
      BY <1>5, <2>1, <2>3 DEF Present, FileIds, Shown, NoFile, Absent, Gone
    <3>2. photo[r] \in DOMAIN rows \cup overtaken
      BY <3>1 DEF FilesInv, PhotoSound
    <3> QED
      BY <1>2, <1>3, <1>5, <3>1, <3>2 DEF Exported, ReadPhoto, Downloaded
  <2> QED
    BY <2>2, <2>3
<1>6. \A f \in DOMAIN links : Opened(f) \/ f \in lost
  BY <1>2, <1>3, LinkTyped DEF Opened, Streamed
<1>7. LinksApart /\ DOMAIN links \subseteq DOMAIN rows
  BY DEF FilesInv, FilesType
<1> QED
  BY <1>4, <1>5, <1>6, <1>7 DEF UsedPresent, LinksApart

(* What is in use is there, whatever runs at once and however it ends: the    *)
(* photo of a resume and the files of an item have their row and their        *)
(* object, but for what a failed request or a cleaning deleted and a photo    *)
(* that was once replaced unseen.                                             *)
THEOREM UsedPresentCorrect == AgendaSpec => []UsedPresent
<1>1. FilesInv => UsedPresent
  BY PresentFollows
<1> QED
  BY <1>1, FilesAlways, PTL

LEMMA NothingForgotten ==
    ASSUME FilesInv
    PROVE  NoLeak
<1>1. ASSUME NEW f \in DOMAIN rows \ (PhotosShown \cup DOMAIN links)
      PROVE  rows[f].orphaned # Never \/ f \in overtaken
  <2>1. MarkSound(f) /\ f \in FileIds /\ rows[f].space \in Spaces
    BY RowTyped DEF Row
  <2>2. ~Shown(f)
    <3>1. f > NoFile
      BY <2>1 DEF FileIds, NoFile
    <3> QED
      BY <1>1, <3>1 DEF PhotosShown, Shown
  <2> QED
    BY <1>1, <2>1, <2>2 DEF MarkSound, Spaces
<1>2. ASSUME NEW f \in objects \ DOMAIN rows
      PROVE  f \in stray \/ \E w \in Jobs : f \in job[w].locks
                                            \/ (job[w].op = "clean" /\ f \in job[w].doomed)
  <2>1. CASE \E w \in Jobs : Owns(w, f)
    BY <2>1, CreatesLocked DEF Owns, NewFile
  <2> QED
    BY <1>2, <2>1 DEF FilesInv, ObjectSound
<1> QED
  BY <1>1, <1>2 DEF NoLeak

(* Nothing is forgotten: a row nothing uses is marked, except a photo that    *)
(* was replaced unseen, and an object without a row belongs to a job or is    *)
(* what a failure left.                                                       *)
THEOREM NoLeakCorrect == AgendaSpec => []NoLeak
<1>1. FilesInv => NoLeak
  BY NothingForgotten
<1> QED
  BY <1>1, FilesAlways, PTL
=============================================================================
