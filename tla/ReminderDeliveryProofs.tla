----------------------- MODULE ReminderDeliveryProofs -----------------------
(***************************************************************************)
(* Theorems about ReminderDelivery for every value of its constants.        *)
(***************************************************************************)
EXTENDS ReminderDelivery, TLAPS

-----------------------------------------------------------------------------
(* Types of the helpers *)

(* A local window is made of integers, whatever the zone. *)
LEMMA WindowType ==
    ASSUME NEW now \in Int, NEW z \in Int
    PROVE  /\ LocalDate(now, z) \in Int
           /\ SendAt(now, z) \in Int
           /\ ExpiresAt(now, z) \in Int
<1>1. LocalDate(now, z) \in Int
  BY TimeAssumption DEF LocalDate
<1>2. QED
  BY <1>1, TimeAssumption DEF SendAt, ExpiresAt

(* What the storage writes to a row is a row again. *)
LEMMA RowType ==
    ASSUME NEW r \in Row, NEW now \in Int, NEW next \in Int
    PROVE  /\ \A s \in Statuses : Marked(r, s, now) \in Row
           /\ RetriedRow(r, now, next) \in Row
           /\ DeferredRow(r, now, next) \in Row
<1>1. \A s \in Statuses : Marked(r, s, now) \in Row
  BY DEF Marked, Row
<1>2. RetriedRow(r, now, next) \in Row
  BY DEF RetriedRow, Row, Statuses
<1>3. DeferredRow(r, now, next) \in Row
  <2>1. r.attempts \in 0..MaxAttempts /\ MaxAttempts \in Nat
    BY LimitAssumption DEF Row
  <2>2. (IF r.attempts > 0 THEN r.attempts - 1 ELSE 0) \in 0..MaxAttempts
    BY <2>1
  <2>3. NoTime \in Int
    BY DEF NoTime
  <2>4. QED
    BY <2>2, <2>3 DEF DeferredRow, Row, Statuses
<1>4. QED
  BY <1>1, <1>2, <1>3

LEMMA PendingRowType ==
    ASSUME NEW now \in Int, NEW sendAt \in Int, NEW expiresAt \in Int
    PROVE  PendingRow(now, sendAt, expiresAt) \in Row
  BY LimitAssumption DEF PendingRow, Row, Statuses, NoTime

LEMMA IdleType == IdleWorker \in Run /\ NoRow \in Row /\ NoPlan \in Plan
<1>1. IdleWorker \in Run
  BY LimitAssumption DEF IdleWorker, Run, Phases
<1>2. NoRow \in Row
  BY LimitAssumption DEF NoRow, Row, NoTime
<1>3. NoPlan \in Plan
  BY DEF NoPlan, Plan
<1>4. QED
  BY <1>1, <1>2, <1>3

LEMMA ReleasedType ==
    ASSUME TypeOK, NEW w \in Workers
    PROVE  Released(w) \in Run
<1>1. worker[w] \in Run
  BY DEF TypeOK
<1>2. worker[w].now \in Int /\ worker[w].left \in 0..BatchSize
  BY <1>1 DEF Run
<1>3. QED
  BY <1>2, IdleType DEF Released, Run, Phases

LEMMA OutdatedType ==
    ASSUME TypeOK, NEW w \in Workers, NEW K
    PROVE  Outdated(w, K) \in Run
<1>1. worker[w] \in Run
  BY DEF TypeOK
<1>2. (worker[w].fresh /\ worker[w].key \notin K) \in BOOLEAN
  OBVIOUS
<1>3. QED
  BY <1>1, <1>2 DEF Outdated, Run

(* The variables a delivery step writes. *)
RunTypes == rows' \in [Keys -> Row] /\ worker' \in [Workers -> Run] /\ calls' \in [Keys -> Nat]

(* A run moves on to its next phase and writes nothing. *)
LEMMA AdvancedType ==
    ASSUME NEW run \in Run
    PROVE  /\ \A z \in Int : [run EXCEPT !.phase = "resolved", !.zone = z] \in Run
           /\ [run EXCEPT !.phase = "current"] \in Run
           /\ [run EXCEPT !.phase = "allowed"] \in Run
  BY DEF Run, Phases

LEMMA AdvanceType ==
    ASSUME TypeOK, NEW w \in Workers, NEW run \in Run, UNCHANGED <<rows, calls>>,
           worker' = [worker EXCEPT ![w] = run]
    PROVE  RunTypes
  BY DEF TypeOK, RunTypes

LEMMA FinishType ==
    ASSUME TypeOK, NEW w \in Workers, NEW row \in Row, Finish(w, row)
    PROVE  RunTypes
<1>1. Released(w) \in Run
  BY ReleasedType
<1>2. rows' \in [Keys -> Row]
  BY DEF Finish, TypeOK
<1>3. worker' \in [Workers -> Run]
  BY <1>1 DEF Finish, TypeOK
<1>4. calls' \in [Keys -> Nat]
  BY DEF Finish, TypeOK
<1>5. QED
  BY <1>2, <1>3, <1>4 DEF RunTypes

LEMMA FinishMarkedType ==
    ASSUME TypeOK, NEW w \in Workers, worker[w].key \in Keys,
           NEW status \in Statuses, FinishMarked(w, status)
    PROVE  RunTypes
<1>1. rows[worker[w].key] \in Row /\ worker[w].now \in Int
  BY DEF TypeOK, Run
<1>2. Marked(rows[worker[w].key], status, worker[w].now) \in Row
  BY <1>1, RowType
<1>3. QED
  BY <1>2, FinishType DEF FinishMarked

LEMMA DeferType ==
    ASSUME TypeOK, NEW w \in Workers, worker[w].key \in Keys, Defer(w)
    PROVE  RunTypes
<1> DEFINE next == worker[w].now + RetryInterval
<1>1. rows[worker[w].key] \in Row /\ worker[w].now \in Int /\ next \in Int
  BY LimitAssumption DEF TypeOK, Run
<1>2. DeferredRow(rows[worker[w].key], worker[w].now, next) \in Row
  BY <1>1, RowType
<1>3. CASE next >= worker[w].expiresAt
  BY <1>3, FinishMarkedType DEF Defer, Statuses
<1>4. CASE ~(next >= worker[w].expiresAt)
  BY <1>4, <1>2, FinishType DEF Defer
<1>5. QED
  BY <1>3, <1>4

LEMMA ResetType ==
    ASSUME TypeOK, NEW K, NEW row \in Row, Reset(K, row)
    PROVE  rows' \in [Keys -> Row] /\ calls' \in [Keys -> Nat]
  BY DEF Reset, TypeOK

LEMMA RescheduleType ==
    ASSUME TypeOK, NEW w \in Workers, worker[w].key \in Keys, Reschedule(w)
    PROVE  RunTypes
<1> DEFINE k == worker[w].key
           K == IF rows[k].status = "inProgress" THEN {k} ELSE {}
           row == PendingRow(worker[w].now, SendAt(worker[w].now, zone),
                             ExpiresAt(worker[w].now, zone))
<1>1. worker[w].now \in Int /\ zone \in Int
  BY TimeAssumption DEF TypeOK, Run
<1>2. row \in Row
  BY <1>1, WindowType, PendingRowType
<1>3. Reset(K, row)
  BY DEF Reschedule
<1>4. rows' \in [Keys -> Row] /\ calls' \in [Keys -> Nat]
  BY <1>2, <1>3, ResetType
<1>5. worker' = [v \in Workers |-> IF v = w THEN Released(w) ELSE Outdated(v, K)]
  BY DEF Reschedule
<1>6. \A v \in Workers : Outdated(v, K) \in Run
  BY OutdatedType
<1>7. worker' \in [Workers -> Run]
  BY <1>5, <1>6, ReleasedType
<1>8. QED
  BY <1>4, <1>7 DEF RunTypes

LEMMA RetryOrFinishType ==
    ASSUME TypeOK, NEW w \in Workers, worker[w].key \in Keys, RetryOrFinish(w)
    PROVE  RunTypes
<1> DEFINE after == worker[w].retryAfter
           next == worker[w].now + IF after > RetryInterval THEN after ELSE RetryInterval
<1>1. rows[worker[w].key] \in Row /\ worker[w].now \in Int /\ after \in Nat
  BY DEF TypeOK, Run
<1>2. next \in Int
  BY <1>1, LimitAssumption
<1>3. RetriedRow(rows[worker[w].key], worker[w].now, next) \in Row
  BY <1>1, <1>2, RowType
<1>4. CASE worker[w].attempts >= MaxAttempts
  BY <1>4, FinishMarkedType DEF RetryOrFinish, Statuses
<1>5. CASE ~(worker[w].attempts >= MaxAttempts) /\ next >= worker[w].expiresAt
  BY <1>5, FinishMarkedType DEF RetryOrFinish, Statuses
<1>6. CASE ~(worker[w].attempts >= MaxAttempts) /\ ~(next >= worker[w].expiresAt)
  BY <1>6, <1>3, FinishType DEF RetryOrFinish
<1>7. QED
  BY <1>4, <1>5, <1>6

-----------------------------------------------------------------------------
(* Type correctness *)

(* A run in the middle of a delivery has a key of the table: without it the  *)
(* rows a step writes to could not be told to exist.                         *)
KeyHeld == \A w \in Workers :
    worker[w].phase \notin {"idle", "run"} \/ worker[w].outcome # "none" => worker[w].key \in Keys

TypeInv == TypeOK /\ KeyHeld

LEMMA InitType == Init => TypeInv
<1> SUFFICES ASSUME Init PROVE TypeInv
  OBVIOUS
<1>1. TypeOK
  BY IdleType, TimeAssumption, LimitAssumption DEF Init, TypeOK
<1>2. KeyHeld
  BY DEF Init, KeyHeld, IdleWorker
<1>3. QED
  BY <1>1, <1>2 DEF TypeInv
(* Each step of a run keeps the types, by the lemma on how it writes. *)
LEMMA PlannerType ==
    ASSUME TypeOK, StartPlan \/ PlannerRun
    PROVE  TypeOK'
<1>1. CASE StartPlan
  <2>1. clock \in Int /\ subscribed \in [Connections -> SUBSET Kinds] /\ linked \subseteq Connections
    BY LimitAssumption DEF TypeOK
  <2>2. planner' \in Plan
    BY <1>1, <2>1 DEF StartPlan, Plan
  <2>3. QED
    BY <1>1, <2>2 DEF StartPlan, TypeOK, settings, history
<1>2. ASSUME NEW r \in planner.todo PROVE PlanNext(r) \in Plan
  BY <1>2, IdleType DEF PlanNext, TypeOK, Plan
<1>3. ASSUME NEW r \in planner.todo, PlanRecipient(r) PROVE TypeOK'
  <2> DEFINE s == SendAt(planner.now, zone)
             e == ExpiresAt(planner.now, zone)
             K == {k \in DueKeys(r, planner.now, zone) : Replannable(rows[k], s, e)}
             row == PendingRow(planner.now, s, e)
  <2>1. planner.now \in Int /\ zone \in Int
    BY TimeAssumption DEF TypeOK, Plan
  <2>2. row \in Row
    BY <2>1, WindowType, PendingRowType
  <2>3. Reset(K, row) /\ worker' = [w \in Workers |-> Outdated(w, K)]
    BY <1>3 DEF PlanRecipient
  <2>4. rows' \in [Keys -> Row] /\ calls' \in [Keys -> Nat]
    BY <2>2, <2>3, ResetType
  <2>5. worker' \in [Workers -> Run]
    BY <2>3, OutdatedType
  <2>6. planner' \in Plan
    BY <1>2, <1>3 DEF PlanRecipient
  <2>7. QED
    BY <1>3, <2>4, <2>5, <2>6 DEF PlanRecipient, TypeOK, settings
<1>4. ASSUME NEW r \in planner.todo, SkipRecipient(r) PROVE TypeOK'
  BY <1>2, <1>4 DEF SkipRecipient, TypeOK, settings, history
<1>5. CASE CrashPlan
  BY <1>5, IdleType DEF CrashPlan, TypeOK, settings, history
<1>6. QED
  BY <1>1, <1>3, <1>4, <1>5 DEF PlannerRun

LEMMA ClaimType ==
    ASSUME TypeOK, NEW w \in Workers, NEW k \in Keys, Claim(w, k)
    PROVE  TypeOK'
<1>1. worker[w] \in Run /\ rows[k] \in Row /\ ClaimLease \in Int /\ MaxAttempts \in Nat
  BY LimitAssumption DEF TypeOK
<1>2. rows[k].attempts + 1 \in 0..MaxAttempts
  BY <1>1 DEF Claim, Claimable, Row
<1>3. rows'[k] \in Row
  BY <1>1, <1>2 DEF Claim, TypeOK, Row, Run, Statuses
<1>4. rows' \in [Keys -> Row]
  BY <1>3 DEF Claim, TypeOK
<1>5. worker[w].left - 1 \in 0..BatchSize
  BY <1>1, LimitAssumption DEF Claim, Run
<1>6. worker'[w] \in Run
  BY <1>1, <1>2, <1>5 DEF Claim, TypeOK, Row, Run, Phases
<1>7. worker' \in [Workers -> Run]
  BY <1>6 DEF Claim, TypeOK
<1>8. QED
  BY <1>4, <1>7 DEF Claim, TypeOK, settings

LEMMA DeliveryType ==
    ASSUME TypeInv, NEW w \in Workers, DeliveryStep(w)
    PROVE  TypeOK'
<1>1. worker[w] \in Run /\ worker \in [Workers -> Run] /\ TypeOK
  BY DEF TypeInv, TypeOK
<1>2. worker[w].phase \notin {"idle", "run"} => worker[w].key \in Keys
  BY DEF TypeInv, KeyHeld
<1>3. CASE Resolve(w)
  <2>1. worker[w].key \in Keys
    BY <1>2, <1>3 DEF Resolve
  <2>2. zone \in Int
    BY <1>1, TimeAssumption DEF TypeOK
  <2>3. ASSUME UNCHANGED <<rows, calls>>,
               worker' = [worker EXCEPT ![w].phase = "resolved", ![w].zone = zone]
        PROVE  RunTypes
    <3>1. [worker[w] EXCEPT !.phase = "resolved", !.zone = zone] \in Run
      BY <1>1, <2>2, AdvancedType
    <3>2. QED
      BY ZenonT(60), <1>1, <2>3, <3>1, AdvanceType
  <2>4. RunTypes
    BY <1>1, <1>3, <2>1, <2>3, FinishMarkedType, DeferType, RescheduleType DEF Resolve, Statuses
  <2>5. QED
    BY <1>1, <1>3, <2>4 DEF Resolve, RunTypes, TypeOK, settings
<1>4. CASE Recheck(w)
  <2>1. worker[w].key \in Keys
    BY <1>2, <1>4 DEF Recheck
  <2>2. ASSUME UNCHANGED <<rows, calls>>, worker' = [worker EXCEPT ![w].phase = "current"]
        PROVE  RunTypes
    <3>1. [worker[w] EXCEPT !.phase = "current"] \in Run
      BY <1>1, AdvancedType
    <3>2. QED
      BY <1>1, <2>2, <3>1, AdvanceType
  <2>3. RunTypes
    BY <1>1, <1>4, <2>1, <2>2, FinishMarkedType DEF Recheck, Statuses
  <2>4. QED
    BY <1>1, <1>4, <2>3 DEF Recheck, RunTypes, TypeOK, settings
<1>5. CASE AskSwitch(w)
  <2>1. worker[w].key \in Keys
    BY <1>2, <1>5 DEF AskSwitch
  <2>2. ASSUME UNCHANGED <<rows, calls>>, worker' = [worker EXCEPT ![w].phase = "allowed"]
        PROVE  RunTypes
    <3>1. [worker[w] EXCEPT !.phase = "allowed"] \in Run
      BY <1>1, AdvancedType
    <3>2. QED
      BY <1>1, <2>2, <3>1, AdvanceType
  <2>3. RunTypes
    BY <1>1, <1>5, <2>1, <2>2, FinishMarkedType, DeferType DEF AskSwitch, Statuses
  <2>4. QED
    BY <1>1, <1>5, <2>3 DEF AskSwitch, RunTypes, TypeOK, settings
<1>6. CASE Send(w)
  <2>1. worker[w].key \in Keys
    BY <1>2, <1>6 DEF Send
  <2>2. PICK outcome \in {"done", "failed", "retry"}, after \in Nat :
          worker' = [worker EXCEPT ![w].phase = "answered", ![w].outcome = outcome,
                                   ![w].retryAfter = after]
    BY <1>6, LimitAssumption DEF Send
  <2>3. worker' \in [Workers -> Run]
    BY <1>1, <2>2 DEF Run, Phases
  <2>4. calls' \in [Keys -> Nat]
    BY <1>1, <1>6, <2>1 DEF Send, Called, TypeOK
  <2>5. Accepted(worker[w].key) \in [Keys -> 0..2]
    BY <1>1, <2>1 DEF Accepted, TypeOK
  <2>6. sent' \in [Keys -> 0..2] /\ unrecorded' \subseteq Keys
    BY <1>1, <1>6, <2>1, <2>5 DEF Send, TypeOK
  <2>7. QED
    BY <1>1, <1>6, <2>3, <2>4, <2>6 DEF Send, TypeOK, settings
<1>7. CASE Record(w)
  <2>1. worker[w].key \in Keys
    BY <1>2, <1>7 DEF Record
  <2>2. RunTypes
    BY <1>1, <1>7, <2>1, FinishMarkedType, RetryOrFinishType DEF Record, Statuses
  <2>3. QED
    BY <1>1, <1>7, <2>2 DEF Record, RunTypes, TypeOK, settings
<1>8. QED
  BY <1>3, <1>4, <1>5, <1>6, <1>7 DEF DeliveryStep

(* Starting, ending and losing a run. *)
LEMMA RunType ==
    ASSUME TypeInv, NEW w \in Workers, StartRun(w) \/ EndRun(w) \/ Crash(w)
    PROVE  TypeOK'
<1>1. worker[w] \in Run /\ worker \in [Workers -> Run] /\ TypeOK
  BY DEF TypeInv, TypeOK
<1>2. CASE StartRun(w)
  <2>0. clock \in Int /\ BatchSize \in 0..BatchSize
    BY <1>1, LimitAssumption DEF TypeOK
  <2>1. [worker[w] EXCEPT !.phase = "run", !.now = clock, !.left = BatchSize] \in Run
    BY <1>1, <2>0 DEF Run, Phases
  <2>2. worker' \in [Workers -> Run]
    BY <1>1, <1>2, <2>1 DEF StartRun
  <2>3. QED
    BY <1>1, <1>2, <2>2 DEF StartRun, TypeOK, settings, history
<1>3. CASE EndRun(w)
  BY <1>1, <1>3, IdleType DEF EndRun, TypeOK, settings, history
<1>4. CASE Crash(w)
  <2>1. worker[w].outcome = "done" => worker[w].key \in Keys
    BY DEF TypeInv, KeyHeld
  <2>2. worker' \in [Workers -> Run]
    BY <1>1, <1>4, IdleType DEF Crash
  <2>3. unrecorded' \subseteq Keys
    BY <1>1, <1>4, <2>1 DEF Crash, TypeOK
  <2>4. QED
    BY <1>1, <1>4, <2>2, <2>3 DEF Crash, TypeOK, settings
<1>5. QED
  BY <1>2, <1>3, <1>4

LEMMA SettingsType ==
    ASSUME TypeOK, SettingsStep
    PROVE  TypeOK'
<1>1. \A w \in Workers : [worker[w] EXCEPT !.unchanged = FALSE] \in Run
  BY ZenonT(60) DEF TypeOK, Run
<1>2. ASSUME Changed
      PROVE  /\ changes' \in 0..MaxChanges /\ worker' \in [Workers -> Run]
             /\ UNCHANGED <<clock, rows, planner, history>>
  BY <1>1, <1>2, LimitAssumption DEF Changed, TypeOK
<1>3. CASE ChangeZone
  BY <1>2, <1>3 DEF ChangeZone, TypeOK, history
<1>4. CASE FlipSwitch
  BY <1>2, <1>4 DEF FlipSwitch, TypeOK, history
<1>5. ASSUME NEW c \in Connections, ApproveConnection(c) \/ CloseConnection(c) PROVE TypeOK'
  BY <1>2, <1>5 DEF ApproveConnection, CloseConnection, TypeOK, history
<1>6. ASSUME NEW c \in Connections, SetSubscription(c) PROVE TypeOK'
  BY <1>2, <1>6 DEF SetSubscription, TypeOK, history
<1>7. ASSUME NEW i \in Items, EditItem(i) PROVE TypeOK'
  BY <1>2, <1>7 DEF EditItem, TypeOK, history
<1>8. QED
  BY <1>3, <1>4, <1>5, <1>6, <1>7 DEF SettingsStep

LEMMA PruneType ==
    ASSUME TypeOK, Prune
    PROVE  TypeOK'
<1>1. clock \in Int /\ Retention \in Int
  BY LimitAssumption DEF TypeOK
<1>2. ASSUME NEW k \in Keys PROVE PrunedRow(rows[k]) \in Row
  BY <1>1, IdleType DEF PrunedRow, TypeOK, Row, Statuses
<1>3. rows' \in [Keys -> Row]
  BY <1>2 DEF Prune
<1>4. QED
  BY <1>3 DEF Prune, TypeOK, settings, history

LEMMA TickType ==
    ASSUME TypeOK, Tick
    PROVE  TypeOK'
  BY LimitAssumption DEF Tick, TypeOK, settings, history

(* The key of a delivery in progress stays the one that was claimed. *)
LEMMA KeyHeldStep ==
    ASSUME TypeInv, Next
    PROVE  KeyHeld'
<1> USE DEF KeyHeld
<1>1. worker \in [Workers -> Run] /\ KeyHeld
  BY DEF TypeInv, TypeOK
<1>2. ASSUME UNCHANGED worker PROVE KeyHeld'
  BY <1>1, <1>2
<1>3. ASSUME NEW K, NEW w \in Workers PROVE /\ Outdated(w, K).phase = worker[w].phase
                                           /\ Outdated(w, K).outcome = worker[w].outcome
                                           /\ Outdated(w, K).key = worker[w].key
  BY <1>1 DEF Outdated, Run
<1>4. ASSUME NEW w \in Workers PROVE /\ Released(w).phase \in {"idle", "run"}
                                     /\ Released(w).outcome = "none"
  BY DEF Released, IdleWorker
<1>5. CASE StartPlan \/ CrashPlan \/ Prune \/ Tick
  BY <1>2, <1>5 DEF StartPlan, CrashPlan, Prune, Tick
<1>6. ASSUME NEW r \in planner.todo, PlanRecipient(r) \/ SkipRecipient(r) PROVE KeyHeld'
  <2>1. CASE SkipRecipient(r)
    BY <1>2, <2>1 DEF SkipRecipient
  <2>2. CASE PlanRecipient(r)
    <3>1. PICK K : worker' = [w \in Workers |-> Outdated(w, K)]
      BY <2>2 DEF PlanRecipient
    <3>2. QED
      BY <1>1, <1>3, <3>1
  <2>3. QED
    BY <1>6, <2>1, <2>2
<1>7. CASE SettingsStep
  <2>1. worker' = [w \in Workers |-> [worker[w] EXCEPT !.unchanged = FALSE]]
    BY <1>7 DEF SettingsStep, ChangeZone, FlipSwitch, ApproveConnection, CloseConnection, SetSubscription,
                EditItem, Changed
  <2>2. QED
    BY <1>1, <2>1 DEF Run
<1>8. ASSUME NEW w \in Workers, NEW row, Finish(w, row) PROVE KeyHeld'
  BY <1>1, <1>4, <1>8 DEF Finish
<1>9. ASSUME NEW w \in Workers, DeliveryStep(w) PROVE KeyHeld'
  <2>1. CASE \E row : Finish(w, row)
    BY <2>1, <1>8
  <2>2. CASE Reschedule(w)
    BY <1>1, <1>3, <1>4, <2>2 DEF Reschedule
  <2>3. CASE \E s : FinishMarked(w, s)
    BY <2>3, <1>8 DEF FinishMarked
  <2>4. CASE Defer(w)
    BY <2>4, <1>8 DEF Defer, FinishMarked
  <2>5. CASE RetryOrFinish(w)
    BY <2>5, <1>8 DEF RetryOrFinish, FinishMarked
  <2>6. CASE Resolve(w)
    <3>1. CASE worker' = [worker EXCEPT ![w].phase = "resolved", ![w].zone = zone]
      BY <1>1, <2>6, <3>1 DEF Resolve, Run
    <3>2. QED
      BY <2>2, <2>3, <2>4, <2>6, <3>1 DEF Resolve
  <2>7. CASE Recheck(w)
    <3>1. CASE worker' = [worker EXCEPT ![w].phase = "current"]
      BY <1>1, <2>7, <3>1 DEF Recheck, Run
    <3>2. QED
      BY <2>3, <2>7, <3>1 DEF Recheck
  <2>8. CASE AskSwitch(w)
    <3>1. CASE worker' = [worker EXCEPT ![w].phase = "allowed"]
      BY <1>1, <2>8, <3>1 DEF AskSwitch, Run
    <3>2. QED
      BY <2>3, <2>4, <2>8, <3>1 DEF AskSwitch
  <2>9. CASE Send(w)
    BY <1>1, <2>9 DEF Send, Run
  <2>10. CASE Record(w)
    BY <2>3, <2>5, <2>10 DEF Record
  <2>11. QED
    BY <1>9, <2>6, <2>7, <2>8, <2>9, <2>10 DEF DeliveryStep
<1>10. ASSUME NEW w \in Workers, NEW k \in Keys, Claim(w, k) PROVE KeyHeld'
  BY <1>1, <1>10 DEF Claim, Run
<1>11. ASSUME NEW w \in Workers, StartRun(w) \/ EndRun(w) \/ Crash(w) PROVE KeyHeld'
  BY <1>1, <1>11 DEF StartRun, EndRun, Crash, IdleWorker, Run
<1>12. QED
  BY <1>5, <1>6, <1>7, <1>9, <1>10, <1>11 DEF Next, PlannerRun, WorkerStep

LEMMA NextType == TypeInv /\ [Next]_vars => TypeInv'
<1> SUFFICES ASSUME TypeInv, [Next]_vars PROVE TypeInv'
  OBVIOUS
<1>1. TypeOK
  BY DEF TypeInv
<1>2. CASE Next
  <2>1. TypeOK'
    BY <1>1, <1>2, PlannerType, ClaimType, DeliveryType, RunType, SettingsType, PruneType,
       TickType DEF Next, WorkerStep
  <2>2. QED
    BY <1>2, <2>1, KeyHeldStep DEF TypeInv
<1>3. CASE UNCHANGED vars
  BY <1>3 DEF vars, settings, history, TypeInv, TypeOK, KeyHeld
<1>4. QED
  BY <1>2, <1>3

LEMMA AlwaysTyped == Spec => []TypeInv
  BY InitType, NextType, PTL DEF Spec

(* In every reachable state every variable has its type: no row passes       *)
(* max_attempts, no claim outlives its batch.                                 *)
THEOREM TypeCorrect == Spec => []TypeOK
<1>1. TypeInv => TypeOK
  BY DEF TypeInv
<1>2. QED
  BY <1>1, AlwaysTyped, PTL

-----------------------------------------------------------------------------
(* When and to whom a run sends *)

(* What a run has established by its phase.  Its `now` lies in the past, so   *)
(* NeverEarly follows from what was true of `now`; a refusal is remembered as *)
(* long as no setting has changed since the claim.                            *)
InTime(w) ==
    LET k == worker[w].key
    IN  /\ worker[w].now <= clock
        /\ worker[w].phase \in {"resolved", "current", "allowed", "answered"} =>
              LocalDate(worker[w].now, worker[w].zone) + k.lead = k.date
        /\ worker[w].phase \in {"current", "allowed", "answered"} =>
              Eligible(worker[w].now, worker[w].zone)

Agreed(w) ==
    LET k == worker[w].key
    IN  /\ worker[w].phase \in {"current", "allowed"} /\ worker[w].unchanged =>
              /\ k.conn \in linked
              /\ KindOf[k.item] \in subscribed[k.conn]
              /\ k.date \in occurs[k.item]
        /\ worker[w].phase = "allowed" /\ worker[w].unchanged => switch

Guarded == \A w \in Workers : InTime(w) /\ Agreed(w)

(* A run that is let go, or that only loses its history flags, stays guarded. *)
LEMMA ReleasedGuarded ==
    ASSUME TypeOK, Guarded, NEW w \in Workers, NEW row, Finish(w, row),
           UNCHANGED <<clock, settings>>
    PROVE  Guarded'
<1>1. worker' = [worker EXCEPT ![w] = Released(w)] /\ worker \in [Workers -> Run]
  BY DEF Finish, TypeOK
<1>2. /\ Released(w).phase \in {"idle", "run"}
      /\ Released(w).now \in {0, worker[w].now}
  BY DEF Released, IdleWorker
<1>3. 0 <= clock /\ worker[w].now <= clock
  BY DEF TypeOK, Guarded, InTime
<1>4. QED
  BY <1>1, <1>2, <1>3 DEF Guarded, InTime, Agreed, settings

(* Losing the freshness of a claim touches nothing a guard reads. *)
LEMMA OutdatedGuarded ==
    ASSUME TypeOK, Guarded, NEW v \in Workers, NEW K, worker'[v] = Outdated(v, K),
           UNCHANGED <<clock, settings>>
    PROVE  InTime(v)' /\ Agreed(v)'
<1>1. worker[v] \in Run
  BY DEF TypeOK
<1>2. /\ worker'[v].phase = worker[v].phase
      /\ worker'[v].now = worker[v].now
      /\ worker'[v].key = worker[v].key
      /\ worker'[v].zone = worker[v].zone
      /\ worker'[v].unchanged = worker[v].unchanged
  BY <1>1 DEF Outdated, Run
<1>3. InTime(v) /\ Agreed(v)
  BY DEF Guarded
<1>4. QED
  BY <1>2, <1>3 DEF InTime, Agreed, settings

LEMMA PlannerGuarded ==
    ASSUME TypeOK, Guarded, StartPlan \/ PlannerRun
    PROVE  Guarded'
<1>1. CASE UNCHANGED <<clock, settings, worker>>
  BY <1>1 DEF Guarded, InTime, Agreed, settings
<1>2. ASSUME NEW r \in planner.todo, PlanRecipient(r) PROVE Guarded'
  <2>1. PICK K : worker' = [w \in Workers |-> Outdated(w, K)]
    BY <1>2 DEF PlanRecipient
  <2>2. UNCHANGED <<clock, settings>>
    BY <1>2 DEF PlanRecipient
  <2>3. ASSUME NEW w \in Workers PROVE InTime(w)' /\ Agreed(w)'
    BY <2>1, <2>2, OutdatedGuarded
  <2>4. QED
    BY <2>3 DEF Guarded
<1>3. QED
  BY <1>1, <1>2 DEF StartPlan, PlannerRun, SkipRecipient, CrashPlan

LEMMA DeliveryGuarded ==
    ASSUME TypeOK, Guarded, NEW w \in Workers, DeliveryStep(w)
    PROVE  Guarded'
<1>1. UNCHANGED <<clock, settings>> /\ worker \in [Workers -> Run] /\ clock \in Nat
  BY DEF DeliveryStep, Resolve, Recheck, AskSwitch, Send, Record, TypeOK
<1>2. ASSUME NEW s, FinishMarked(w, s) PROVE Guarded'
  BY <1>1, <1>2, ReleasedGuarded DEF FinishMarked
<1>3. CASE Defer(w)
  BY <1>1, <1>2, <1>3, ReleasedGuarded DEF Defer
<1>4. CASE RetryOrFinish(w)
  BY <1>1, <1>2, <1>4, ReleasedGuarded DEF RetryOrFinish
<1>5. CASE Reschedule(w)
  <2>1. PICK K : worker' = [v \in Workers |-> IF v = w THEN Released(w) ELSE Outdated(v, K)]
    BY <1>5 DEF Reschedule
  <2>2. /\ Released(w).phase \in {"idle", "run"}
        /\ Released(w).now \in {0, worker[w].now}
    BY DEF Released, IdleWorker
  <2>3. ASSUME NEW v \in Workers \ {w} PROVE worker'[v] = Outdated(v, K)
    BY <2>1
  <2>4. InTime(w)' /\ Agreed(w)'
    BY <1>1, <2>1, <2>2 DEF Guarded, InTime, Agreed, settings
  <2>5. ASSUME NEW v \in Workers \ {w} PROVE InTime(v)' /\ Agreed(v)'
    BY <1>1, <2>3, OutdatedGuarded
  <2>6. QED
    BY <2>4, <2>5 DEF Guarded
<1>6. CASE Resolve(w)
  <2>1. CASE /\ SameDay(w)
             /\ worker' = [worker EXCEPT ![w].phase = "resolved", ![w].zone = zone]
    BY <1>1, <2>1 DEF Guarded, InTime, Agreed, settings, SameDay, Run
  <2>2. QED
    BY <1>2, <1>3, <1>5, <1>6, <2>1 DEF Resolve
<1>7. CASE Recheck(w)
  <2>1. CASE /\ IsCurrent(w) /\ worker[w].phase = "resolved"
             /\ worker' = [worker EXCEPT ![w].phase = "current"]
    BY <1>1, <2>1 DEF Guarded, InTime, Agreed, settings, IsCurrent, Run
  <2>2. QED
    BY <1>2, <1>7, <2>1 DEF Recheck
<1>8. CASE AskSwitch(w)
  <2>1. CASE /\ switch /\ worker[w].phase = "current"
             /\ worker' = [worker EXCEPT ![w].phase = "allowed"]
    BY <1>1, <2>1 DEF Guarded, InTime, Agreed, settings, Run
  <2>2. QED
    BY <1>2, <1>3, <1>8, <2>1 DEF AskSwitch
<1>9. CASE Send(w)
  <2>1. PICK outcome, after :
          worker' = [worker EXCEPT ![w].phase = "answered", ![w].outcome = outcome,
                                   ![w].retryAfter = after]
    BY <1>9 DEF Send
  <2>2. worker[w].phase = "allowed"
    BY <1>9 DEF Send
  <2>3. QED
    BY <1>1, <2>1, <2>2 DEF Guarded, InTime, Agreed, settings, Run
<1>10. CASE Record(w)
  BY <1>2, <1>4, <1>10 DEF Record
<1>11. QED
  BY <1>6, <1>7, <1>8, <1>9, <1>10 DEF DeliveryStep

LEMMA RunGuarded ==
    ASSUME TypeOK, Guarded, NEW w \in Workers,
           StartRun(w) \/ EndRun(w) \/ Crash(w) \/ \E k \in Keys : Claim(w, k)
    PROVE  Guarded'
<1>1. UNCHANGED <<clock, settings>> /\ worker \in [Workers -> Run] /\ clock \in Nat
  <2>1. UNCHANGED <<clock, settings>>
    BY DEF StartRun, EndRun, Crash, Claim
  <2>2. QED
    BY <2>1 DEF TypeOK
<1>2. CASE EndRun(w) \/ Crash(w)
  BY <1>1, <1>2 DEF EndRun, Crash, IdleWorker, Guarded, InTime, Agreed, settings
<1>3. CASE StartRun(w)
  BY <1>1, <1>3 DEF StartRun, Guarded, InTime, Agreed, settings, Run
<1>4. ASSUME NEW k \in Keys, Claim(w, k) PROVE Guarded'
  <2> DEFINE run == [worker[w] EXCEPT !.phase = "claimed", !.key = k,
                                      !.left = worker[w].left - 1,
                                      !.attempts = rows[k].attempts + 1,
                                      !.scheduledAt = rows[k].scheduledAt,
                                      !.expiresAt = rows[k].expiresAt,
                                      !.fresh = TRUE, !.unchanged = TRUE]
  <2>1. worker' = [worker EXCEPT ![w] = run]
    BY <1>4 DEF Claim
  <2>2. run.phase = "claimed" /\ run.now = worker[w].now
    BY <1>1 DEF Run
  <2>3. /\ worker'[w].phase = "claimed"
        /\ worker'[w].now = worker[w].now
        /\ \A v \in Workers \ {w} : worker'[v] = worker[v]
    BY <1>1, <2>1, <2>2
  <2>4. QED
    BY <1>1, <2>3 DEF Guarded, InTime, Agreed, settings
<1>5. QED
  BY <1>2, <1>3, <1>4

LEMMA SettingsGuarded ==
    ASSUME TypeOK, Guarded, SettingsStep
    PROVE  Guarded'
<1>1. worker' = [w \in Workers |-> [worker[w] EXCEPT !.unchanged = FALSE]] /\ UNCHANGED clock
  BY DEF SettingsStep, ChangeZone, FlipSwitch, ApproveConnection, CloseConnection, SetSubscription, EditItem, Changed
<1>2. worker \in [Workers -> Run]
  BY DEF TypeOK
<1>3. QED
  BY <1>1, <1>2 DEF Guarded, InTime, Agreed, Run

LEMMA GuardedStep == TypeOK /\ Guarded /\ [Next]_vars => Guarded'
<1> SUFFICES ASSUME TypeOK, Guarded, [Next]_vars PROVE Guarded'
  OBVIOUS
<1>1. CASE Prune
  BY <1>1 DEF Prune, Guarded, InTime, Agreed, settings
<1>2. CASE Tick
  <2>1. clock' >= clock /\ UNCHANGED <<settings, worker>>
    BY <1>2 DEF Tick, TypeOK
  <2>2. worker \in [Workers -> Run] /\ clock \in Nat /\ clock' \in Nat
    BY <1>2 DEF Tick, TypeOK
  <2>3. QED
    BY <2>1, <2>2 DEF Guarded, InTime, Agreed, settings, Run
<1>3. CASE UNCHANGED vars
  BY <1>3 DEF vars, settings, Guarded, InTime, Agreed
<1>4. QED
  BY <1>1, <1>2, <1>3, PlannerGuarded, DeliveryGuarded, RunGuarded, SettingsGuarded
     DEF Next, WorkerStep

LEMMA AlwaysGuarded == Spec => []Guarded
<1>1. Init => Guarded
  BY DEF Init, Guarded, InTime, Agreed, IdleWorker
<1>2. QED
  BY <1>1, TypeCorrect, GuardedStep, PTL DEF Spec

(* No run calls Telegram before the local send time of the lead day, in the   *)
(* zone it read, for any zones, any number of runs and any staleness of `now`. *)
THEOREM NeverEarlyCorrect == Spec => []NeverEarly
<1>1. TypeInv /\ Guarded => NeverEarly
  <2> SUFFICES ASSUME TypeInv, Guarded, NEW w \in Workers,
                      worker[w].phase \in {"current", "allowed", "answered"}
               PROVE  LET k == worker[w].key
                      IN  clock >= (k.date - k.lead) * DayLength + SendTime - worker[w].zone
    BY DEF NeverEarly
  <2> DEFINE k == worker[w].key
             now == worker[w].now
             day == LocalDate(now, worker[w].zone)
  <2>1. k \in Keys /\ now \in Int /\ worker[w].zone \in Int /\ clock \in Int
    BY DEF TypeInv, TypeOK, KeyHeld, Run
  <2>2. day \in Int /\ k.date \in Int /\ k.lead \in Int
    <3>1. day \in Int
      BY <2>1, TimeAssumption DEF LocalDate
    <3>2. k.date \in Dates /\ k.lead \in Leads
      BY <2>1 DEF Keys
    <3>3. (\A d \in Dates : d \in Int) /\ (\A l \in Leads : l \in Int)
      BY TimeAssumption
    <3>4. QED
      BY <3>1, <3>2, <3>3
  <2>3. day + k.lead = k.date /\ now <= clock
    BY DEF Guarded, InTime
  <2>4. k.date - k.lead = day
    BY <2>2, <2>3
  <2>5. now >= day * DayLength + SendTime - worker[w].zone
    BY DEF Guarded, InTime, Eligible, SendAt
  <2>6. day * DayLength \in Int /\ SendTime \in Int
    BY <2>2, TimeAssumption
  <2>7. QED
    BY <2>1, <2>2, <2>3, <2>4, <2>5, <2>6
<1>2. QED
  BY <1>1, AlwaysTyped, AlwaysGuarded, PTL

(* No run gets to send against a refusal that stands since its claim.         *)
THEOREM RefusalHonouredCorrect == Spec => []RefusalHonoured
<1>1. Guarded => RefusalHonoured
  BY DEF Guarded, Agreed, RefusalHonoured
<1>2. QED
  BY <1>1, AlwaysGuarded, PTL

-----------------------------------------------------------------------------
(* What was sent, and how often Telegram was called *)

(* Local midnight of the day a key is due, zone aside. *)
DayStart(k) == (k.date - k.lead) * DayLength

(* A tick lies in the day it is counted to. *)
LEMMA DivideDay ==
    ASSUME NEW t \in Int
    PROVE  /\ t \div DayLength \in Int
           /\ (t \div DayLength) * DayLength <= t
           /\ t < (t \div DayLength) * DayLength + DayLength
  BY TimeAssumption

(* Numbers of a key. *)
LEMMA KeyType ==
    ASSUME NEW k \in Keys
    PROVE  k.date \in Int /\ k.lead \in Int /\ DayStart(k) \in Int /\ DayLength \in Int /\ SendTime \in Int
<1>1. k.date \in Dates /\ k.lead \in Leads
  BY DEF Keys
<1>2. (\A d \in Dates : d \in Int) /\ (\A l \in Leads : l \in Int)
  BY TimeAssumption
<1>3. DayLength \in Int /\ SendTime \in Int
  BY TimeAssumption
<1>4. QED
  BY <1>1, <1>2, <1>3 DEF DayStart

(* The provers do not distribute over a product of two constants by themselves. *)
LEMMA NextDay ==
    ASSUME NEW day \in Int, NEW length \in Int
    PROVE  (day + 1) * length = day * length + length /\ day * length \in Int
  OBVIOUS

(* The window of a day in a zone, as a window planned on that day sees it. *)
LEMMA PlannedDay ==
    ASSUME NEW k \in Keys, NEW now \in Int, NEW z \in Zones, LocalDate(now, z) + k.lead = k.date
    PROVE  /\ SendAt(now, z) = DayStart(k) + SendTime - z
           /\ ExpiresAt(now, z) = DayStart(k) + DayLength - z
           /\ DayStart(k) <= now + z
           /\ now + z < DayStart(k) + DayLength
<1>1. z \in Int /\ now + z \in Int
  BY TimeAssumption
<1> DEFINE day == LocalDate(now, z)
<1>2. day \in Int /\ k.date \in Int /\ k.lead \in Int /\ DayLength \in Int
  BY <1>1, WindowType, KeyType
<1>3. day * DayLength <= now + z /\ now + z < day * DayLength + DayLength
  BY <1>1, DivideDay DEF LocalDate
<1>4. k.date - k.lead = day
  BY <1>2
<1>5. DayStart(k) = day * DayLength
  BY <1>4 DEF DayStart
<1>6. (day + 1) * DayLength = day * DayLength + DayLength /\ day * DayLength \in Int
  <2> HIDE DEF day
  <2>1. QED
    BY <1>2, NextDay
<1>7. SendAt(now, z) = DayStart(k) + SendTime - z
  BY <1>5 DEF SendAt
<1>8. ExpiresAt(now, z) = DayStart(k) + DayLength - z
  <2>1. ExpiresAt(now, z) = (day + 1) * DayLength - z
    BY DEF ExpiresAt
  <2> HIDE DEF day
  <2>2. QED
    BY <1>1, <1>2, <1>5, <1>6, <2>1
<1>9. QED
  BY <1>3, <1>5, <1>6, <1>7, <1>8

(* By t the send time of k's day has come in some zone. *)
Reached(k, t) == \E z \in Zones : DayStart(k) + SendTime - z <= t

(* k's day is over in every zone, for a planner run that is still going too. *)
Over(k) == \A z \in Zones : DayStart(k) + DayLength <= clock - PlanBound + z

(* Some run holds the delivery. *)
Held(k) == \E w \in Workers : Holds(w, k)

(* Two runs hold a delivery only if `overlap` says that they did. *)
Single(k) == \A v, w \in Workers : Holds(v, k) /\ Holds(w, k) => v = w \/ k \in overlap

(* Calls against attempts.  A fresh run that has yet to call has an attempt of *)
(* its own; a run whose row was reset meanwhile has none, but then nobody has  *)
(* claimed the row since, so that it has no attempt to give back either.       *)
Counted(k) ==
    k \notin overlap =>
        /\ rows[k].status # "none" => calls[k] <= rows[k].attempts
        /\ \A w \in Workers : Holds(w, k) =>
            /\ worker[w].fresh /\ worker[w].phase # "answered" /\ rows[k].status # "none" =>
                  calls[k] < rows[k].attempts
            /\ ~worker[w].fresh => rows[k].status # "inProgress"

(* Every time a row keeps is past the send time of its day in some zone. *)
RowDated(k) ==
    rows[k].status # "none" =>
        /\ Reached(k, rows[k].nextAttemptAt)
        /\ Reached(k, rows[k].expiresAt)
        /\ rows[k].status = "inProgress" => Reached(k, rows[k].claimedUntil)
        /\ rows[k].status \in Terminal => Reached(k, rows[k].updatedAt)

(* So is the `now` of a run that holds it. *)
RunsDated(k) ==
    \A w \in Workers : Holds(w, k) =>
        worker[w].phase \notin {"idle", "run"} /\ Reached(k, worker[w].now)

(* A row that is missing after a claim or a message was pruned late enough. *)
Gone(k) == rows[k].status = "none" /\ (sent[k] > 0 \/ Held(k)) => Over(k)

(* The run that holds the delivery has Telegram's acceptance in hand. *)
Answering(k) == \E w \in Workers : /\ Holds(w, k)
                                   /\ worker[w].phase = "answered"
                                   /\ worker[w].outcome = "done"

(* An accepted message that nothing went wrong with is the only one: its run   *)
(* is about to record it, or the row is DONE, or gone with its day.            *)
SentOnce(k) ==
    k \notin overlap \cup unrecorded /\ sent[k] > 0 =>
        /\ sent[k] = 1
        /\ Answering(k) \/ (rows[k].status \in {"none", "done"} /\ ~Held(k))

(* The inductive invariant, key by key. *)
Accounted(k) == /\ Single(k) /\ Counted(k) /\ RowDated(k) /\ RunsDated(k)
                /\ Gone(k) /\ SentOnce(k)

(* The planner's `now` is at most PlanBound old. *)
PlanDated == /\ planner.todo # {} => planner.on
             /\ planner.on => clock - PlanBound <= planner.now

(* A step leaves a run's part in a delivery alone. *)
Unmoved(v) == /\ worker'[v].key = worker[v].key
              /\ worker'[v].phase = worker[v].phase
              /\ worker'[v].now = worker[v].now
              /\ worker'[v].fresh = worker[v].fresh
              /\ worker'[v].outcome = worker[v].outcome

(* A step sends nothing for k and blames nobody. *)
MessageKept(k) == /\ sent'[k] = sent[k]
                  /\ k \in overlap' <=> k \in overlap
                  /\ k \in unrecorded' <=> k \in unrecorded

(* A step that does not concern k at all. *)
StillFor(k) ==
    /\ rows'[k] = rows[k]
    /\ calls'[k] = calls[k]
    /\ MessageKept(k)
    /\ \A v \in Workers : Holds(v, k) \/ worker'[v].key = k => Unmoved(v)

(* A time once reached stays reached. *)
LEMMA ReachedLater ==
    ASSUME NEW k \in Keys, NEW t \in Int, NEW u \in Int, Reached(k, t), t <= u
    PROVE  Reached(k, u)
<1>1. DayStart(k) \in Int /\ SendTime \in Int /\ \A z \in Zones : z \in Int
  BY KeyType, TimeAssumption
<1>2. QED
  BY <1>1 DEF Reached

(* What is old enough to be pruned is over: this is what the retention is for. *)
LEMMA PrunedIsOver ==
    ASSUME TypeOK, NEW k \in Keys, NEW t \in Int, Reached(k, t), t < clock - Retention
    PROVE  Over(k)
<1>1. PICK y \in Zones : DayStart(k) + SendTime - y <= t
  BY DEF Reached
<1> SUFFICES ASSUME NEW z \in Zones PROVE DayStart(k) + DayLength <= clock - PlanBound + z
  BY DEF Over
<1>2. DayStart(k) \in Int /\ SendTime \in Int /\ DayLength \in Int /\ y \in Int /\ z \in Int
  BY KeyType, TimeAssumption
<1>3. clock \in Int /\ Retention \in Int /\ PlanBound \in Int
  BY LimitAssumption DEF TypeOK
<1>4. DayLength - SendTime + (y - z) + PlanBound <= Retention + 1
  BY RetentionAssumption
<1>5. QED
  BY <1>1, <1>2, <1>3, <1>4

(* No planner run finds a key due whose day is over. *)
LEMMA OverIsNotDue ==
    ASSUME TypeOK, NEW k \in Keys, NEW now \in Int, NEW z \in Zones, Over(k),
           clock - PlanBound <= now
    PROVE  LocalDate(now, z) + k.lead # k.date
<1> SUFFICES ASSUME LocalDate(now, z) + k.lead = k.date PROVE FALSE
  OBVIOUS
<1>1. now + z < DayStart(k) + DayLength
  BY PlannedDay
<1>2. DayStart(k) + DayLength <= clock - PlanBound + z
  BY DEF Over
<1>3. DayStart(k) \in Int /\ DayLength \in Int /\ z \in Int
  BY KeyType, TimeAssumption
<1>4. clock \in Int /\ PlanBound \in Int
  BY LimitAssumption DEF TypeOK
<1>5. QED
  BY <1>1, <1>2, <1>3, <1>4

(* Once over, a day stays over. *)
LEMMA OverLater ==
    ASSUME TypeOK, TypeOK', NEW k \in Keys, Over(k), clock <= clock'
    PROVE  Over(k)'
<1>1. DayStart(k) \in Int /\ DayLength \in Int /\ \A z \in Zones : z \in Int
  BY KeyType, TimeAssumption
<1>2. clock \in Int /\ clock' \in Int /\ PlanBound \in Int
  BY LimitAssumption DEF TypeOK
<1>3. QED
  BY <1>1, <1>2 DEF Over

(* Steps that do not concern k keep its account. *)
LEMMA Calm ==
    ASSUME TypeOK, TypeOK', NEW k \in Keys, Accounted(k), StillFor(k), clock <= clock'
    PROVE  Accounted(k)'
<1>1. ASSUME NEW v \in Workers PROVE worker'[v].key = k <=> Holds(v, k)
  BY DEF StillFor, Unmoved, Holds
<1>2. ASSUME NEW v \in Workers, Holds(v, k) PROVE Unmoved(v)
  BY <1>2 DEF StillFor
<1>3. Held(k)' <=> Held(k)
  BY <1>1 DEF Held, Holds
<1>4. Answering(k)' <=> Answering(k)
  BY <1>1, <1>2 DEF Answering, Holds, Unmoved
<1>5. Single(k)' /\ Counted(k)'
  BY <1>1, <1>2 DEF Accounted, Single, Counted, StillFor, MessageKept, Holds, Unmoved
<1>6. RowDated(k)'
  BY DEF Accounted, RowDated, StillFor, Reached
<1>7. RunsDated(k)'
  BY <1>1, <1>2 DEF Accounted, RunsDated, Holds, Unmoved, Reached
<1>8. Gone(k)'
  BY <1>3, OverLater DEF Accounted, Gone, StillFor, MessageKept
<1>9. SentOnce(k)'
  BY <1>3, <1>4 DEF Accounted, SentOnce, StillFor, MessageKept
<1>10. QED
  BY <1>5, <1>6, <1>7, <1>8, <1>9 DEF Accounted

(* A run that lets go of its delivery, and what it leaves in the row. *)
LetGo(w, k) ==
    /\ worker'[w].key = NoKey
    /\ \A v \in Workers \ {w} : Unmoved(v)
    /\ MessageKept(k)
    /\ calls'[k] = calls[k]
    /\ UNCHANGED clock

(* What the run that lets go of k may leave in the row. *)
WrittenBy(w, k) ==
    /\ rows'[k].status = "none" <=> rows[k].status = "none"
    /\ rows[k].status # "none" =>
        /\ rows'[k].status # "inProgress"
        /\ rows'[k].expiresAt = rows[k].expiresAt
        /\ Reached(k, rows'[k].nextAttemptAt)
        /\ rows'[k].status \in Terminal => Reached(k, rows'[k].updatedAt)
        /\ k \notin overlap => calls[k] <= rows'[k].attempts
    /\ k \notin overlap \cup unrecorded /\ sent[k] > 0 => rows'[k].status \in {"none", "done"}

(* Without overlap the run that holds a delivery is the only one. *)
LEMMA Alone ==
    ASSUME NEW k \in Keys, NEW w \in Workers, Accounted(k), Holds(w, k),
           k \notin overlap \cup unrecorded, sent[k] > 0
    PROVE  worker[w].phase = "answered" /\ worker[w].outcome = "done"
  BY DEF Accounted, Single, SentOnce, Held, Answering

(* Letting go keeps the account, whatever of this the run has written. *)
LEMMA EndAccounted ==
    ASSUME TypeOK, TypeOK', NEW k \in Keys, NEW w \in Workers, Accounted(k), Holds(w, k),
           LetGo(w, k), WrittenBy(w, k)
    PROVE  Accounted(k)'
<1>1. NoKey # k
  BY NoKeyAssumption
<1>2. ASSUME NEW v \in Workers PROVE worker'[v].key = k <=> (Holds(v, k) /\ v # w)
  BY <1>1 DEF LetGo, Unmoved, Holds
<1>3. ASSUME NEW v \in Workers, v # w, Holds(v, k) PROVE Unmoved(v) /\ k \in overlap
  BY <1>3 DEF LetGo, Accounted, Single
<1>4. Held(k)
  BY DEF Held
<1>5. Held(k)' => k \in overlap
  BY <1>2, <1>3 DEF Held, Holds
<1>6. Single(k)'
  BY <1>2, <1>3 DEF Accounted, Single, LetGo, MessageKept, Holds
<1>7. Counted(k)'
  BY <1>2, <1>3, <1>5 DEF Accounted, Counted, LetGo, MessageKept, WrittenBy, Holds, Held
<1>8. RowDated(k)'
  BY DEF Accounted, RowDated, WrittenBy, Reached
<1>9. RunsDated(k)'
  BY <1>2, <1>3 DEF Accounted, RunsDated, Unmoved, Holds, Reached
<1>10. Gone(k)'
  BY <1>4, OverLater DEF Accounted, Gone, WrittenBy, LetGo, TypeOK
<1>11. SentOnce(k)'
  BY <1>5 DEF Accounted, SentOnce, WrittenBy, LetGo, MessageKept
<1>12. QED
  BY <1>6, <1>7, <1>8, <1>9, <1>10, <1>11 DEF Accounted

(* The three ways of writing a row at the end of a delivery are such writes. *)
LEMMA MarkWritten ==
    ASSUME TypeOK, NEW k \in Keys, NEW w \in Workers, Accounted(k), Holds(w, k),
           NEW s \in Terminal, rows'[k] = Marked(rows[k], s, worker[w].now),
           worker[w].phase = "answered" /\ worker[w].outcome = "done" => s = "done"
    PROVE  WrittenBy(w, k)
<1>1. rows[k] \in Row
  BY DEF TypeOK
<1>2. CASE rows[k].status = "none"
  BY <1>2 DEF Marked, WrittenBy
<1>3. CASE rows[k].status # "none"
  <2>1. /\ rows'[k].status = s /\ rows'[k].updatedAt = worker[w].now
        /\ rows'[k].expiresAt = rows[k].expiresAt
        /\ rows'[k].nextAttemptAt = rows[k].nextAttemptAt
        /\ rows'[k].attempts = rows[k].attempts
    BY <1>1, <1>3 DEF Marked, Row
  <2>2. s # "none" /\ s # "inProgress"
    BY DEF Terminal
  <2>3. Reached(k, worker[w].now) /\ Reached(k, rows[k].nextAttemptAt)
    BY <1>3 DEF Accounted, RunsDated, RowDated
  <2>4. k \notin overlap => calls[k] <= rows[k].attempts
    BY <1>3 DEF Accounted, Counted
  <2>5. k \notin overlap \cup unrecorded /\ sent[k] > 0 => s = "done"
    BY Alone
  <2>6. QED
    BY <1>3, <2>1, <2>2, <2>3, <2>4, <2>5 DEF WrittenBy
<1>4. QED
  BY <1>2, <1>3

LEMMA RetryWritten ==
    ASSUME TypeOK, NEW k \in Keys, NEW w \in Workers, Accounted(k), Holds(w, k),
           NEW next \in Int, worker[w].now <= next,
           rows'[k] = RetriedRow(rows[k], worker[w].now, next),
           worker[w].outcome # "done"
    PROVE  WrittenBy(w, k)
<1>1. rows[k] \in Row /\ worker[w].now \in Int
  BY DEF TypeOK, Run
<1>2. k \notin overlap \cup unrecorded /\ sent[k] > 0 => FALSE
  BY Alone
<1>3. CASE rows[k].status = "none"
  BY <1>2, <1>3 DEF RetriedRow, WrittenBy
<1>4. CASE rows[k].status # "none"
  <2>1. /\ rows'[k].status = "retry"
        /\ rows'[k].expiresAt = rows[k].expiresAt
        /\ rows'[k].nextAttemptAt = next
        /\ rows'[k].attempts = rows[k].attempts
    BY <1>1, <1>4 DEF RetriedRow, Row
  <2>2. Reached(k, next)
    BY <1>1, ReachedLater DEF Accounted, RunsDated
  <2>3. k \notin overlap => calls[k] <= rows[k].attempts
    BY <1>4 DEF Accounted, Counted
  <2>4. QED
    BY <1>2, <1>4, <2>1, <2>2, <2>3 DEF WrittenBy, Terminal
<1>5. QED
  BY <1>3, <1>4

LEMMA DeferWritten ==
    ASSUME TypeOK, NEW k \in Keys, NEW w \in Workers, Accounted(k), Holds(w, k),
           NEW next \in Int, worker[w].now <= next,
           rows'[k] = DeferredRow(rows[k], worker[w].now, next),
           worker[w].phase # "answered"
    PROVE  WrittenBy(w, k)
<1>1. /\ rows[k] \in Row /\ worker[w].now \in Int /\ calls[k] \in Int
      /\ rows[k].attempts \in 0..MaxAttempts /\ MaxAttempts \in Nat
  BY LimitAssumption DEF TypeOK, Run, Row
<1>2. k \notin overlap \cup unrecorded /\ sent[k] > 0 => FALSE
  BY Alone
<1>3. CASE rows[k].status # "inProgress"
  <2>1. rows'[k] = rows[k]
    BY <1>3 DEF DeferredRow
  <2>2. QED
    BY <1>2, <1>3, <2>1 DEF WrittenBy, Accounted, Counted, RowDated
<1>4. CASE rows[k].status = "inProgress"
  <2>1. /\ rows'[k].status = "retry"
        /\ rows'[k].expiresAt = rows[k].expiresAt
        /\ rows'[k].nextAttemptAt = next
        /\ rows'[k].attempts = IF rows[k].attempts > 0 THEN rows[k].attempts - 1 ELSE 0
    BY <1>1, <1>4 DEF DeferredRow, Row
  <2>2. Reached(k, next)
    BY <1>1, ReachedLater DEF Accounted, RunsDated
  <2>3. k \notin overlap => calls[k] < rows[k].attempts
    BY <1>4 DEF Accounted, Counted
  <2>4. k \notin overlap => calls[k] <= rows'[k].attempts
    BY <1>1, <2>1, <2>3
  <2>5. QED
    BY <1>2, <1>4, <2>1, <2>2, <2>4 DEF WrittenBy, Terminal
<1>5. QED
  BY <1>3, <1>4

(* Finish is letting go of the run's own key, and nothing to any other. *)
LEMMA FinishLetsGo ==
    ASSUME TypeOK, NEW k \in Keys, NEW w \in Workers, NEW row, Holds(w, k), Finish(w, row),
           UNCHANGED <<clock, sent, overlap, unrecorded>>
    PROVE  LetGo(w, k) /\ rows'[k] = row
<1>1. Released(w).key = NoKey
  BY DEF Released, IdleWorker
<1>2. worker \in [Workers -> Run] /\ rows \in [Keys -> Row]
  BY DEF TypeOK
<1>3. QED
  BY <1>1, <1>2 DEF Finish, LetGo, Unmoved, MessageKept, Holds

LEMMA FinishElsewhere ==
    ASSUME TypeOK, NEW k \in Keys, NEW w \in Workers, NEW row, ~Holds(w, k), Finish(w, row),
           UNCHANGED <<sent, overlap, unrecorded>>
    PROVE  StillFor(k)
<1>1. Released(w).key = NoKey /\ NoKey # k
  BY NoKeyAssumption DEF Released, IdleWorker
<1>2. worker \in [Workers -> Run] /\ rows \in [Keys -> Row]
  BY DEF TypeOK
<1>3. QED
  BY <1>1, <1>2 DEF Finish, StillFor, Unmoved, MessageKept, Holds

(* A step that calls no one, for all keys. *)
MessagesKept == UNCHANGED <<clock, sent, overlap, unrecorded>>

(* The steps that end a delivery, on its own key and on any other. *)
LEMMA FinishMarkedAccounted ==
    ASSUME TypeOK, TypeOK', NEW k \in Keys, NEW w \in Workers, Accounted(k), NEW s \in Terminal,
           FinishMarked(w, s), MessagesKept,
           worker[w].phase = "answered" /\ worker[w].outcome = "done" => s = "done"
    PROVE  Accounted(k)'
<1>1. CASE Holds(w, k)
  <2>1. LetGo(w, k) /\ rows'[k] = Marked(rows[k], s, worker[w].now)
    BY <1>1, FinishLetsGo DEF FinishMarked, Holds, MessagesKept
  <2>2. QED
    BY <1>1, <2>1, MarkWritten, EndAccounted
<1>2. CASE ~Holds(w, k)
  <2>1. StillFor(k)
    BY <1>2, FinishElsewhere DEF FinishMarked, MessagesKept
  <2>2. QED
    BY <2>1, Calm DEF MessagesKept, TypeOK
<1>3. QED
  BY <1>1, <1>2

LEMMA DeferAccounted ==
    ASSUME TypeOK, TypeOK', NEW k \in Keys, NEW w \in Workers, Accounted(k), Defer(w),
           MessagesKept, worker[w].phase # "answered"
    PROVE  Accounted(k)'
<1> DEFINE next == worker[w].now + RetryInterval
<1>1. next \in Int /\ worker[w].now <= next
  BY LimitAssumption DEF TypeOK, Run
<1>2. CASE next >= worker[w].expiresAt
  <2>1. FinishMarked(w, "expired")
    BY <1>2 DEF Defer
  <2>2. QED
    BY <2>1, FinishMarkedAccounted DEF Terminal
<1>3. CASE ~(next >= worker[w].expiresAt)
  <2>1. Finish(w, DeferredRow(rows[worker[w].key], worker[w].now, next))
    BY <1>3 DEF Defer
  <2>2. CASE Holds(w, k)
    <3>1. LetGo(w, k) /\ rows'[k] = DeferredRow(rows[k], worker[w].now, next)
      BY <2>1, <2>2, FinishLetsGo DEF Holds, MessagesKept
    <3>2. QED
      BY <1>1, <2>2, <3>1, DeferWritten, EndAccounted
  <2>3. CASE ~Holds(w, k)
    <3>1. StillFor(k)
      BY <2>1, <2>3, FinishElsewhere DEF MessagesKept
    <3>2. QED
      BY <3>1, Calm DEF MessagesKept, TypeOK
  <2>4. QED
    BY <2>2, <2>3
<1>4. QED
  BY <1>2, <1>3

LEMMA RetryOrFinishAccounted ==
    ASSUME TypeOK, TypeOK', NEW k \in Keys, NEW w \in Workers, Accounted(k), RetryOrFinish(w),
           MessagesKept, worker[w].outcome = "retry"
    PROVE  Accounted(k)'
<1> DEFINE after == worker[w].retryAfter
           next == worker[w].now + IF after > RetryInterval THEN after ELSE RetryInterval
<1>1. next \in Int /\ worker[w].now <= next
  BY LimitAssumption DEF TypeOK, Run
<1>2. CASE worker[w].attempts >= MaxAttempts
  <2>1. FinishMarked(w, "failed")
    BY <1>2 DEF RetryOrFinish
  <2>2. QED
    BY <2>1, FinishMarkedAccounted DEF Terminal
<1>3. CASE ~(worker[w].attempts >= MaxAttempts) /\ next >= worker[w].expiresAt
  <2>1. FinishMarked(w, "expired")
    BY <1>3 DEF RetryOrFinish
  <2>2. QED
    BY <2>1, FinishMarkedAccounted DEF Terminal
<1>4. CASE ~(worker[w].attempts >= MaxAttempts) /\ ~(next >= worker[w].expiresAt)
  <2>1. Finish(w, RetriedRow(rows[worker[w].key], worker[w].now, next))
    BY <1>4 DEF RetryOrFinish
  <2>2. CASE Holds(w, k)
    <3>1. LetGo(w, k) /\ rows'[k] = RetriedRow(rows[k], worker[w].now, next)
      BY <2>1, <2>2, FinishLetsGo DEF Holds, MessagesKept
    <3>2. QED
      BY <1>1, <2>2, <3>1, RetryWritten, EndAccounted
  <2>3. CASE ~Holds(w, k)
    <3>1. StillFor(k)
      BY <2>1, <2>3, FinishElsewhere DEF MessagesKept
    <3>2. QED
      BY <3>1, Calm DEF MessagesKept, TypeOK
  <2>4. QED
    BY <2>2, <2>3
<1>5. QED
  BY <1>2, <1>3, <1>4

(* A run after a reset of its row: all it knows but its claim is out of date. *)
Stale(v) == /\ worker'[v].phase = worker[v].phase
            /\ worker'[v].now = worker[v].now
            /\ worker'[v].outcome = worker[v].outcome
            /\ ~worker'[v].fresh

(* Setting a row back to PENDING on its day keeps the account. *)
LEMMA ResetAccounted ==
    ASSUME TypeOK, NEW k \in Keys, Accounted(k), NEW now \in Int,
           LocalDate(now, zone) + k.lead = k.date,
           rows'[k] = PendingRow(now, SendAt(now, zone), ExpiresAt(now, zone)),
           calls'[k] = 0, MessageKept(k),
           \A v \in Workers : worker'[v].key = k => Holds(v, k) /\ Stale(v),
           k \notin overlap \cup unrecorded /\ sent[k] > 0 => Answering(k)'
    PROVE  Accounted(k)'
<1>1. /\ rows'[k].status = "pending" /\ rows'[k].attempts = 0
      /\ rows'[k].nextAttemptAt = SendAt(now, zone) /\ rows'[k].expiresAt = ExpiresAt(now, zone)
  BY DEF PendingRow
<1>2. Single(k)'
  BY DEF Accounted, Single, MessageKept, Holds
<1>3. Counted(k)'
  BY <1>1 DEF Counted, Holds, Stale
<1>4. RowDated(k)'
  <2>1. zone \in Zones /\ zone \in Int
    BY TimeAssumption DEF TypeOK
  <2>2. /\ SendAt(now, zone) = DayStart(k) + SendTime - zone
        /\ ExpiresAt(now, zone) = DayStart(k) + DayLength - zone
    BY <2>1, PlannedDay
  <2>3. DayStart(k) \in Int /\ SendTime <= DayLength /\ SendTime \in Int /\ DayLength \in Int
    BY KeyType, TimeAssumption
  <2>4. Reached(k, SendAt(now, zone)) /\ Reached(k, ExpiresAt(now, zone))
    BY <2>1, <2>2, <2>3 DEF Reached
  <2>5. QED
    BY <1>1, <2>4 DEF RowDated, Terminal, Reached
<1>5. RunsDated(k)'
  BY DEF Accounted, RunsDated, Stale, Holds, Reached
<1>6. Gone(k)'
  BY <1>1 DEF Gone
<1>7. SentOnce(k)'
  BY DEF Accounted, SentOnce, MessageKept
<1>8. QED
  BY <1>2, <1>3, <1>4, <1>5, <1>6, <1>7 DEF Accounted

(* A run keeps its part in a delivery through a reset, but for its freshness. *)
LEMMA OutdatedRun ==
    ASSUME TypeOK, NEW v \in Workers, NEW K, worker'[v] = Outdated(v, K)
    PROVE  /\ worker'[v].key = worker[v].key
           /\ worker[v].key \in K => Stale(v)
           /\ worker[v].key \notin K => Unmoved(v)
  BY ZenonT(60) DEF TypeOK, Run, Outdated, Stale, Unmoved

(* The planner never resets a DONE row, nor one that was pruned after its day. *)
LEMMA PlanAccounted ==
    ASSUME TypeOK, TypeOK', NEW k \in Keys, Accounted(k), PlanDated,
           NEW r \in planner.todo, PlanRecipient(r)
    PROVE  Accounted(k)'
<1> DEFINE now == planner.now
           sendAt == SendAt(now, zone)
           expiresAt == ExpiresAt(now, zone)
           K == {j \in DueKeys(r, now, zone) : Replannable(rows[j], sendAt, expiresAt)}
<1>1. /\ rows' = [j \in Keys |-> IF j \in K THEN PendingRow(now, sendAt, expiresAt) ELSE rows[j]]
      /\ calls' = [j \in Keys |-> IF j \in K THEN 0 ELSE calls[j]]
      /\ worker' = [w \in Workers |-> Outdated(w, K)]
      /\ UNCHANGED <<clock, sent, overlap, unrecorded>>
  BY DEF PlanRecipient, Reset
<1>2. now \in Int /\ zone \in Zones /\ clock - PlanBound <= now
  BY DEF TypeOK, Plan, PlanDated
<1>3. ASSUME NEW v \in Workers
      PROVE  /\ worker'[v].key = worker[v].key
             /\ worker[v].key \in K => Stale(v)
             /\ worker[v].key \notin K => Unmoved(v)
  <2> HIDE DEF K
  <2>1. QED
    BY <1>1, OutdatedRun
<1>4. CASE k \notin K
  <2> HIDE DEF K, sendAt, expiresAt
  <2>1. StillFor(k)
    BY <1>1, <1>3, <1>4 DEF StillFor, MessageKept, Holds
  <2>2. clock <= clock'
    BY <1>1 DEF TypeOK
  <2>3. QED
    BY <2>1, <2>2, Calm
<1>5. CASE k \in K
  <2>1. LocalDate(now, zone) + k.lead = k.date
    BY <1>5 DEF DueKeys
  <2>2. rows[k].status # "done" /\ (rows[k].status = "none" => ~Over(k))
    BY <1>2, <1>5, <2>1, OverIsNotDue DEF Replannable
  <2>3. \A v \in Workers : worker'[v].key = k <=> Holds(v, k)
    BY <1>3 DEF Holds
  <2>4. \A v \in Workers : Holds(v, k) => Stale(v)
    BY <1>3, <1>5 DEF Holds
  <2>5. k \notin overlap \cup unrecorded /\ sent[k] > 0 => Answering(k)'
    <3> SUFFICES ASSUME k \notin overlap \cup unrecorded, sent[k] > 0 PROVE Answering(k)'
      OBVIOUS
    <3>1. Answering(k)
      BY <2>2 DEF Accounted, SentOnce, Gone
    <3>2. QED
      BY <2>3, <2>4, <3>1 DEF Answering, Holds, Stale
  <2>6. rows'[k] = PendingRow(now, sendAt, expiresAt) /\ calls'[k] = 0 /\ MessageKept(k)
    <3> HIDE DEF K, sendAt, expiresAt
    <3>1. QED
      BY <1>1, <1>5 DEF MessageKept
  <2>7. QED
    BY <1>2, <2>1, <2>3, <2>4, <2>5, <2>6, ResetAccounted
<1>6. QED
  BY <1>4, <1>5

(* reschedule resets the row only while it is the claim of a run. *)
LEMMA RescheduleAccounted ==
    ASSUME TypeOK, TypeOK', NEW k \in Keys, NEW w \in Workers, Accounted(k), Reschedule(w),
           SameDay(w), MessagesKept, worker[w].phase = "claimed"
    PROVE  Accounted(k)'
<1> DEFINE j == worker[w].key
           now == worker[w].now
           K == IF rows[j].status = "inProgress" THEN {j} ELSE {}
           row == PendingRow(now, SendAt(now, zone), ExpiresAt(now, zone))
<1>1. /\ rows' = [i \in Keys |-> IF i \in K THEN row ELSE rows[i]]
      /\ calls' = [i \in Keys |-> IF i \in K THEN 0 ELSE calls[i]]
      /\ worker' = [v \in Workers |-> IF v = w THEN Released(w) ELSE Outdated(v, K)]
  BY DEF Reschedule, Reset
<1>2. UNCHANGED <<clock, sent, overlap, unrecorded>> /\ MessageKept(k)
  BY DEF MessagesKept, MessageKept
<1>3. worker'[w].key = NoKey /\ NoKey # k
  BY <1>1, NoKeyAssumption DEF Released, IdleWorker
<1>4. ASSUME NEW v \in Workers, v # w
      PROVE  /\ worker'[v].key = worker[v].key
             /\ worker[v].key \in K => Stale(v)
             /\ worker[v].key \notin K => Unmoved(v)
  <2>1. worker'[v] = Outdated(v, K)
    BY <1>1, <1>4
  <2> HIDE DEF K
  <2>2. QED
    BY <2>1, OutdatedRun
<1>5. CASE k \in K
  <2>1. Holds(w, k) /\ LocalDate(now, zone) + k.lead = k.date
    BY <1>5 DEF SameDay, Holds
  <2>2. rows'[k] = row /\ calls'[k] = 0
    <3> HIDE DEF K, row
    <3>1. QED
      BY <1>1, <1>5
  <2>3. \A v \in Workers : worker'[v].key = k => Holds(v, k) /\ Stale(v)
    BY <1>3, <1>4, <1>5 DEF Holds
  <2>4. ~(k \notin overlap \cup unrecorded /\ sent[k] > 0)
    BY <2>1, Alone
  <2>5. now \in Int
    BY DEF TypeOK, Run
  <2>6. QED
    BY <1>2, <2>1, <2>2, <2>3, <2>4, <2>5, ResetAccounted
<1>6. CASE k \notin K
  <2>1. rows'[k] = rows[k] /\ calls'[k] = calls[k]
    <3> HIDE DEF K, row
    <3>1. QED
      BY <1>1, <1>6
  <2>2. clock <= clock'
    BY <1>2 DEF TypeOK
  <2>3. CASE ~Holds(w, k)
    <3>1. StillFor(k)
      BY <1>2, <1>3, <1>4, <1>6, <2>1, <2>3 DEF StillFor, Holds
    <3>2. QED
      BY <2>2, <3>1, Calm
  <2>4. CASE Holds(w, k)
    <3>1. K = {} /\ rows[k].status # "inProgress"
      BY <1>6, <2>4 DEF Holds
    <3>2. LetGo(w, k)
      BY <1>2, <1>3, <1>4, <2>1, <3>1 DEF LetGo
    <3>3. WrittenBy(w, k)
      <4>1. ~(k \notin overlap \cup unrecorded /\ sent[k] > 0)
        BY <2>4, Alone
      <4>2. QED
        BY <2>1, <3>1, <4>1 DEF WrittenBy, Accounted, Counted, RowDated
    <3>4. QED
      BY <2>4, <3>2, <3>3, EndAccounted
  <2>5. QED
    BY <2>3, <2>4
<1>7. QED
  BY <1>5, <1>6

(* A claim takes an attempt, and finds no row whose message has gone out. *)
LEMMA ClaimAccounted ==
    ASSUME TypeInv, TypeOK', NEW k \in Keys, NEW w \in Workers, Accounted(k),
           NEW j \in Keys, Claim(w, j)
    PROVE  Accounted(k)'
<1>1. /\ TypeOK /\ worker[w].phase = "run" /\ Claimable(rows[j], worker[w].now)
      /\ UNCHANGED <<clock, sent, calls, unrecorded>>
      /\ overlap' = IF \E v \in Workers \ {w} : Holds(v, j) THEN overlap \cup {j} ELSE overlap
  BY DEF Claim, TypeInv
<1>2. /\ worker[w] \in Run /\ worker \in [Workers -> Run]
      /\ rows[k] \in Row /\ rows \in [Keys -> Row] /\ clock \in Int
      /\ ClaimLease \in Int /\ ClaimLease >= 0
  BY <1>1, LimitAssumption DEF TypeOK
<1>3. /\ worker'[w].key = j /\ worker'[w].phase = "claimed" /\ worker'[w].now = worker[w].now
      /\ \A v \in Workers \ {w} : worker'[v] = worker[v]
  BY <1>2 DEF Claim, Run
<1>4. ~Holds(w, k)
  BY <1>1 DEF Accounted, RunsDated
<1>5. CASE j # k
  <2>1. StillFor(k)
    BY <1>1, <1>2, <1>3, <1>4, <1>5 DEF StillFor, MessageKept, Holds, Unmoved, Claim
  <2>2. QED
    BY <1>1, <1>2, <2>1, Calm
<1>6. CASE j = k
  <2>1. /\ rows'[k].status = "inProgress"
        /\ rows'[k].attempts = rows[k].attempts + 1
        /\ rows'[k].claimedUntil = worker[w].now + ClaimLease
        /\ rows'[k].nextAttemptAt = rows[k].nextAttemptAt
        /\ rows'[k].expiresAt = rows[k].expiresAt
    BY <1>2, <1>6 DEF Claim, Row
  <2>2. rows[k].status \in {"pending", "retry", "inProgress"}
    BY <1>1, <1>6 DEF Claimable
  <2>3. \A v \in Workers : worker'[v].key = k <=> (Holds(v, k) \/ v = w)
    BY <1>3, <1>6 DEF Holds
  <2>4. ASSUME NEW v \in Workers, Holds(v, k) PROVE k \in overlap' /\ worker'[v] = worker[v]
    BY <1>1, <1>3, <1>4, <1>6, <2>4
  <2>5. overlap \subseteq overlap'
    BY <1>1
  <2>6. Reached(k, worker[w].now) /\ Reached(k, rows[k].nextAttemptAt)
        /\ Reached(k, rows[k].expiresAt)
    <3>1. /\ worker[w].now \in Int /\ rows[k].nextAttemptAt \in Int
          /\ rows[k].claimedUntil \in Int
      BY <1>2 DEF Run, Row
    <3>2. \/ rows[k].nextAttemptAt <= worker[w].now
          \/ rows[k].status = "inProgress" /\ rows[k].claimedUntil <= worker[w].now
      BY <1>1, <1>6 DEF Claimable
    <3>3. QED
      BY <2>2, <3>1, <3>2, ReachedLater DEF Accounted, RowDated
  <2>7. Single(k)'
    BY <2>3, <2>4 DEF Single, Holds
  <2>8. Counted(k)'
    <3> SUFFICES ASSUME k \notin overlap'
                 PROVE  /\ calls'[k] <= rows'[k].attempts
                        /\ \A v \in Workers : worker'[v].key = k =>
                              calls'[k] < rows'[k].attempts /\ worker'[v].fresh
      BY DEF Counted, Holds
    <3>1. \A v \in Workers : worker'[v].key = k => v = w
      BY <2>3, <2>4
    <3>2. worker'[w].fresh
      BY <1>2 DEF Claim, Run
    <3>3. calls[k] <= rows[k].attempts /\ calls[k] \in Int /\ rows[k].attempts \in Int
      BY <1>1, <1>2, <2>2, <2>5 DEF Accounted, Counted, TypeOK, Row
    <3>4. QED
      BY <1>1, <2>1, <3>1, <3>2, <3>3
  <2>9. RowDated(k)'
    <3>1. Reached(k, worker[w].now + ClaimLease)
      BY <1>2, <2>6, ReachedLater DEF Run
    <3>2. QED
      BY <2>1, <2>6, <3>1 DEF RowDated, Terminal, Reached
  <2>10. RunsDated(k)'
    <3> SUFFICES ASSUME NEW v \in Workers, worker'[v].key = k
                 PROVE  /\ worker'[v].phase \notin {"idle", "run"}
                        /\ Reached(k, worker'[v].now)
      BY DEF RunsDated, Holds, Reached
    <3>1. CASE v = w
      BY <1>3, <2>6, <3>1
    <3>2. CASE v # w
      BY <2>3, <2>4, <3>2 DEF Accounted, RunsDated
    <3>3. QED
      BY <3>1, <3>2
  <2>11. Gone(k)'
    BY <2>1 DEF Gone
  <2>12. SentOnce(k)'
    BY <1>1, <2>2, <2>4, <2>5 DEF Accounted, SentOnce, Answering
  <2>13. QED
    BY <2>7, <2>8, <2>9, <2>10, <2>11, <2>12 DEF Accounted
<1>7. QED
  BY <1>5, <1>6

(* A run that goes on to its next phase writes nothing. *)
GoesOn(w, phase) ==
    /\ worker'[w].phase = phase
    /\ worker'[w].key = worker[w].key
    /\ worker'[w].now = worker[w].now
    /\ worker'[w].fresh = worker[w].fresh
    /\ \A v \in Workers \ {w} : worker'[v] = worker[v]

(* Going on to the next check keeps the account. *)
LEMMA GoesOnAccounted ==
    ASSUME TypeOK, TypeOK', NEW k \in Keys, NEW w \in Workers, Accounted(k),
           NEW phase \in {"resolved", "current", "allowed"}, GoesOn(w, phase),
           MessagesKept, UNCHANGED <<rows, calls>>, worker[w].phase # "answered"
    PROVE  Accounted(k)'
<1>1. MessageKept(k) /\ clock <= clock'
  BY DEF MessagesKept, MessageKept, TypeOK
<1>2. CASE ~Holds(w, k)
  <2>1. StillFor(k)
    BY <1>1, <1>2 DEF StillFor, GoesOn, Unmoved, Holds
  <2>2. QED
    BY <1>1, <2>1, Calm
<1>3. CASE Holds(w, k)
  <2>1. \A v \in Workers : worker'[v].key = k <=> Holds(v, k)
    BY DEF GoesOn, Holds
  <2>2. ~(k \notin overlap \cup unrecorded /\ sent[k] > 0)
    BY <1>3, Alone
  <2>3. Held(k)' <=> Held(k)
    BY <2>1 DEF Held, Holds
  <2>4. Single(k)' /\ Counted(k)'
    BY <2>1, <1>1, <1>3 DEF Accounted, Single, Counted, GoesOn, MessageKept, Holds
  <2>5. RowDated(k)'
    BY DEF Accounted, RowDated, Reached
  <2>6. RunsDated(k)'
    BY <2>1 DEF Accounted, RunsDated, GoesOn, Holds, Reached
  <2>7. Gone(k)'
    BY <1>1, <2>3, OverLater DEF Accounted, Gone, MessageKept
  <2>8. SentOnce(k)'
    BY <1>1, <2>2 DEF SentOnce, MessageKept
  <2>9. QED
    BY <2>4, <2>5, <2>6, <2>7, <2>8 DEF Accounted
<1>4. QED
  BY <1>2, <1>3

(* The call: the only step that adds to what was sent, and to the calls. *)
LEMMA SendAccounted ==
    ASSUME TypeInv, TypeOK', NEW k \in Keys, NEW w \in Workers, Accounted(k), Send(w)
    PROVE  Accounted(k)'
<1> DEFINE j == worker[w].key
<1>1. TypeOK /\ worker[w].phase = "allowed" /\ UNCHANGED <<clock, rows, overlap>>
  BY DEF Send, TypeInv
<1>2. /\ worker[w] \in Run /\ worker \in [Workers -> Run] /\ j \in Keys /\ clock <= clock'
      /\ sent \in [Keys -> 0..2] /\ calls \in [Keys -> Nat]
  BY <1>1 DEF TypeOK, TypeInv, KeyHeld
<1>3. PICK outcome, after : worker' = [worker EXCEPT ![w].phase = "answered",
                                        ![w].outcome = outcome, ![w].retryAfter = after]
  BY DEF Send
<1>4. GoesOn(w, "answered")
  BY <1>2, <1>3 DEF GoesOn, Run
<1>5. calls' = IF worker[w].fresh THEN [calls EXCEPT ![j] = @ + 1] ELSE calls
  BY DEF Send, Called
<1>6. \/ sent' = sent /\ unrecorded' = unrecorded
      \/ sent' = Accepted(j) /\ unrecorded' = unrecorded \cup {j}
      \/ sent' = Accepted(j) /\ unrecorded' = unrecorded /\ worker'[w].outcome = "done"
  BY <1>2 DEF Send, Run
<1> HIDE DEF j
<1>7. CASE j # k
  <2>1. sent'[k] = sent[k] /\ calls'[k] = calls[k] /\ (k \in unrecorded' <=> k \in unrecorded)
    BY <1>2, <1>5, <1>6, <1>7 DEF Accepted
  <2>2. StillFor(k)
    BY <1>1, <1>4, <1>7, <2>1 DEF StillFor, MessageKept, GoesOn, Unmoved, Holds, j
  <2>3. QED
    BY <1>1, <1>2, <2>2, Calm
<1>8. CASE j = k
  <2>1. Holds(w, k)
    BY <1>8 DEF j, Holds
  <2>2. \A v \in Workers : worker'[v].key = k <=> Holds(v, k)
    BY <1>4 DEF GoesOn, Holds
  <2>3. unrecorded \subseteq unrecorded'
    BY <1>6
  <2>4. k \notin overlap \cup unrecorded' => sent[k] = 0
    BY <1>1, <1>2, <2>1, <2>3, Alone
  <2>5. Single(k)'
    BY <1>1, <2>2 DEF Accounted, Single, Holds
  <2>6. Counted(k)'
    <3> SUFFICES ASSUME k \notin overlap
                 PROVE  /\ rows[k].status # "none" => calls'[k] <= rows[k].attempts
                        /\ \A v \in Workers : Holds(v, k) =>
                            /\ worker'[v].phase = "answered"
                            /\ ~worker'[v].fresh => rows[k].status # "inProgress"
      BY <1>1, <2>2 DEF Counted, Holds
    <3>1. \A v \in Workers : Holds(v, k) => v = w
      BY <2>1 DEF Accounted, Single
    <3>2. worker'[w].phase = "answered" /\ worker'[w].fresh = worker[w].fresh
      BY <1>4 DEF GoesOn
    <3>3. ~worker[w].fresh => rows[k].status # "inProgress"
      BY <2>1 DEF Accounted, Counted
    <3>4. rows[k].status # "none" => calls'[k] <= rows[k].attempts
      <4>1. rows[k].attempts \in Int /\ calls[k] \in Int
        BY <1>1 DEF TypeOK, Row
      <4>2. CASE worker[w].fresh
        BY <1>1, <1>2, <1>5, <1>8, <2>1, <4>1, <4>2 DEF Accounted, Counted
      <4>3. CASE ~worker[w].fresh
        BY <1>5, <4>3 DEF Accounted, Counted
      <4>4. QED
        BY <4>2, <4>3
    <3>5. QED
      BY <3>1, <3>2, <3>3, <3>4
  <2>7. RowDated(k)'
    BY <1>1 DEF Accounted, RowDated, Reached
  <2>8. RunsDated(k)'
    <3>1. \A v \in Workers : worker'[v].now = worker[v].now
      BY <1>4 DEF GoesOn
    <3>2. \A v \in Workers : worker'[v].phase \in {worker[v].phase, "answered"}
      BY <1>4 DEF GoesOn
    <3>3. QED
      BY <2>2, <3>1, <3>2 DEF Accounted, RunsDated, Holds, Reached
  <2>9. Gone(k)'
    <3>1. Held(k)
      BY <2>1 DEF Held
    <3>2. QED
      BY <1>1, <1>2, <3>1, OverLater DEF Accounted, Gone
  <2>10. SentOnce(k)'
    <3> SUFFICES ASSUME k \notin overlap, k \notin unrecorded', sent'[k] > 0
                 PROVE  sent'[k] = 1 /\ Answering(k)'
      BY <1>1 DEF SentOnce
    <3>1. sent[k] = 0
      BY <2>4
    <3>2. sent' = Accepted(k) /\ worker'[w].outcome = "done"
      BY <1>6, <1>8, <3>1
    <3>3. sent'[k] = 1
      BY <1>2, <3>1, <3>2 DEF Accepted
    <3>4. QED
      BY <1>4, <2>1, <2>2, <3>2, <3>3 DEF Answering, GoesOn, Holds
  <2>11. QED
    BY <2>5, <2>6, <2>7, <2>8, <2>9, <2>10 DEF Accounted
<1>9. QED
  BY <1>7, <1>8

(* Every step of a delivery keeps the account of every key. *)
LEMMA DeliveryAccounted ==
    ASSUME TypeInv, TypeOK', NEW k \in Keys, NEW w \in Workers, Accounted(k), DeliveryStep(w)
    PROVE  Accounted(k)'
<1>1. TypeOK /\ worker[w] \in Run /\ worker \in [Workers -> Run]
  BY DEF TypeInv, TypeOK
<1>2. CASE Resolve(w)
  <2>1. MessagesKept /\ worker[w].phase = "claimed"
    BY <1>2 DEF Resolve, MessagesKept
  <2>2. CASE FinishMarked(w, "canceled")
    BY <1>1, <2>1, <2>2, FinishMarkedAccounted DEF Terminal
  <2>3. CASE Defer(w)
    BY <1>1, <2>1, <2>3, DeferAccounted
  <2>4. CASE SameDay(w) /\ Reschedule(w)
    BY <1>1, <2>1, <2>4, RescheduleAccounted
  <2>5. CASE /\ worker' = [worker EXCEPT ![w].phase = "resolved", ![w].zone = zone]
             /\ UNCHANGED <<rows, calls>>
    <3>1. GoesOn(w, "resolved")
      BY <1>1, <2>5 DEF GoesOn, Run
    <3>2. QED
      BY <1>1, <2>1, <2>5, <3>1, GoesOnAccounted
  <2>6. QED
    BY <1>2, <2>2, <2>3, <2>4, <2>5 DEF Resolve
<1>3. CASE Recheck(w)
  <2>1. MessagesKept /\ worker[w].phase = "resolved"
    BY <1>3 DEF Recheck, MessagesKept
  <2>2. CASE FinishMarked(w, "canceled")
    BY <1>1, <2>1, <2>2, FinishMarkedAccounted DEF Terminal
  <2>3. CASE worker' = [worker EXCEPT ![w].phase = "current"] /\ UNCHANGED <<rows, calls>>
    <3>1. GoesOn(w, "current")
      BY <1>1, <2>3 DEF GoesOn, Run
    <3>2. QED
      BY <1>1, <2>1, <2>3, <3>1, GoesOnAccounted
  <2>4. QED
    BY <1>3, <2>2, <2>3 DEF Recheck
<1>4. CASE AskSwitch(w)
  <2>1. MessagesKept /\ worker[w].phase = "current"
    BY <1>4 DEF AskSwitch, MessagesKept
  <2>2. CASE FinishMarked(w, "canceled")
    BY <1>1, <2>1, <2>2, FinishMarkedAccounted DEF Terminal
  <2>3. CASE Defer(w)
    BY <1>1, <2>1, <2>3, DeferAccounted
  <2>4. CASE worker' = [worker EXCEPT ![w].phase = "allowed"] /\ UNCHANGED <<rows, calls>>
    <3>1. GoesOn(w, "allowed")
      BY <1>1, <2>4 DEF GoesOn, Run
    <3>2. QED
      BY <1>1, <2>1, <2>4, <3>1, GoesOnAccounted
  <2>5. QED
    BY <1>4, <2>2, <2>3, <2>4 DEF AskSwitch
<1>5. CASE Record(w)
  <2>1. MessagesKept
    BY <1>5 DEF Record, MessagesKept
  <2>2. CASE worker[w].outcome = "done" /\ FinishMarked(w, "done")
    BY <1>1, <2>1, <2>2, FinishMarkedAccounted DEF Terminal
  <2>3. CASE worker[w].outcome = "failed" /\ FinishMarked(w, "failed")
    BY <1>1, <2>1, <2>3, FinishMarkedAccounted DEF Terminal
  <2>4. CASE worker[w].outcome = "retry" /\ RetryOrFinish(w)
    BY <1>1, <2>1, <2>4, RetryOrFinishAccounted
  <2>5. QED
    BY <1>5, <2>2, <2>3, <2>4 DEF Record
<1>6. QED
  BY <1>2, <1>3, <1>4, <1>5, SendAccounted DEF DeliveryStep

(* A run that starts, ends or dies holds nothing afterwards. *)
LEMMA RunAccounted ==
    ASSUME TypeInv, TypeOK', NEW k \in Keys, NEW w \in Workers, Accounted(k),
           StartRun(w) \/ EndRun(w) \/ Crash(w)
    PROVE  Accounted(k)'
<1>1. /\ TypeOK /\ worker[w] \in Run /\ worker \in [Workers -> Run] /\ NoKey # k
      /\ UNCHANGED <<clock, rows, sent, calls, overlap>> /\ clock <= clock'
  <2>1. UNCHANGED <<clock, rows, sent, calls, overlap>>
    BY DEF StartRun, EndRun, Crash, history
  <2>2. QED
    BY <2>1, NoKeyAssumption DEF TypeInv, TypeOK
<1>2. CASE StartRun(w) \/ EndRun(w)
  <2>1. UNCHANGED unrecorded /\ ~Holds(w, k)
    BY <1>2 DEF StartRun, EndRun, history, Accounted, RunsDated
  <2>2. worker'[w].key # k /\ \A v \in Workers \ {w} : worker'[v] = worker[v]
    BY <1>1, <1>2, <2>1 DEF StartRun, EndRun, IdleWorker, Run, Holds
  <2>3. StillFor(k)
    BY <1>1, <2>1, <2>2 DEF StillFor, MessageKept, Unmoved, Holds
  <2>4. QED
    BY <1>1, <2>3, Calm
<1>3. CASE Crash(w)
  <2>1. /\ worker'[w].key = NoKey /\ \A v \in Workers \ {w} : worker'[v] = worker[v]
        /\ unrecorded' = IF worker[w].outcome = "done"
                         THEN unrecorded \cup {worker[w].key} ELSE unrecorded
    BY <1>1, <1>3 DEF Crash, IdleWorker
  <2>2. CASE ~Holds(w, k)
    <3>1. StillFor(k)
      BY <1>1, <2>1, <2>2 DEF StillFor, MessageKept, Unmoved, Holds
    <3>2. QED
      BY <1>1, <3>1, Calm
  <2>3. CASE Holds(w, k)
    <3>1. \A v \in Workers : worker'[v].key = k => v # w /\ Holds(v, k) /\ worker'[v] = worker[v]
      BY <1>1, <2>1 DEF Holds
    <3>2. k \notin overlap \cup unrecorded' => sent[k] = 0
      <4>1. k \notin overlap \cup unrecorded' /\ sent[k] > 0 => FALSE
        BY <2>1, <2>3, Alone DEF Holds
      <4>2. sent[k] \in 0..2
        BY <1>1 DEF TypeOK
      <4>3. QED
        BY <4>1, <4>2
    <3>3. Single(k)' /\ Counted(k)'
      BY <1>1, <3>1 DEF Accounted, Single, Counted, Holds
    <3>4. RowDated(k)' /\ RunsDated(k)'
      BY <1>1, <3>1 DEF Accounted, RowDated, RunsDated, Holds, Reached
    <3>5. Gone(k)'
      <4>1. Held(k)
        BY <2>3 DEF Held
      <4>2. QED
        BY <1>1, <4>1, OverLater DEF Accounted, Gone
    <3>6. SentOnce(k)'
      BY <1>1, <3>2 DEF SentOnce
    <3>7. QED
      BY <3>3, <3>4, <3>5, <3>6 DEF Accounted
  <2>4. QED
    BY <2>2, <2>3
<1>4. QED
  BY <1>2, <1>3

(* The prune deletes a row only when its day is over for the planner too. *)
LEMMA PruneAccounted ==
    ASSUME TypeOK, TypeOK', NEW k \in Keys, Accounted(k), Prune
    PROVE  Accounted(k)'
<1>1. /\ UNCHANGED <<clock, worker, sent, calls, overlap, unrecorded>>
      /\ rows[k] \in Row /\ clock \in Int /\ clock <= clock'
  BY DEF Prune, history, TypeOK
<1> DEFINE e == IF rows[k].status \in Statuses \ Terminal /\ rows[k].expiresAt <= clock
                THEN [rows[k] EXCEPT !.status = "expired", !.updatedAt = clock] ELSE rows[k]
<1>2. rows'[k] = IF e.status \in Terminal /\ e.updatedAt < clock - Retention THEN NoRow ELSE e
  BY DEF Prune, PrunedRow
<1>3. CASE rows[k].status = "none"
  <2>1. rows'[k] = rows[k]
    BY <1>2, <1>3 DEF Statuses, Terminal
  <2>2. StillFor(k)
    BY <1>1, <2>1 DEF StillFor, MessageKept, Unmoved
  <2>3. QED
    BY <1>1, <2>2, Calm
<1>4. CASE rows[k].status # "none"
  <2>1. /\ e.attempts = rows[k].attempts /\ e.nextAttemptAt = rows[k].nextAttemptAt
        /\ e.expiresAt = rows[k].expiresAt /\ e.claimedUntil = rows[k].claimedUntil
        /\ e.updatedAt \in Int
        /\ \/ e.status = rows[k].status /\ e.updatedAt = rows[k].updatedAt
           \/ e.status = "expired" /\ e.updatedAt = clock /\ rows[k].expiresAt <= clock
              /\ rows[k].status \in Statuses \ Terminal
    BY <1>1 DEF Row
  <2>2. e.status \in Terminal => Reached(k, e.updatedAt)
    <3>1. rows[k].expiresAt \in Int
      BY <1>1 DEF Row
    <3>2. QED
      BY <1>1, <1>4, <2>1, <3>1, ReachedLater DEF Accounted, RowDated
  <2>3. e.status # "none"
    BY <1>4, <2>1
  <2> HIDE DEF e
  <2>4. rows'[k] = NoRow => Over(k)
    <3>1. CASE rows'[k] = e
      BY <2>3, <3>1 DEF NoRow
    <3>2. CASE e.status \in Terminal /\ e.updatedAt < clock - Retention
      BY <2>1, <2>2, <3>2, PrunedIsOver
    <3>3. QED
      BY <1>2, <3>1, <3>2
  <2>5. rows'[k] = NoRow \/ rows'[k] = e
    BY <1>2
  <2>6. NoRow.status = "none"
    BY DEF NoRow
  <2>7. Single(k)' /\ RunsDated(k)'
    BY <1>1 DEF Accounted, Single, RunsDated, Holds, Reached
  <2>8. Counted(k)'
    BY <1>1, <1>4, <2>1, <2>5, <2>6 DEF Accounted, Counted, Holds
  <2>9. RowDated(k)'
    BY <1>4, <2>1, <2>2, <2>5, <2>6 DEF Accounted, RowDated, Reached
  <2>10. Gone(k)'
    BY <1>1, <2>3, <2>4, <2>5, OverLater DEF Gone
  <2>11. SentOnce(k)'
    <3>1. Held(k)' <=> Held(k)
      BY <1>1 DEF Held, Holds
    <3>2. Answering(k)' <=> Answering(k)
      BY <1>1 DEF Answering, Holds
    <3>3. rows[k].status = "done" => rows'[k].status \in {"none", "done"}
      BY <2>1, <2>5, <2>6 DEF Terminal
    <3>4. QED
      BY <1>1, <1>4, <3>1, <3>2, <3>3 DEF Accounted, SentOnce
  <2>12. QED
    BY <2>7, <2>8, <2>9, <2>10, <2>11 DEF Accounted
<1>5. QED
  BY <1>3, <1>4

(* Settings concern no delivery's account. *)
LEMMA SettingsStill ==
    ASSUME TypeOK, NEW k \in Keys, SettingsStep
    PROVE  StillFor(k) /\ UNCHANGED clock
<1>1. /\ worker' = [w \in Workers |-> [worker[w] EXCEPT !.unchanged = FALSE]]
      /\ UNCHANGED <<clock, rows, planner, history>>
  BY DEF SettingsStep, ChangeZone, FlipSwitch, ApproveConnection, CloseConnection, SetSubscription,
         EditItem, Changed
<1>2. \A v \in Workers : Unmoved(v)
  BY <1>1 DEF TypeOK, Run, Unmoved
<1>3. QED
  BY <1>1, <1>2 DEF StillFor, MessageKept, history

LEMMA PlanDatedStep ==
    ASSUME TypeOK, PlanDated, [Next]_vars
    PROVE  PlanDated'
<1>1. clock \in Int /\ PlanBound \in Int /\ PlanBound >= 0 /\ planner \in Plan
  BY LimitAssumption DEF TypeOK
<1>2. CASE StartPlan
  <2>1. planner'.on /\ planner'.now = clock /\ clock' = clock
    BY <1>2 DEF StartPlan
  <2>2. QED
    BY <1>1, <2>1 DEF PlanDated
<1>3. ASSUME NEW r \in planner.todo, PlanRecipient(r) \/ SkipRecipient(r) PROVE PlanDated'
  <2>1. planner' = PlanNext(r) /\ UNCHANGED clock
    BY <1>3 DEF PlanRecipient, SkipRecipient
  <2>2. CASE planner' = NoPlan
    BY <2>2 DEF PlanDated, NoPlan
  <2>3. CASE planner' = [planner EXCEPT !.todo = @ \ {r}]
    BY <1>1, <1>3, <2>1, <2>3 DEF PlanDated, Plan
  <2>4. QED
    BY <2>1, <2>2, <2>3 DEF PlanNext
<1>4. CASE CrashPlan
  BY <1>4 DEF CrashPlan, PlanDated, NoPlan
<1>5. CASE Tick
  BY <1>1, <1>5 DEF Tick, PlanDated, Plan
<1>6. CASE UNCHANGED <<clock, planner>>
  BY <1>6 DEF PlanDated
<1>7. CASE Prune \/ SettingsStep \/ UNCHANGED vars \/ \E w \in Workers : WorkerStep(w)
  <2>1. UNCHANGED <<clock, planner>>
    BY ZenonT(60), <1>7 DEF Prune, SettingsStep, ChangeZone, FlipSwitch, ApproveConnection, CloseConnection,
         SetSubscription, EditItem, Changed, vars, WorkerStep, StartRun, EndRun, Crash, Claim,
         DeliveryStep, Resolve, Recheck, AskSwitch, Send, Record
  <2>2. QED
    BY <1>6, <2>1
<1>8. QED
  BY <1>2, <1>3, <1>4, <1>5, <1>7 DEF Next, PlannerRun

LEMMA AccountedStep ==
    ASSUME TypeInv, TypeInv', PlanDated, [Next]_vars, NEW k \in Keys, Accounted(k)
    PROVE  Accounted(k)'
<1>1. TypeOK /\ TypeOK' /\ clock \in Int
  BY DEF TypeInv, TypeOK
<1>2. CASE StartPlan \/ CrashPlan \/ Tick \/ UNCHANGED vars \/ \E r \in planner.todo : SkipRecipient(r)
  <2>1. UNCHANGED <<rows, worker, history>> /\ clock <= clock'
    BY <1>1, <1>2 DEF StartPlan, CrashPlan, Tick, SkipRecipient, vars
  <2>2. StillFor(k)
    BY <2>1 DEF StillFor, MessageKept, Unmoved, history
  <2>3. QED
    BY <1>1, <2>1, <2>2, Calm
<1>3. CASE SettingsStep
  <2>1. StillFor(k) /\ clock <= clock'
    BY <1>1, <1>3, SettingsStill
  <2>2. QED
    BY <1>1, <2>1, Calm
<1>4. CASE Prune
  BY <1>1, <1>4, PruneAccounted
<1>5. ASSUME NEW r \in planner.todo, PlanRecipient(r) PROVE Accounted(k)'
  BY <1>1, <1>5, PlanAccounted
<1>6. ASSUME NEW w \in Workers, WorkerStep(w) PROVE Accounted(k)'
  BY <1>1, <1>6, ClaimAccounted, DeliveryAccounted, RunAccounted DEF WorkerStep
<1>7. QED
  BY <1>2, <1>3, <1>4, <1>5, <1>6 DEF Next, PlannerRun

AccountInv == PlanDated /\ \A k \in Keys : Accounted(k)

LEMMA AlwaysAccounted == Spec => []AccountInv
<1>1. Init => AccountInv
  <2> SUFFICES ASSUME Init PROVE AccountInv
    OBVIOUS
  <2>1. PlanDated
    BY DEF Init, PlanDated, NoPlan
  <2>2. ASSUME NEW k \in Keys PROVE Accounted(k)
    <3>1. /\ rows[k].status = "none" /\ sent[k] = 0
          /\ \A w \in Workers : ~Holds(w, k)
      BY NoKeyAssumption DEF Init, NoRow, IdleWorker, Holds
    <3>2. QED
      BY <3>1 DEF Accounted, Single, Counted, RowDated, RunsDated, Gone, SentOnce, Held
  <2>3. QED
    BY <2>1, <2>2 DEF AccountInv
<1>2. TypeInv /\ TypeInv' /\ AccountInv /\ [Next]_vars => AccountInv'
  <2> SUFFICES ASSUME TypeInv, TypeInv', AccountInv, [Next]_vars PROVE AccountInv'
    OBVIOUS
  <2>1. PlanDated'
    BY PlanDatedStep DEF AccountInv, TypeInv
  <2>2. ASSUME NEW k \in Keys PROVE Accounted(k)'
    BY AccountedStep DEF AccountInv
  <2>3. QED
    BY <2>1, <2>2 DEF AccountInv
<1>3. QED
  BY <1>1, <1>2, AlwaysTyped, PTL DEF Spec

(* A reminder goes out twice only if two runs held its delivery at once or an *)
(* accepted message went unrecorded: not because a row was pruned and planned *)
(* again, which is what the retention rules out.  Unless two runs held the    *)
(* delivery at once, the calls since the last reset never pass the attempts.  *)
THEOREM SendsAccountedCorrect == Spec => []SendsAccounted
<1>1. TypeInv /\ AccountInv => SendsAccounted
  <2> SUFFICES ASSUME TypeInv, AccountInv, NEW k \in Keys
               PROVE  /\ sent[k] > 1 => k \in overlap \cup unrecorded
                      /\ k \notin overlap /\ rows[k].status # "none" => calls[k] <= rows[k].attempts
    BY DEF SendsAccounted
  <2>1. sent[k] \in 0..2 /\ Accounted(k)
    BY DEF TypeInv, TypeOK, AccountInv
  <2>2. sent[k] > 1 => k \in overlap \cup unrecorded
    BY <2>1 DEF Accounted, SentOnce
  <2>3. QED
    BY <2>1, <2>2 DEF Accounted, Counted
<1>2. QED
  BY <1>1, AlwaysTyped, AlwaysAccounted, PTL
=============================================================================
