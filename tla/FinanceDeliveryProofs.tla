------------------------ MODULE FinanceDeliveryProofs ------------------------
(***************************************************************************)
(* Theorems about FinanceDelivery for every value of its constants: it       *)
(* implements DeliveryContract, repeats a message only after a fault, sends  *)
(* and cancels by what it has rechecked, and keeps the pauses between tries. *)
(***************************************************************************)
EXTENDS FinanceDelivery, TLAPS, FiniteSetTheorems

-----------------------------------------------------------------------------
(* What the steps of a run do to it *)

Outcomes == {"none", "done", "failed", "retry", "canceled", "expired"}

(* The run has claimed a delivery and is not done with it.                    *)
AtWork(w) == worker[w].phase \notin {"idle", "run"}

(* Its call to Telegram is still to come.                                     *)
Awaits(w) == AtWork(w) /\ worker[w].phase # "answered"

(* Its message is on the way, or accepted and not yet recorded.               *)
InFlight(w) == worker[w].phase = "sending" \/ worker[w].outcome = "done"

Others(w) == \A v \in Workers \ {w} : worker'[v] = worker[v]

(* w goes on with its delivery.                                               *)
GoesOn(w) ==
    /\ Others(w)
    /\ worker'[w].key = worker[w].key /\ worker'[w].attempts = worker[w].attempts
    /\ worker'[w].left = worker[w].left /\ worker'[w].unchanged = worker[w].unchanged

(* w has let its delivery go.                                                 *)
LetsGo(w) ==
    /\ Others(w)
    /\ worker'[w].phase \in {"idle", "run"} /\ worker'[w].outcome = "none"

(* A run at work has a delivery that was opened and a claim of its own on it. *)
Working ==
    \A w \in Workers :
        /\ AtWork(w) => worker[w].key \in Keys
        /\ worker[w].outcome # "none" <=> worker[w].phase = "answered"

TypeInv == TypeOK /\ Working

LEMMA IdleType == IdleWorker \in Run /\ NoRow \in Row
<1>1. IdleWorker \in Run
  BY LimitAssumption DEF IdleWorker, Run, Phases
<1>2. NoRow \in Row
  BY LimitAssumption DEF NoRow, Row, NoTime
<1>3. QED
  BY <1>1, <1>2

LEMMA AnsweredEffect ==
    ASSUME TypeOK, NEW w \in Workers, NEW outcome \in Outcomes, NEW next \in Int,
           Answered(w, outcome, next)
    PROVE  /\ worker' \in [Workers -> Run] /\ GoesOn(w)
           /\ worker'[w].phase = "answered" /\ worker'[w].outcome = outcome
           /\ worker'[w].nextAt = next
<1>1. worker \in [Workers -> Run] /\ worker[w] \in Run
  BY DEF TypeOK
<1>2. worker' = [worker EXCEPT ![w] = [worker[w] EXCEPT !.phase = "answered",
                                          !.outcome = outcome, !.nextAt = next]]
  BY DEF Answered
<1>3. [worker[w] EXCEPT !.phase = "answered", !.outcome = outcome, !.nextAt = next] \in Run
  BY <1>1 DEF Run, Phases, Outcomes
<1>4. QED
  BY <1>1, <1>2, <1>3 DEF GoesOn, Others, Run

LEMMA ReleasedEffect ==
    ASSUME TypeOK, NEW w \in Workers, worker' = [worker EXCEPT ![w] = Released(w)]
    PROVE  worker' \in [Workers -> Run] /\ LetsGo(w)
<1>1. worker \in [Workers -> Run] /\ worker[w].left \in 0..BatchSize
  BY DEF TypeOK, Run
<1>2. Released(w) \in Run
  BY ZenonT(60), <1>1, IdleType DEF Released, Run, Phases
<1>3. Released(w).phase \in {"idle", "run"} /\ Released(w).outcome = "none"
  BY DEF Released, IdleWorker
<1>4. QED
  BY <1>1, <1>2, <1>3 DEF LetsGo, Others

(* What stays the same in every step of a delivery.                           *)
Quiet == UNCHANGED <<clock, settings, changes, events, opened, claims, outlived>>

LEMMA RetryOutcomeType == \A w : RetryOutcome(w) \in Outcomes \ {"none", "done", "canceled"}
  BY DEF RetryOutcome, Outcomes

LEMMA AskSwitchEffect ==
    ASSUME TypeOK, NEW w \in Workers, AskSwitch(w)
    PROVE  /\ Quiet /\ worker' \in [Workers -> Run] /\ UNCHANGED <<rows, calls, sent, unrecorded>>
           /\ GoesOn(w) /\ worker[w].phase = "claimed"
           /\ \/ worker'[w].phase = "answered"
                 /\ worker'[w].outcome \in Outcomes \ {"none", "done", "canceled"}
              \/ worker'[w].phase = "asked" /\ worker'[w].allowed = switch
                 /\ worker'[w].outcome = worker[w].outcome
<1>1. Quiet /\ UNCHANGED <<rows, calls, sent, unrecorded>> /\ worker[w].phase = "claimed"
  BY DEF AskSwitch, Quiet, history
<1>2. worker \in [Workers -> Run] /\ worker[w] \in Run /\ switch \in BOOLEAN
      /\ clock + RetryInterval \in Int
  BY TimeAssumption DEF TypeOK
<1>3. CASE Answered(w, RetryOutcome(w), clock + RetryInterval)
  BY <1>1, <1>2, <1>3, RetryOutcomeType, AnsweredEffect
<1>4. CASE worker' = [worker EXCEPT ![w].phase = "asked", ![w].allowed = switch]
  <2>1. [worker[w] EXCEPT !.phase = "asked", !.allowed = switch] \in Run
    BY <1>2 DEF Run, Phases
  <2>2. QED
    BY <1>1, <1>2, <1>4, <2>1 DEF GoesOn, Others, Run
<1>5. QED
  BY <1>3, <1>4 DEF AskSwitch

LEMMA ReadMonthEffect ==
    ASSUME TypeInv, NEW w \in Workers, ReadMonth(w)
    PROVE  /\ Quiet /\ worker' \in [Workers -> Run] /\ UNCHANGED <<rows, calls, sent, unrecorded>>
           /\ GoesOn(w) /\ worker[w].phase = "asked"
           /\ worker'[w].phase = "priced" /\ worker'[w].outcome = worker[w].outcome
           /\ worker'[w].allowed = worker[w].allowed
           /\ worker'[w].over = (InMonth(worker[w].key.event) /\ source[worker[w].key.event].over)
<1> DEFINE over == InMonth(worker[w].key.event) /\ source[worker[w].key.event].over
<1>1. worker \in [Workers -> Run] /\ worker[w] \in Run
  BY DEF TypeInv, TypeOK
<1>2. over \in BOOLEAN
  BY DEF InMonth
<1>3. worker' = [worker EXCEPT ![w] = [worker[w] EXCEPT !.phase = "priced", !.over = over]]
  BY DEF ReadMonth
<1> HIDE DEF over
<1>4. [worker[w] EXCEPT !.phase = "priced", !.over = over] \in Run
  BY <1>1, <1>2 DEF Run, Phases
<1>5. GoesOn(w) /\ worker' \in [Workers -> Run] /\ worker'[w].over = over
      /\ worker'[w].phase = "priced" /\ worker'[w].outcome = worker[w].outcome
      /\ worker'[w].allowed = worker[w].allowed
  BY <1>1, <1>3, <1>4 DEF GoesOn, Others, Run
<1>6. QED
  BY <1>5 DEF ReadMonth, Quiet, history, over

LEMMA ReadTransactionEffect ==
    ASSUME TypeInv, NEW w \in Workers, ReadTransaction(w)
    PROVE  /\ Quiet /\ worker' \in [Workers -> Run] /\ UNCHANGED <<rows, calls, sent, unrecorded>>
           /\ GoesOn(w) /\ worker[w].phase = "priced"
           /\ \/ /\ worker'[w].phase = "answered" /\ worker'[w].outcome = "canceled"
                 /\ ~InMonth(worker[w].key.event)
              \/ /\ worker'[w].phase = "read" /\ worker'[w].outcome = worker[w].outcome
                 /\ worker'[w].allowed = worker[w].allowed /\ worker'[w].over = worker[w].over
                 /\ InMonth(worker[w].key.event)
                 /\ worker'[w].current = ~source[worker[w].key.event].edited
<1>1. worker \in [Workers -> Run] /\ worker[w] \in Run /\ TypeOK
  BY DEF TypeInv, TypeOK
<1>2. Quiet /\ UNCHANGED <<rows, calls, sent, unrecorded>> /\ worker[w].phase = "priced"
  BY DEF ReadTransaction, Quiet, history
<1>3. CASE ~InMonth(worker[w].key.event) /\ Answered(w, "canceled", 0)
  BY <1>1, <1>2, <1>3, AnsweredEffect DEF Outcomes
<1>4. CASE /\ InMonth(worker[w].key.event)
           /\ worker' = [worker EXCEPT ![w].phase = "read",
                                       ![w].current = ~source[worker[w].key.event].edited]
  <2>1. [worker[w] EXCEPT !.phase = "read", !.current = ~source[worker[w].key.event].edited] \in Run
    BY <1>1 DEF Run, Phases
  <2>2. QED
    BY <1>1, <1>2, <1>4, <2>1 DEF GoesOn, Others, Run
<1>5. QED
  BY <1>3, <1>4 DEF ReadTransaction

Sends(w) == Eligible(w) /\ worker[w].current /\ worker[w].allowed

LEMMA RefreshEffect ==
    ASSUME TypeOK, NEW w \in Workers, Refresh(w)
    PROVE  /\ Quiet /\ worker' \in [Workers -> Run] /\ UNCHANGED <<rows, calls, sent, unrecorded>>
           /\ worker[w].phase = "read"
           /\ \/ LetsGo(w)
              \/ /\ GoesOn(w) /\ worker'[w].phase = "answered"
                 /\ \/ worker'[w].outcome = "expired"
                    \/ worker'[w].outcome = "canceled" /\ ~Sends(w)
              \/ /\ GoesOn(w) /\ worker'[w].phase = "sending"
                 /\ worker'[w].outcome = worker[w].outcome
                 /\ Held(w) /\ Sends(w)
<1>1. worker \in [Workers -> Run] /\ worker[w] \in Run
  BY DEF TypeOK
<1>2. Quiet /\ UNCHANGED <<rows, calls, sent, unrecorded>> /\ worker[w].phase = "read"
  BY DEF Refresh, Quiet, history
<1>3. CASE worker' = [worker EXCEPT ![w] = Released(w)]
  BY <1>2, <1>3, ReleasedEffect
<1>4. CASE Answered(w, "expired", 0)
  BY <1>2, <1>4, AnsweredEffect DEF Outcomes
<1>5. CASE ~Sends(w) /\ Answered(w, "canceled", 0)
  BY <1>2, <1>5, AnsweredEffect DEF Outcomes
<1>6. CASE Held(w) /\ Sends(w) /\ worker' = [worker EXCEPT ![w].phase = "sending"]
  <2>1. [worker[w] EXCEPT !.phase = "sending"] \in Run
    BY <1>1 DEF Run, Phases
  <2>2. QED
    BY <1>1, <1>2, <1>6, <2>1 DEF GoesOn, Others, Run
<1>7. QED
  BY <1>3, <1>4, <1>5, <1>6 DEF Refresh, Sends

(* A call: accepted, refused, to be retried, or accepted without an answer.   *)
LEMMA SendEffect ==
    ASSUME TypeOK, NEW w \in Workers, Send(w)
    PROVE  /\ Quiet /\ worker' \in [Workers -> Run] /\ UNCHANGED rows
           /\ GoesOn(w) /\ worker[w].phase = "sending" /\ worker'[w].phase = "answered"
           /\ calls' = [calls EXCEPT ![worker[w].key] = @ + 1]
           /\ \/ /\ worker'[w].outcome = "done" /\ sent' = Accepted(worker[w].key)
                 /\ UNCHANGED unrecorded
              \/ /\ worker'[w].outcome \in Outcomes \ {"none", "done", "canceled"}
                 /\ UNCHANGED <<sent, unrecorded>>
              \/ /\ worker'[w].outcome \in Outcomes \ {"none", "done", "canceled"}
                 /\ sent' = Accepted(worker[w].key)
                 /\ unrecorded' = unrecorded \cup {worker[w].key}
<1> DEFINE Pause(after) == clock + IF after > RetryInterval THEN after ELSE RetryInterval
<1>1. Quiet /\ worker[w].phase = "sending" /\ UNCHANGED rows
      /\ calls' = [calls EXCEPT ![worker[w].key] = @ + 1]
  BY DEF Send, Quiet
<1>2. \A after \in RetryAfters : Pause(after) \in Int
  BY TimeAssumption DEF TypeOK
<1>3. Pause(0) \in Int
  BY <1>2, TimeAssumption
<1>4. ASSUME NEW outcome \in Outcomes, NEW next \in Int, Answered(w, outcome, next)
      PROVE  /\ worker' \in [Workers -> Run] /\ GoesOn(w)
             /\ worker'[w].phase = "answered" /\ worker'[w].outcome = outcome
  BY <1>4, AnsweredEffect
<1>5. "done" \in Outcomes /\ "failed" \in Outcomes \ {"none", "done", "canceled"} /\ 0 \in Int
  BY DEF Outcomes
<1>6. CASE Answered(w, "done", 0) /\ sent' = Accepted(worker[w].key) /\ UNCHANGED unrecorded
  BY <1>1, <1>4, <1>5, <1>6
<1>7. CASE Answered(w, "failed", 0) /\ UNCHANGED <<sent, unrecorded>>
  BY <1>1, <1>4, <1>5, <1>7
<1>8. CASE \E after \in RetryAfters :
              Answered(w, RetryOutcome(w), Pause(after)) /\ UNCHANGED <<sent, unrecorded>>
  BY <1>1, <1>2, <1>4, <1>8, RetryOutcomeType
<1>9. CASE /\ Answered(w, RetryOutcome(w), Pause(0)) /\ sent' = Accepted(worker[w].key)
           /\ unrecorded' = unrecorded \cup {worker[w].key}
  BY <1>1, <1>3, <1>4, <1>9, RetryOutcomeType
<1>10. QED
  BY <1>6, <1>7, <1>8, <1>9 DEF Send

LEMMA FinishEffect ==
    ASSUME TypeInv, NEW w \in Workers, Finish(w)
    PROVE  /\ Quiet /\ worker' \in [Workers -> Run] /\ UNCHANGED <<calls, sent, unrecorded>>
           /\ LetsGo(w) /\ worker[w].phase = "answered" /\ rows' \in [Keys -> Row]
           /\ \/ ~Held(w) /\ UNCHANGED rows
              \/ Held(w) /\ rows' = [rows EXCEPT ![worker[w].key] = Finished(w)]
<1>1. worker[w] \in Run /\ rows \in [Keys -> Row] /\ TypeOK /\ clock \in Int
  BY DEF TypeInv, TypeOK
<1>2. worker[w].phase = "answered" /\ worker[w].key \in Keys
  BY DEF Finish, TypeInv, Working, AtWork
<1>3. CASE Held(w)
  <2>1. rows[worker[w].key] \in Row /\ worker[w].outcome \in Statuses \cup {"none"}
        /\ worker[w].nextAt \in Int /\ NoTime \in Int
    BY <1>1, <1>2 DEF Run, Statuses, NoTime
  <2>2. Finished(w) \in Row
    BY <1>1, <2>1 DEF Finished, Row
  <2>3. QED
    BY <1>1, <1>2, <1>3, <2>2, ReleasedEffect DEF Finish, Quiet, history
<1>4. CASE ~Held(w)
  BY <1>1, <1>2, <1>4, ReleasedEffect DEF Finish, Quiet, history
<1>5. QED
  BY <1>3, <1>4

LEMMA SweptType ==
    ASSUME NEW r \in Row, clock \in Int
    PROVE  Swept(r) \in Row
<1>1. NoTime \in Int
  BY DEF NoTime
<1>2. [r EXCEPT !.status = "failed", !.updatedAt = clock, !.claimedUntil = NoTime] \in Row
  BY <1>1 DEF Row, Statuses
<1>3. QED
  BY <1>2 DEF Swept

LEMMA ClaimEffect ==
    ASSUME TypeOK, NEW w \in Workers, NEW k \in Keys, Claim(w, k)
    PROVE  /\ worker' \in [Workers -> Run] /\ Others(w) /\ worker[w].phase = "run"
           /\ worker'[w].phase = "claimed" /\ worker'[w].outcome = "none"
           /\ worker'[w].key = k /\ worker'[w].attempts = rows[k].attempts + 1
           /\ worker'[w].unchanged
           /\ rows' \in [Keys -> Row]
           /\ rows'[k].status = "inProgress" /\ rows'[k].attempts = rows[k].attempts + 1
           /\ rows'[k].nextAttemptAt = rows[k].nextAttemptAt
           /\ \A j \in Keys \ {k} : rows'[j] = Swept(rows[j])
<1>1. worker \in [Workers -> Run] /\ worker[w] \in Run /\ rows \in [Keys -> Row]
      /\ clock \in Int /\ ClaimLease \in Int /\ MaxAttempts \in Nat /\ BatchSize \in Nat
  BY TimeAssumption, LimitAssumption DEF TypeOK
<1>2. rows[k].attempts + 1 \in 0..MaxAttempts /\ rows[k] \in Row
  BY <1>1 DEF Claim, Claimable, Row
<1>3. worker[w].left - 1 \in 0..BatchSize /\ worker[w].phase = "run"
  BY <1>1 DEF Claim, Run
<1> DEFINE new == [IdleWorker EXCEPT !.phase = "claimed", !.key = k, !.left = worker[w].left - 1,
                                     !.attempts = rows[k].attempts + 1, !.unchanged = TRUE]
           row == [rows[k] EXCEPT !.status = "inProgress", !.attempts = rows[k].attempts + 1,
                                  !.claimedUntil = clock + ClaimLease, !.updatedAt = clock]
<1> DEFINE tries == rows[k].attempts + 1
           rest == worker[w].left - 1
           until == clock + ClaimLease
<1>4. tries \in 0..MaxAttempts /\ rest \in 0..BatchSize /\ until \in Int
  BY <1>1, <1>2, <1>3
<1>5. /\ new = [IdleWorker EXCEPT !.phase = "claimed", !.key = k, !.left = rest,
                                  !.attempts = tries, !.unchanged = TRUE]
      /\ row = [rows[k] EXCEPT !.status = "inProgress", !.attempts = tries,
                               !.claimedUntil = until, !.updatedAt = clock]
  OBVIOUS
<1> HIDE DEF tries, rest, until, new, row
<1>6. new \in Run /\ new.phase = "claimed" /\ new.key = k /\ new.outcome = "none"
      /\ new.attempts = tries /\ new.unchanged
  <2>1. IdleWorker.outcome = "none"
    BY DEF IdleWorker
  <2>2. new \in Run
    BY <1>4, <1>5, IdleType DEF Run, Phases
  <2>3. QED
    BY <1>5, <2>1, <2>2, IdleType DEF Run
<1>7. row \in Row
  BY <1>1, <1>2, <1>4, <1>5 DEF Row, Statuses
<1>8. row.status = "inProgress" /\ row.attempts = tries
      /\ row.nextAttemptAt = rows[k].nextAttemptAt
  BY <1>2, <1>5 DEF Row
<1>9. worker' = [worker EXCEPT ![w] = new]
      /\ rows' = [j \in Keys |-> IF j = k THEN row ELSE Swept(rows[j])]
  BY DEF Claim, new, row
<1>10. \A j \in Keys : Swept(rows[j]) \in Row
  BY <1>1, SweptType
<1>11. QED
  BY <1>1, <1>3, <1>6, <1>7, <1>8, <1>9, <1>10 DEF Others, tries

LEMMA StartRunEffect ==
    ASSUME TypeInv, NEW w \in Workers, StartRun(w)
    PROVE  worker' \in [Workers -> Run] /\ LetsGo(w) /\ worker[w].phase = "idle"
<1>1. worker \in [Workers -> Run] /\ worker[w] \in Run /\ BatchSize \in 0..BatchSize
      /\ worker[w].phase = "idle" /\ worker[w].outcome = "none"
  BY LimitAssumption DEF TypeInv, TypeOK, Working, StartRun
<1>2. [worker[w] EXCEPT !.phase = "run", !.left = BatchSize] \in Run
  BY <1>1 DEF Run, Phases
<1>3. worker' = [worker EXCEPT ![w] = [worker[w] EXCEPT !.phase = "run", !.left = BatchSize]]
  BY DEF StartRun
<1>4. QED
  BY <1>1, <1>2, <1>3 DEF LetsGo, Others, Run

LEMMA EndEffect ==
    ASSUME TypeInv, NEW w \in Workers, EndRun(w) \/ Crash(w)
    PROVE  worker' \in [Workers -> Run] /\ LetsGo(w)
<1>1. worker \in [Workers -> Run] /\ worker' = [worker EXCEPT ![w] = IdleWorker]
  BY DEF TypeInv, TypeOK, EndRun, Crash
<1>2. IdleWorker.phase = "idle" /\ IdleWorker.outcome = "none"
  BY DEF IdleWorker
<1>3. QED
  BY <1>1, <1>2, IdleType DEF LetsGo, Others

(* A change of settings or of the ledger makes runs forget that there was none.*)
LEMMA ChangedEffect ==
    ASSUME TypeInv, Changed
    PROVE  /\ worker' \in [Workers -> Run] /\ changes' \in 0..MaxChanges
           /\ \A w \in Workers :
                 /\ worker'[w].phase = worker[w].phase /\ worker'[w].outcome = worker[w].outcome
                 /\ worker'[w].key = worker[w].key /\ worker'[w].attempts = worker[w].attempts
                 /\ worker'[w].unchanged = FALSE
<1>1. worker \in [Workers -> Run] /\ changes \in 0..MaxChanges
      /\ worker' = [w \in Workers |-> [worker[w] EXCEPT !.unchanged = FALSE]]
  BY DEF TypeInv, TypeOK, Changed
<1>2. changes' \in 0..MaxChanges
  BY <1>1, LimitAssumption DEF Changed
<1>3. \A w \in Workers : [worker[w] EXCEPT !.unchanged = FALSE] \in Run
  BY ZenonT(60), <1>1 DEF Run
<1>4. QED
  BY <1>1, <1>2, <1>3 DEF Run

LEMMA PrunedType ==
    ASSUME TypeOK, NEW k \in Keys
    PROVE  Expired(k) \in Row /\ Pruned(k) \in Row
<1>1. rows[k] \in Row /\ clock \in Int /\ NoTime \in Int
  BY DEF TypeOK, NoTime
<1>2. Expired(k) \in Row
  BY <1>1 DEF Expired, Row, Statuses
<1>3. QED
  BY <1>2, IdleType DEF Pruned

-----------------------------------------------------------------------------
(* Type correctness *)

LEMMA InitType == Init => TypeInv
<1> SUFFICES ASSUME Init PROVE TypeInv
  OBVIOUS
<1>1. NoEvent \in Event
  BY DEF NoEvent, Event, Kinds
<1>2. TypeOK
  BY <1>1, IdleType, TimeAssumption, LimitAssumption DEF Init, TypeOK
<1>3. Working
  BY DEF Init, Working, AtWork, IdleWorker
<1>4. QED
  BY <1>2, <1>3 DEF TypeInv

LEMMA PublishEffect ==
    ASSUME TypeOK, NEW e \in Events, Publish(e)
    PROVE  /\ events'[e].state = "live" /\ events'[e].planned = FALSE
           /\ \A d \in Events \ {e} : events'[d] = events[d]
<1> DEFINE now == MonthOf(clock, zone)
           Born(kind, author, month) ==
               [state |-> "live", kind |-> kind, author |-> author,
                createdAt |-> clock, month |-> month, planned |-> FALSE]
<1> HIDE DEF now
<1>1. \E kind, author, month : events' = [events EXCEPT ![e] = Born(kind, author, month)]
  <2>1. CASE \E kind \in Kinds, month \in {now - 1, now} :
                events' = [events EXCEPT ![e] = Born(kind, Web, month)]
    BY <2>1
  <2>2. CASE \E c \in linked :
                events' = [events EXCEPT ![e] = Born("transaction", c, now)]
    BY <2>2
  <2>3. QED
    BY <2>1, <2>2 DEF Publish, now
<1>2. PICK kind, author, month : events' = [events EXCEPT ![e] = Born(kind, author, month)]
  BY <1>1
<1>3. QED
  BY <1>2 DEF TypeOK

LEMMA PublishType ==
    ASSUME TypeOK, NEW e \in Events, Publish(e)
    PROVE  TypeOK'
<1> DEFINE now == MonthOf(clock, zone)
           Born(kind, author, month) ==
               [state |-> "live", kind |-> kind, author |-> author,
                createdAt |-> clock, month |-> month, planned |-> FALSE]
<1>1. clock \in Nat /\ zone \in Int /\ now \in Int /\ now - 1 \in Int /\ linked \subseteq Connections
  BY TimeAssumption DEF TypeOK, MonthOf
<1>2. \A kind \in Kinds, author \in Connections \cup {Web}, month \in Int :
          Born(kind, author, month) \in Event
  BY <1>1 DEF Event
<1> HIDE DEF now
<1>3. \E kind \in Kinds, author \in Connections \cup {Web}, month \in Int :
          events' = [events EXCEPT ![e] = Born(kind, author, month)]
  <2>1. CASE \E kind \in Kinds, month \in {now - 1, now} :
                events' = [events EXCEPT ![e] = Born(kind, Web, month)]
    BY <1>1, <2>1
  <2>2. CASE \E c \in linked :
                events' = [events EXCEPT ![e] = Born("transaction", c, now)]
    BY <1>1, <2>2 DEF Kinds
  <2>3. QED
    BY <2>1, <2>2 DEF Publish, now
<1>4. events' \in [Events -> Event]
  <2>1. PICK kind \in Kinds, author \in Connections \cup {Web}, month \in Int :
            events' = [events EXCEPT ![e] = Born(kind, author, month)]
    BY <1>3
  <2>2. Born(kind, author, month) \in Event
    BY <1>2
  <2> HIDE DEF Born
  <2>3. QED
    BY <2>1, <2>2 DEF TypeOK
<1>5. QED
  BY <1>4 DEF Publish, TypeOK, settings, history

LEMMA ChangeType ==
    ASSUME TypeInv, ChangeStep
    PROVE  TypeOK'
<1>1. TypeOK
  BY DEF TypeInv
<1>2. Changed
  BY DEF ChangeStep, ChangeZone, FlipSwitch, ApproveConnection, CloseConnection,
         SetSubscription, EditTransaction, CrossLimit
<1>3. worker' \in [Workers -> Run] /\ changes' \in 0..MaxChanges
      /\ UNCHANGED <<clock, events, rows, history>>
  BY <1>2, ChangedEffect DEF Changed
<1>4. CASE ChangeZone \/ FlipSwitch
  BY <1>1, <1>3, <1>4 DEF ChangeZone, FlipSwitch, TypeOK, history
<1>5. ASSUME NEW c \in Connections, ApproveConnection(c) \/ CloseConnection(c) PROVE TypeOK'
  BY <1>1, <1>3, <1>5 DEF ApproveConnection, CloseConnection, TypeOK, history
<1>6. ASSUME NEW c \in Connections, SetSubscription(c) PROVE TypeOK'
  BY <1>1, <1>3, <1>6 DEF SetSubscription, TypeOK, history
<1>7. ASSUME NEW e \in Events, EditTransaction(e) \/ CrossLimit(e) PROVE TypeOK'
  <2>1. [source[e] EXCEPT !.edited = TRUE] \in [edited : BOOLEAN, over : BOOLEAN]
        /\ [source[e] EXCEPT !.over = ~source[e].over] \in [edited : BOOLEAN, over : BOOLEAN]
    BY <1>1 DEF TypeOK
  <2>2. source' \in [Events -> [edited : BOOLEAN, over : BOOLEAN]]
    BY <1>1, <1>7, <2>1 DEF EditTransaction, CrossLimit, TypeOK
  <2>3. QED
    BY <1>1, <1>3, <1>7, <2>2 DEF EditTransaction, CrossLimit, TypeOK, history
<1>8. QED
  BY <1>4, <1>5, <1>6, <1>7 DEF ChangeStep

LEMMA PruneType ==
    ASSUME TypeOK, Prune
    PROVE  TypeOK'
<1>1. rows' \in [Keys -> Row]
  BY PrunedType DEF Prune
<1>2. \A e \in Events : [events[e] EXCEPT !.state = "removed"] \in Event
  BY DEF TypeOK, Event
<1>3. events' \in [Events -> Event]
  BY <1>2 DEF Prune, TypeOK
<1>4. QED
  BY <1>1, <1>3 DEF Prune, TypeOK, settings, history

(* The steps of a run. *)
LEMMA RunType ==
    ASSUME TypeInv, NEW w \in Workers, WorkerStep(w)
    PROVE  TypeOK'
<1>1. TypeOK /\ worker[w] \in Run /\ clock \in Int
  BY DEF TypeInv, TypeOK
<1>2. AtWork(w) => worker[w].key \in Keys
  BY DEF TypeInv, Working
<1>3. CASE StartRun(w)
  <2>1. PICK E \in SUBSET Unplanned :
          /\ events' = [e \in Events |-> IF e \in E THEN [events[e] EXCEPT !.planned = TRUE]
                                                    ELSE events[e]]
          /\ rows' = [k \in Keys |-> IF k \in Planned(E) THEN PendingRow ELSE rows[k]]
          /\ opened' = opened \cup Planned(E)
    BY <1>3 DEF StartRun
  <2>2. \A e \in Events : [events[e] EXCEPT !.planned = TRUE] \in Event
    BY <1>1 DEF TypeOK, Event
  <2>3. PendingRow \in Row
    BY <1>1, LimitAssumption DEF PendingRow, Row, Statuses, NoTime
  <2>4. events' \in [Events -> Event] /\ rows' \in [Keys -> Row] /\ opened' \subseteq Keys
    BY <1>1, <2>1, <2>2, <2>3 DEF TypeOK, Planned
  <2>5. QED
    BY <1>1, <1>3, <2>4, StartRunEffect DEF StartRun, TypeOK, settings
<1>4. CASE EndRun(w)
  <2>1. \A k \in Keys : Swept(rows[k]) \in Row
    BY <1>1, SweptType DEF TypeOK
  <2>2. QED
    BY <1>1, <1>4, <2>1, EndEffect DEF EndRun, TypeOK, settings, history
<1>5. CASE Crash(w)
  <2>1. unrecorded' \subseteq Keys
    BY <1>1, <1>2, <1>5 DEF Crash, TypeOK, TypeInv, Working, AtWork
  <2>2. QED
    BY <1>1, <1>5, <2>1, EndEffect DEF Crash, TypeOK, settings
<1>6. ASSUME NEW k \in Keys, Claim(w, k) PROVE TypeOK'
  <2>1. claims' \in [Keys -> Nat] /\ outlived' \subseteq Keys
    BY <1>1, <1>6 DEF Claim, TypeOK
  <2>2. QED
    BY <1>1, <1>6, <2>1, ClaimEffect DEF Claim, TypeOK, settings
<1>7. ASSUME Quiet, UNCHANGED <<calls, sent, unrecorded>>, worker' \in [Workers -> Run],
             rows' \in [Keys -> Row]
      PROVE  TypeOK'
  BY <1>1, <1>7 DEF Quiet, TypeOK, settings
<1>8. rows \in [Keys -> Row]
  BY <1>1 DEF TypeOK
<1>9. CASE AskSwitch(w) \/ ReadMonth(w) \/ ReadTransaction(w) \/ Refresh(w)
  BY <1>1, <1>7, <1>8, <1>9, AskSwitchEffect, ReadMonthEffect, ReadTransactionEffect, RefreshEffect
<1>10. CASE Finish(w)
  BY <1>7, <1>10, FinishEffect
<1>11. CASE Send(w)
  <2>1. worker[w].key \in Keys
    BY <1>1, <1>2, <1>11, SendEffect DEF AtWork
  <2>2. calls' \in [Keys -> Nat] /\ unrecorded' \subseteq Keys
    BY <1>1, <1>11, <2>1, SendEffect DEF TypeOK
  <2>3. Accepted(worker[w].key) \in [Keys -> 0..2]
    BY <1>1, <2>1 DEF Accepted, TypeOK
  <2>4. sent' \in [Keys -> 0..2]
    BY <1>1, <1>11, <2>3, SendEffect DEF TypeOK
  <2>5. QED
    BY <1>1, <1>11, <2>2, <2>4, SendEffect DEF Quiet, TypeOK, settings
<1>12. QED
  BY <1>3, <1>4, <1>5, <1>6, <1>9, <1>10, <1>11 DEF WorkerStep, DeliveryStep

(* A run keeps the key it has claimed while it is at work. *)
LEMMA WorkingStep ==
    ASSUME TypeInv, Next
    PROVE  Working'
<1> USE DEF Working, AtWork
<1>1. Working /\ TypeOK
  BY DEF TypeInv
<1>2. ASSUME UNCHANGED worker PROVE Working'
  BY <1>1, <1>2
<1>3. CASE (\E e \in Events : Publish(e)) \/ Prune \/ Tick
  BY <1>2, <1>3 DEF Publish, Prune, Tick
<1>4. CASE ChangeStep
  <2>1. Changed
    BY <1>4 DEF ChangeStep, ChangeZone, FlipSwitch, ApproveConnection, CloseConnection,
           SetSubscription, EditTransaction, CrossLimit
  <2>2. QED
    BY <1>1, <2>1, ChangedEffect
<1>5. ASSUME NEW w \in Workers, WorkerStep(w) PROVE Working'
  <2>1. ASSUME LetsGo(w) PROVE Working'
    BY <1>1, <2>1 DEF LetsGo, Others
  <2>2. ASSUME NEW k \in Keys, Claim(w, k) PROVE Working'
    BY <1>1, <2>2, ClaimEffect DEF Others
  <2>3. ASSUME GoesOn(w), AtWork(w), worker'[w].phase = "answered" <=> worker'[w].outcome # "none"
        PROVE  Working'
    BY <1>1, <2>3 DEF GoesOn, Others
  <2>4. CASE DeliveryStep(w)
    <3>1. CASE AskSwitch(w) \/ ReadMonth(w) \/ ReadTransaction(w) \/ Refresh(w) \/ Send(w)
      BY <1>1, <2>1, <2>3, <3>1, AskSwitchEffect, ReadMonthEffect, ReadTransactionEffect,
         RefreshEffect, SendEffect
    <3>2. QED
      BY <2>1, <2>4, <3>1, FinishEffect DEF DeliveryStep
  <2>5. QED
    BY <1>5, <2>1, <2>2, <2>4, StartRunEffect, EndEffect DEF WorkerStep
<1>6. QED
  BY <1>3, <1>4, <1>5 DEF Next

LEMMA NextType == TypeInv /\ [Next]_vars => TypeInv'
<1> SUFFICES ASSUME TypeInv, [Next]_vars PROVE TypeInv'
  OBVIOUS
<1>1. TypeOK
  BY DEF TypeInv
<1>2. CASE Next
  <2>1. ASSUME Tick PROVE TypeOK'
    BY <1>1, <2>1, TimeAssumption DEF Tick, TypeOK, settings, history
  <2>2. TypeOK'
    BY <1>1, <1>2, <2>1, PublishType, RunType, ChangeType, PruneType DEF Next
  <2>3. QED
    BY <1>2, <2>2, WorkingStep DEF TypeInv
<1>3. CASE UNCHANGED vars
  BY <1>3 DEF vars, settings, history, TypeInv, TypeOK, Working, AtWork
<1>4. QED
  BY <1>2, <1>3

LEMMA AlwaysTyped == Spec => []TypeInv
  BY InitType, NextType, PTL DEF Spec

(* Every variable has its type whatever runs overlap, crash or are taken     *)
(* over; no row passes max_attempts.                                          *)
THEOREM TypeCorrect == Spec => []TypeOK
<1>1. TypeInv => TypeOK
  BY DEF TypeInv
<1>2. QED
  BY <1>1, AlwaysTyped, PTL

-----------------------------------------------------------------------------
(* Deliveries and the claims on them *)

(* A row is of a delivery that was opened, of an event that is planned; while *)
(* it is open its attempts are all the claims there were.                     *)
Kept(k) ==
    /\ rows[k].status # "none" => k \in opened
    /\ k \in opened => events[k.event].planned
    /\ k \notin opened => claims[k] = 0 /\ sent[k] = 0
    /\ claims[k] <= MaxAttempts
    /\ Open(rows[k]) => claims[k] = rows[k].attempts
    /\ rows[k].status = "inProgress" => rows[k].nextAttemptAt <= clock

EventsPlanned == \A e \in Events : events[e].planned => events[e].state # "unborn"

(* Every run at work has a claim of its own.                                  *)
Claiming ==
    \A w \in Workers :
        AtWork(w) => worker[w].key \in opened /\ worker[w].attempts <= claims[worker[w].key]

Apart ==
    \A v, w \in Workers :
        (v # w /\ AtWork(v) /\ AtWork(w) /\ worker[v].key = worker[w].key)
        => worker[v].attempts # worker[w].attempts

Waiting(k) == {w \in Workers : Awaits(w) /\ worker[w].key = k}

(* The calls made and those to come are not more than the claims.             *)
Licensed ==
    \A k \in Keys : IsFiniteSet(Waiting(k)) /\ calls[k] + Cardinality(Waiting(k)) <= claims[k]

DeliveryInv == (\A k \in Keys : Kept(k)) /\ EventsPlanned /\ Claiming /\ Apart /\ Licensed

(* A row goes on, is closed, or goes when it is closed.                       *)
RowStep(k) ==
    /\ Open(rows'[k]) => Open(rows[k]) /\ rows'[k].attempts = rows[k].attempts
    /\ rows'[k].status = "none" => ~Open(rows[k])
    /\ rows'[k].status # "none" => rows[k].status # "none"
    /\ rows'[k].status = "inProgress" => rows'[k] = rows[k]

(* It does not change unless it is closed; when it is, its due time stays.    *)
RowCloses(k) ==
    /\ Open(rows'[k]) => rows'[k] = rows[k]
    /\ rows'[k].status # "none" => rows'[k].nextAttemptAt = rows[k].nextAttemptAt

LEMMA SweptStep ==
    ASSUME TypeOK, NEW k \in Keys, rows'[k] = Swept(rows[k])
    PROVE  RowStep(k) /\ RowCloses(k)
<1>1. rows[k] \in Row
  BY DEF TypeOK
<1>2. QED
  BY <1>1 DEF Swept, RowStep, RowCloses, Open, Statuses, Terminal, Row

LEMMA PrunedStep ==
    ASSUME TypeOK, NEW k \in Keys, rows'[k] = Pruned(k)
    PROVE  RowStep(k) /\ RowCloses(k)
<1>1. rows[k] \in Row /\ clock \in Int /\ Retention \in Nat
  BY TimeAssumption DEF TypeOK
<1>2. CASE Open(rows[k]) /\ LeaseOver(rows[k]) /\ ExpiresAt(k.event) <= clock
  <2>1. Expired(k) \in Row /\ Expired(k).status = "expired" /\ Expired(k).updatedAt = clock
        /\ Expired(k).nextAttemptAt = rows[k].nextAttemptAt
    BY <1>1, <1>2, PrunedType DEF Expired, Row
  <2>2. Pruned(k) = Expired(k)
    BY <1>1, <2>1 DEF Pruned
  <2>3. QED
    BY <1>2, <2>1, <2>2 DEF RowStep, RowCloses, Open, Statuses, Terminal
<1>3. CASE ~(Open(rows[k]) /\ LeaseOver(rows[k]) /\ ExpiresAt(k.event) <= clock)
  <2>1. Expired(k) = rows[k]
    BY <1>3 DEF Expired
  <2>2. QED
    BY <1>1, <2>1 DEF Pruned, NoRow, RowStep, RowCloses, Open, Statuses, Terminal
<1>4. QED
  BY <1>2, <1>3

LEMMA FinishedStep ==
    ASSUME TypeInv, NEW w \in Workers, Finish(w)
    PROVE  \A k \in Keys : RowStep(k)
<1>1. rows \in [Keys -> Row] /\ worker[w].key \in Keys /\ worker[w] \in Run
  BY DEF Finish, TypeInv, TypeOK, Working, AtWork
<1>2. CASE UNCHANGED rows
  BY <1>2 DEF RowStep, Open, Statuses
<1>3. CASE Held(w) /\ rows' = [rows EXCEPT ![worker[w].key] = Finished(w)]
  <2>1. rows[worker[w].key].status = "inProgress"
    BY <1>3 DEF Held
  <2>2. Finished(w).attempts = rows[worker[w].key].attempts
        /\ Finished(w).status = worker[w].outcome
    BY <1>1 DEF Finished, Row
  <2>3. worker[w].outcome \notin {"none", "inProgress", "pending"}
    BY <1>1 DEF Run, Finish, TypeInv, Working
  <2>4. QED
    BY <1>1, <1>3, <2>1, <2>2, <2>3 DEF RowStep, Open, Statuses, Terminal
<1>4. QED
  BY <1>2, <1>3, FinishEffect

LEMMA InitInv == Init => DeliveryInv
<1> SUFFICES ASSUME Init PROVE DeliveryInv
  OBVIOUS
<1>1. \A w \in Workers : ~AtWork(w)
  BY DEF Init, AtWork, IdleWorker
<1>2. \A k \in Keys : Waiting(k) = {}
  BY <1>1 DEF Waiting, Awaits
<1>3. Licensed
  <2>1. ASSUME NEW k \in Keys
        PROVE IsFiniteSet(Waiting(k)) /\ calls[k] + Cardinality(Waiting(k)) <= claims[k]
    <3>1. Waiting(k) = {} /\ calls[k] = 0 /\ claims[k] = 0
      BY <1>2 DEF Init
    <3>2. IsFiniteSet({}) /\ Cardinality({}) = 0
      BY FS_EmptySet
    <3>3. QED
      BY <3>1, <3>2
  <2>2. QED
    BY <2>1 DEF Licensed
<1>4. \A k \in Keys : Kept(k)
  BY LimitAssumption DEF Init, Kept, NoRow, Open, Statuses
<1>5. QED
  BY <1>1, <1>3, <1>4 DEF DeliveryInv, EventsPlanned, Claiming, Apart, Init, NoEvent

(* Nothing is claimed or called; runs go on or let go.                        *)
LEMMA FewerRuns ==
    ASSUME TypeInv, DeliveryInv, UNCHANGED <<claims, calls>>, opened \subseteq opened',
           \A w \in Workers :
               /\ AtWork(w)' => /\ AtWork(w) /\ worker'[w].key = worker[w].key
                                /\ worker'[w].attempts = worker[w].attempts
               /\ Awaits(w)' => Awaits(w)
    PROVE  Claiming' /\ Apart' /\ Licensed'
<1>1. Claiming' /\ Apart'
  BY DEF DeliveryInv, Claiming, Apart
<1>2. ASSUME NEW k \in Keys
      PROVE IsFiniteSet(Waiting(k)') /\ calls'[k] + Cardinality(Waiting(k)') <= claims'[k]
  <2>1. Waiting(k)' \subseteq Waiting(k)
    BY DEF Waiting, Awaits
  <2>2. IsFiniteSet(Waiting(k)) /\ calls[k] + Cardinality(Waiting(k)) <= claims[k]
    BY DEF DeliveryInv, Licensed
  <2>3. /\ IsFiniteSet(Waiting(k)') /\ Cardinality(Waiting(k)') <= Cardinality(Waiting(k))
        /\ Cardinality(Waiting(k)') \in Nat /\ Cardinality(Waiting(k)) \in Nat
    BY <2>1, <2>2, FS_Subset, FS_CardinalityType
  <2>4. calls[k] \in Nat /\ claims[k] \in Nat
    BY DEF TypeInv, TypeOK
  <2>5. QED
    BY <2>2, <2>3, <2>4
<1>3. QED
  BY <1>1, <1>2 DEF Licensed

(* No delivery is opened or claimed; rows go on or are closed.                *)
LEMMA RowsKept ==
    ASSUME TypeInv, DeliveryInv, UNCHANGED <<opened, claims>>, clock' \in Nat, clock <= clock',
           \A k \in Keys : RowStep(k) /\ (k \notin opened => sent'[k] = sent[k]),
           \A e \in Events : /\ events[e].planned => events'[e].planned
                             /\ events'[e].planned => events[e].planned
                             /\ events[e].state # "unborn" => events'[e].state # "unborn"
    PROVE  (\A k \in Keys : Kept(k)') /\ EventsPlanned'
<1>1. ASSUME NEW k \in Keys PROVE Kept(k)'
  <2>1. Kept(k) /\ RowStep(k) /\ rows[k] \in Row /\ clock \in Nat
    BY DEF DeliveryInv, TypeInv, TypeOK
  <2>2. k.event \in Events
    BY DEF Keys
  <2>3. QED
    BY <2>1, <2>2 DEF Kept, RowStep, Row
<1>2. QED
  BY <1>1 DEF DeliveryInv, EventsPlanned

LEMMA ClaimInv ==
    ASSUME TypeInv, DeliveryInv, NEW w \in Workers, NEW k \in Keys, Claim(w, k)
    PROVE  DeliveryInv'
<1>1. TypeOK /\ rows[k] \in Row /\ claims \in [Keys -> Nat] /\ calls \in [Keys -> Nat]
      /\ clock \in Nat
  BY DEF TypeInv, TypeOK
<1>2. /\ UNCHANGED <<clock, events, opened, calls, sent>>
      /\ claims' = [claims EXCEPT ![k] = @ + 1] /\ Claimable(rows[k])
  BY DEF Claim
<1>3. /\ Others(w) /\ worker[w].phase = "run" /\ worker'[w].phase = "claimed"
      /\ worker'[w].key = k /\ worker'[w].attempts = rows[k].attempts + 1
      /\ rows'[k].attempts = rows[k].attempts + 1
      /\ rows'[k].nextAttemptAt = rows[k].nextAttemptAt
      /\ \A j \in Keys \ {k} : rows'[j] = Swept(rows[j])
  BY <1>1, ClaimEffect
<1>4. Open(rows[k]) /\ rows[k].attempts < MaxAttempts /\ rows[k].nextAttemptAt <= clock
      /\ Kept(k) /\ k \in opened /\ claims[k] = rows[k].attempts /\ rows[k].attempts \in Nat
  BY <1>1, <1>2 DEF Claimable, DeliveryInv, Kept, Open, Statuses, Row
<1>5. Kept(k)'
  BY <1>1, <1>2, <1>3, <1>4, LimitAssumption DEF Kept
<1>6. ASSUME NEW j \in Keys \ {k} PROVE Kept(j)'
  <2>1. RowStep(j) /\ Kept(j) /\ rows[j] \in Row
    BY <1>1, <1>3, SweptStep DEF DeliveryInv, TypeOK
  <2>2. QED
    BY <1>1, <1>2, <2>1 DEF Kept, RowStep
<1>7. Claiming' /\ Apart'
  <2>1. \A v \in Workers \ {w} : AtWork(v)' => AtWork(v) /\ worker'[v] = worker[v]
                                               /\ worker[v].attempts \in Nat
    BY <1>1, <1>3 DEF AtWork, Others, TypeOK, Run
  <2>2. \A v \in Workers \ {w} : AtWork(v)' /\ worker'[v].key = k
                                  => worker'[v].attempts < worker'[w].attempts
    BY <1>3, <1>4, <2>1 DEF DeliveryInv, Claiming
  <2>3. Claiming'
    BY <1>1, <1>2, <1>3, <1>4, <2>1 DEF DeliveryInv, Claiming
  <2>4. Apart'
    BY <1>1, <1>3, <1>4, <2>1, <2>2 DEF DeliveryInv, Apart
  <2>5. QED
    BY <2>3, <2>4
<1>8. ASSUME NEW j \in Keys
      PROVE IsFiniteSet(Waiting(j)') /\ calls'[j] + Cardinality(Waiting(j)') <= claims'[j]
  <2>1. IsFiniteSet(Waiting(j)) /\ calls[j] + Cardinality(Waiting(j)) <= claims[j]
        /\ calls[j] \in Nat /\ claims[j] \in Nat
    BY <1>1 DEF DeliveryInv, Licensed
  <2>2. Cardinality(Waiting(j)) \in Nat
    BY <2>1, FS_CardinalityType
  <2>3. CASE j = k
    <3>1. w \notin Waiting(k) /\ Waiting(k)' = Waiting(k) \cup {w}
      BY <1>3 DEF Waiting, Awaits, AtWork, Others
    <3>2. IsFiniteSet(Waiting(k)') /\ Cardinality(Waiting(k)') = Cardinality(Waiting(k)) + 1
      BY <2>1, <2>3, <3>1, FS_AddElement
    <3>3. QED
      BY <1>1, <1>2, <2>1, <2>2, <2>3, <3>2
  <2>4. CASE j # k
    <3>1. Waiting(j)' = Waiting(j)
      BY <1>3, <2>4 DEF Waiting, Awaits, AtWork, Others
    <3>2. QED
      BY <1>1, <1>2, <2>1, <2>4, <3>1
  <2>5. QED
    BY <2>3, <2>4
<1>9. QED
  BY <1>2, <1>5, <1>6, <1>7, <1>8 DEF DeliveryInv, Licensed, EventsPlanned

(* A step that opens, claims and calls nothing.                               *)
Ordinary ==
    /\ UNCHANGED <<opened, claims, calls, sent>> /\ clock' \in Nat /\ clock <= clock'
    /\ \A k \in Keys : RowStep(k)
    /\ \A e \in Events : /\ events'[e].planned = events[e].planned
                         /\ events[e].state # "unborn" => events'[e].state # "unborn"
    /\ \A w \in Workers :
          /\ AtWork(w)' => /\ AtWork(w) /\ worker'[w].key = worker[w].key
                           /\ worker'[w].attempts = worker[w].attempts
          /\ Awaits(w)' => Awaits(w)

LEMMA SameRows ==
    ASSUME UNCHANGED rows
    PROVE  \A k \in Keys : RowStep(k) /\ RowCloses(k)
  BY DEF RowStep, RowCloses, Open, Statuses

LEMMA OrdinaryWorker ==
    ASSUME TypeInv, NEW w \in Workers, EndRun(w) \/ Crash(w) \/ DeliveryStep(w), ~Send(w)
    PROVE  Ordinary
<1>1. clock \in Nat /\ TypeOK /\ rows \in [Keys -> Row]
  BY DEF TypeInv, TypeOK
<1>2. UNCHANGED <<clock, events, opened, claims, calls, sent>>
  BY <1>1, AskSwitchEffect, ReadMonthEffect, ReadTransactionEffect, RefreshEffect, FinishEffect
     DEF Quiet, EndRun, Crash, history, DeliveryStep
<1>3. \A k \in Keys : RowStep(k)
  <2>1. CASE EndRun(w)
    BY <1>1, <2>1, SweptStep DEF EndRun
  <2>2. CASE Finish(w)
    BY <2>2, FinishedStep
  <2>3. CASE UNCHANGED rows
    BY <2>3, SameRows
  <2>4. QED
    BY <1>1, <2>1, <2>2, <2>3, AskSwitchEffect, ReadMonthEffect, ReadTransactionEffect,
       RefreshEffect DEF Crash, DeliveryStep
<1>4. LetsGo(w) \/ (GoesOn(w) /\ AtWork(w) /\ Awaits(w))
  BY <1>1, EndEffect, AskSwitchEffect, ReadMonthEffect, ReadTransactionEffect, RefreshEffect,
     FinishEffect DEF AtWork, Awaits, DeliveryStep
<1>5. \A v \in Workers :
          /\ AtWork(v)' => /\ AtWork(v) /\ worker'[v].key = worker[v].key
                           /\ worker'[v].attempts = worker[v].attempts
          /\ Awaits(v)' => Awaits(v)
  BY <1>4 DEF LetsGo, GoesOn, Others, AtWork, Awaits
<1>6. QED
  BY <1>1, <1>2, <1>3, <1>5 DEF Ordinary

LEMMA OrdinaryRest ==
    ASSUME TypeInv, DeliveryInv, (\E e \in Events : Publish(e)) \/ ChangeStep \/ Prune \/ Tick
    PROVE  Ordinary
<1>1. clock \in Nat /\ TypeOK /\ events \in [Events -> Event] /\ worker \in [Workers -> Run]
  BY DEF TypeInv, TypeOK
<1>2. CASE UNCHANGED <<rows, events, worker, history>> /\ clock' \in Nat /\ clock <= clock'
  BY <1>2, SameRows DEF Ordinary, history, AtWork, Awaits
<1>3. CASE Tick
  BY <1>1, <1>2, <1>3 DEF Tick
<1>4. ASSUME NEW e \in Events, Publish(e) PROVE Ordinary
  <2>1. /\ UNCHANGED <<clock, rows, worker, history>>
        /\ events[e].state = "unborn" /\ events'[e].state = "live"
        /\ events'[e].planned = FALSE /\ \A d \in Events \ {e} : events'[d] = events[d]
    BY <1>1, <1>4, PublishEffect DEF Publish
  <2>2. events[e].planned = FALSE
    BY <1>1, <2>1 DEF DeliveryInv, EventsPlanned, Event
  <2>3. \A d \in Events : /\ events'[d].planned = events[d].planned
                          /\ events[d].state # "unborn" => events'[d].state # "unborn"
    BY <2>1, <2>2
  <2>4. \A k \in Keys : RowStep(k)
    BY <2>1, SameRows
  <2>5. QED
    BY <1>1, <2>1, <2>3, <2>4 DEF Ordinary, history, AtWork, Awaits
<1>5. CASE ChangeStep
  <2>1. Changed
    BY <1>5 DEF ChangeStep, ChangeZone, FlipSwitch, ApproveConnection, CloseConnection,
           SetSubscription, EditTransaction, CrossLimit
  <2>2. UNCHANGED <<clock, events, rows, history>>
    BY <2>1 DEF Changed
  <2>3. \A w \in Workers : /\ worker'[w].phase = worker[w].phase
                           /\ worker'[w].key = worker[w].key
                           /\ worker'[w].attempts = worker[w].attempts
    BY <2>1, ChangedEffect
  <2>4. QED
    BY <1>1, <2>2, <2>3, SameRows DEF Ordinary, history, AtWork, Awaits
<1>6. CASE Prune
  <2>1. \A k \in Keys : RowStep(k)
    BY <1>1, <1>6, PrunedStep DEF Prune
  <2>2. \A e \in Events : /\ events'[e].planned = events[e].planned
                          /\ events[e].state # "unborn" => events'[e].state # "unborn"
    BY <1>1, <1>6 DEF Prune, Event
  <2>3. QED
    BY <1>1, <1>6, <2>1, <2>2 DEF Prune, Ordinary, history, AtWork, Awaits
<1>7. QED
  BY <1>3, <1>4, <1>5, <1>6

(* A run opens deliveries that never were: their events were not planned.     *)
LEMMA StartRunOpens ==
    ASSUME TypeInv, DeliveryInv, NEW w \in Workers, StartRun(w)
    PROVE  \E N \in SUBSET Keys :
              /\ N \cap opened = {} /\ opened' = opened \cup N
              /\ \A k \in N : rows[k].status = "none" /\ rows'[k] = PendingRow
                              /\ events'[k.event].planned
              /\ \A k \in Keys \ N : rows'[k] = rows[k]
              /\ \A e \in Events : /\ events[e].planned => events'[e].planned
                                   /\ events'[e].planned => events[e].state # "unborn"
                                   /\ events'[e].state = events[e].state
<1>1. PICK E \in SUBSET Unplanned :
          /\ events' = [e \in Events |-> IF e \in E THEN [events[e] EXCEPT !.planned = TRUE]
                                                    ELSE events[e]]
          /\ rows' = [k \in Keys |-> IF k \in Planned(E) THEN PendingRow ELSE rows[k]]
          /\ opened' = opened \cup Planned(E)
  BY DEF StartRun
<1>2. events \in [Events -> Event]
  BY DEF TypeInv, TypeOK
<1>3. \A e \in Events : /\ e \in E => events'[e].planned /\ events[e].state # "unborn"
                                      /\ ~events[e].planned
                        /\ e \notin E => events'[e] = events[e]
                        /\ events'[e].state = events[e].state
  BY <1>1, <1>2 DEF Unplanned, Live, Event
<1>4. \A k \in Planned(E) : k \in Keys /\ k.event \in E /\ rows[k].status = "none"
  BY DEF Planned
<1>5. \A k \in Planned(E) : k.event \in Events /\ ~events[k.event].planned /\ events'[k.event].planned
  BY <1>3, <1>4 DEF Unplanned
<1>6. Planned(E) \cap opened = {}
  BY <1>4, <1>5 DEF DeliveryInv, Kept
<1>7. \A e \in Events : /\ events[e].planned => events'[e].planned
                        /\ events'[e].planned => events[e].state # "unborn"
                        /\ events'[e].state = events[e].state
  BY <1>3 DEF DeliveryInv, EventsPlanned
<1>8. Planned(E) \in SUBSET Keys
  BY <1>4
<1>9. /\ \A k \in Planned(E) : rows[k].status = "none" /\ rows'[k] = PendingRow
                               /\ events'[k.event].planned
      /\ \A k \in Keys \ Planned(E) : rows'[k] = rows[k]
  BY <1>1, <1>4, <1>5
<1>10. QED
  BY <1>1, <1>6, <1>7, <1>8, <1>9

LEMMA StartRunInv ==
    ASSUME TypeInv, DeliveryInv, NEW w \in Workers, StartRun(w)
    PROVE  DeliveryInv'
<1>1. PICK N \in SUBSET Keys :
              /\ N \cap opened = {} /\ opened' = opened \cup N
              /\ \A k \in N : rows[k].status = "none" /\ rows'[k] = PendingRow
                              /\ events'[k.event].planned
              /\ \A k \in Keys \ N : rows'[k] = rows[k]
              /\ \A e \in Events : /\ events[e].planned => events'[e].planned
                                   /\ events'[e].planned => events[e].state # "unborn"
                                   /\ events'[e].state = events[e].state
  BY StartRunOpens
<1>2. UNCHANGED <<clock, claims, calls, sent>> /\ clock \in Nat
  BY DEF StartRun, TypeInv, TypeOK
<1>3. PendingRow.status = "pending" /\ PendingRow.attempts = 0
  BY DEF PendingRow
<1>4. ASSUME NEW k \in Keys PROVE Kept(k)'
  <2>1. Kept(k) /\ k.event \in Events
    BY DEF DeliveryInv, Keys
  <2>2. CASE k \in N
    BY <1>1, <1>2, <1>3, <2>1, <2>2, LimitAssumption DEF Kept, Open, Statuses, Terminal
  <2>3. CASE k \notin N
    <3>1. rows'[k] = rows[k] /\ (k \in opened' <=> k \in opened)
      BY <1>1, <2>3
    <3>2. QED
      BY <1>1, <1>2, <2>1, <3>1 DEF Kept
  <2>4. QED
    BY <2>2, <2>3
<1>5. EventsPlanned'
  BY <1>1 DEF EventsPlanned
<1>6. \A v \in Workers : /\ AtWork(v)' => /\ AtWork(v) /\ worker'[v].key = worker[v].key
                                          /\ worker'[v].attempts = worker[v].attempts
                         /\ Awaits(v)' => Awaits(v)
  BY StartRunEffect DEF LetsGo, Others, AtWork, Awaits
<1>7. Claiming' /\ Apart' /\ Licensed'
  BY <1>1, <1>2, <1>6, FewerRuns
<1>8. QED
  BY <1>4, <1>5, <1>7 DEF DeliveryInv

(* The call that was to come has been made.                                   *)
LEMMA SendCalls ==
    ASSUME TypeInv, DeliveryInv, NEW w \in Workers, Send(w)
    PROVE  LET k == worker[w].key
           IN  /\ k \in Keys /\ k \in opened /\ calls[k] < claims[k]
               /\ calls' = [calls EXCEPT ![k] = @ + 1]
               /\ \A j \in Keys : j = k => Waiting(j)' = Waiting(j) \ {w} /\ w \in Waiting(j)
               /\ \A j \in Keys \ {k} : Waiting(j)' = Waiting(j)
<1> DEFINE k == worker[w].key
<1>1. /\ GoesOn(w) /\ worker[w].phase = "sending" /\ worker'[w].phase = "answered"
      /\ calls' = [calls EXCEPT ![k] = @ + 1]
  BY SendEffect DEF TypeInv
<1>2. AtWork(w) /\ k \in Keys /\ k \in opened
  BY <1>1 DEF AtWork, TypeInv, Working, DeliveryInv, Claiming
<1>3. w \in Waiting(k)
  BY <1>1, <1>2 DEF Waiting, Awaits
<1>4. /\ \A j \in Keys : j = k => Waiting(j)' = Waiting(j) \ {w} /\ w \in Waiting(j)
      /\ \A j \in Keys \ {k} : Waiting(j)' = Waiting(j)
  BY <1>1, <1>3 DEF Waiting, Awaits, AtWork, GoesOn, Others
<1>5. IsFiniteSet(Waiting(k)) /\ calls[k] + Cardinality(Waiting(k)) <= claims[k]
      /\ calls[k] \in Nat /\ claims[k] \in Nat
  BY <1>2 DEF DeliveryInv, Licensed, TypeInv, TypeOK
<1>6. Cardinality(Waiting(k)) \in Nat /\ Cardinality(Waiting(k)) # 0
  BY <1>3, <1>5, FS_CardinalityType, FS_EmptySet
<1>7. calls[k] < claims[k]
  BY <1>5, <1>6
<1>8. QED
  BY <1>1, <1>2, <1>3, <1>4, <1>7

LEMMA SendInv ==
    ASSUME TypeInv, DeliveryInv, NEW w \in Workers, Send(w)
    PROVE  DeliveryInv'
<1> DEFINE k == worker[w].key
<1>1. /\ k \in Keys /\ k \in opened /\ calls' = [calls EXCEPT ![k] = @ + 1]
      /\ \A j \in Keys : j = k => Waiting(j)' = Waiting(j) \ {w} /\ w \in Waiting(j)
      /\ \A j \in Keys \ {k} : Waiting(j)' = Waiting(j)
  BY SendCalls
<1>2. Quiet /\ GoesOn(w) /\ worker[w].phase = "sending" /\ worker'[w].phase = "answered"
      /\ UNCHANGED rows
  BY SendEffect DEF TypeInv
<1> HIDE DEF k
<1>3. \A j \in Keys \ {k} : sent'[j] = sent[j]
  BY SendEffect DEF k, TypeInv, TypeOK, Accepted
<1>4. \A j \in Keys : Kept(j)'
  BY <1>1, <1>2, <1>3 DEF Quiet, Kept, DeliveryInv
<1>5. EventsPlanned' /\ Claiming' /\ Apart'
  BY <1>2 DEF Quiet, DeliveryInv, EventsPlanned, Claiming, Apart, GoesOn, Others, AtWork
<1>6. ASSUME NEW j \in Keys
      PROVE  IsFiniteSet(Waiting(j)') /\ calls'[j] + Cardinality(Waiting(j)') <= claims'[j]
  <2>1. IsFiniteSet(Waiting(j)) /\ calls[j] + Cardinality(Waiting(j)) <= claims[j]
        /\ calls[j] \in Nat /\ claims[j] \in Nat /\ claims' = claims /\ calls \in [Keys -> Nat]
    BY <1>2 DEF DeliveryInv, Licensed, TypeInv, TypeOK, Quiet
  <2>2. Cardinality(Waiting(j)) \in Nat
    BY <2>1, FS_CardinalityType
  <2>3. CASE j = k
    <3>1. Waiting(j)' = Waiting(j) \ {w} /\ w \in Waiting(j) /\ calls'[j] = calls[j] + 1
      BY <1>1, <2>1, <2>3
    <3>2. IsFiniteSet(Waiting(j) \ {w}) /\ Cardinality(Waiting(j) \ {w}) = Cardinality(Waiting(j)) - 1
      BY <2>1, <3>1, FS_RemoveElement
    <3>3. QED
      BY <2>1, <2>2, <3>1, <3>2
  <2>4. CASE j # k
    BY <1>1, <2>1, <2>4
  <2>5. QED
    BY <2>3, <2>4
<1>7. QED
  BY <1>4, <1>5, <1>6 DEF DeliveryInv, Licensed

LEMMA NextInv == TypeInv /\ DeliveryInv /\ [Next]_vars => DeliveryInv'
<1> SUFFICES ASSUME TypeInv, DeliveryInv, [Next]_vars PROVE DeliveryInv'
  OBVIOUS
<1>1. ASSUME Ordinary PROVE DeliveryInv'
  <2>1. (\A k \in Keys : Kept(k)') /\ EventsPlanned'
    BY <1>1, RowsKept DEF Ordinary
  <2>2. Claiming' /\ Apart' /\ Licensed'
    BY <1>1, FewerRuns DEF Ordinary
  <2>3. QED
    BY <2>1, <2>2 DEF DeliveryInv
<1>2. ASSUME NEW w \in Workers, WorkerStep(w) PROVE DeliveryInv'
  BY <1>1, <1>2, OrdinaryWorker, StartRunInv, ClaimInv, SendInv DEF WorkerStep
<1>3. CASE UNCHANGED vars
  BY <1>3 DEF vars, settings, history, DeliveryInv, Kept, EventsPlanned, Claiming, Apart,
         Licensed, Waiting, Awaits, AtWork
<1>4. QED
  BY <1>1, <1>2, <1>3, OrdinaryRest DEF Next

-----------------------------------------------------------------------------
(* The contract *)

Stages == [k \in Keys |-> Stage(k)]

LEMMA ContractInit == Init => Contract!Init
<1> SUFFICES ASSUME Init PROVE Contract!Init
  OBVIOUS
<1>1. \A k \in Keys : Stage(k) = "new"
  BY DEF Init, Stage, NoRow, Open, Statuses, Terminal
<1>2. QED
  BY <1>1 DEF Init, Contract!Init

(* What a row does is what the contract lets a delivery do.                   *)
LEMMA RowMoves ==
    ASSUME TypeOK, TypeOK', NEW k \in Keys, RowStep(k), Kept(k), (k \in opened') <=> (k \in opened)
    PROVE  \/ Stage(k)' = Stage(k)
           \/ Stage(k) = "open" /\ Stage(k)' = "closed"
           \/ Stage(k) = "closed" /\ Stage(k)' = "gone"
<1>1. rows[k] \in Row /\ rows'[k] \in Row
  BY DEF TypeOK
<1>2. QED
  BY <1>1 DEF RowStep, Kept, Stage, Open, Statuses, Terminal, Row

LEMMA ContractStep ==
    ASSUME TypeInv, DeliveryInv, TypeInv', DeliveryInv', [Next]_vars
    PROVE  Contract!Next \/ UNCHANGED <<Stages, claims, calls>>
<1> USE DEF Stages
<1>1. TypeOK /\ TypeOK'
  BY DEF TypeInv
<1>2. Stages' \in [Keys -> {"new", "open", "closed", "gone"}]
  BY DEF Stage
<1>3. ASSUME NEW k \in Keys
      PROVE  claims'[k] \in 0..MaxAttempts /\ calls'[k] \in 0..MaxAttempts
  <2>1. claims'[k] \in Nat /\ calls'[k] \in Nat /\ MaxAttempts \in Nat /\ claims'[k] <= MaxAttempts
    BY <1>1, LimitAssumption DEF TypeOK, DeliveryInv, Kept
  <2>2. IsFiniteSet(Waiting(k)') /\ calls'[k] + Cardinality(Waiting(k)') <= claims'[k]
    BY DEF DeliveryInv, Licensed
  <2>3. Cardinality(Waiting(k)') \in Nat
    BY <2>2, FS_CardinalityType
  <2>4. QED
    BY <2>1, <2>2, <2>3
<1>4. claims' \in [Keys -> 0..MaxAttempts] /\ calls' \in [Keys -> 0..MaxAttempts]
  BY <1>1, <1>3 DEF TypeOK
<1> DEFINE Allowed(k) == \/ Contract!Rest(k) \/ Contract!Open(k) \/ Contract!License(k)
                         \/ Contract!Call(k) \/ Contract!Close(k) \/ Contract!Forget(k)
<1>5. ASSUME \A k \in Keys : Allowed(k) PROVE Contract!Next
  BY <1>2, <1>4, <1>5 DEF Contract!Next, Contract!Stages
<1> HIDE DEF Allowed
<1>6. ASSUME NEW k \in Keys, claims'[k] = claims[k], calls'[k] = calls[k],
             \/ Stage(k)' = Stage(k)
             \/ Stage(k) = "new" /\ Stage(k)' = "open"
             \/ Stage(k) = "open" /\ Stage(k)' = "closed"
             \/ Stage(k) = "closed" /\ Stage(k)' = "gone"
      PROVE  Allowed(k)
  <2>1. claims'[k] = claims[k] + 0 /\ calls'[k] = calls[k] + 0
    BY <1>1, <1>6 DEF TypeOK
  <2>2. QED
    BY <1>6, <2>1 DEF Allowed, Contract!Rest, Contract!Open, Contract!Close, Contract!Forget,
       Contract!Moves, Contract!Licences
<1>7. CASE Ordinary
  <2>1. \A k \in Keys : Allowed(k)
    BY <1>1, <1>6, <1>7, RowMoves DEF Ordinary, DeliveryInv
  <2>2. QED
    BY <1>5, <2>1
<1>8. ASSUME NEW w \in Workers, StartRun(w) PROVE Contract!Next
  <2>1. PICK N \in SUBSET Keys :
              /\ N \cap opened = {} /\ opened' = opened \cup N
              /\ \A k \in N : rows[k].status = "none" /\ rows'[k] = PendingRow
                              /\ events'[k.event].planned
              /\ \A k \in Keys \ N : rows'[k] = rows[k]
              /\ \A e \in Events : /\ events[e].planned => events'[e].planned
                                   /\ events'[e].planned => events[e].state # "unborn"
                                   /\ events'[e].state = events[e].state
    BY <1>8, StartRunOpens
  <2>2. UNCHANGED <<claims, calls>>
    BY <1>8 DEF StartRun
  <2>3. \A k \in N : Stage(k) = "new" /\ Stage(k)' = "open"
    BY <2>1 DEF Stage, PendingRow, Open, Statuses, Terminal
  <2>4. \A k \in Keys \ N : Stage(k)' = Stage(k)
    BY <2>1 DEF Stage
  <2>5. \A k \in Keys : Allowed(k)
    BY <1>6, <2>2, <2>3, <2>4
  <2>6. QED
    BY <1>5, <2>5
<1>9. ASSUME NEW w \in Workers, NEW k \in Keys, Claim(w, k) PROVE Contract!Next
  <2>1. /\ UNCHANGED <<opened, calls>> /\ claims' = [claims EXCEPT ![k] = @ + 1]
        /\ Claimable(rows[k])
    BY <1>9 DEF Claim
  <2>2. rows'[k].status = "inProgress" /\ \A j \in Keys \ {k} : rows'[j] = Swept(rows[j])
    BY <1>1, <1>9, ClaimEffect
  <2>3. \A j \in Keys \ {k} : Allowed(j)
    <3>1. \A j \in Keys \ {k} : RowStep(j) /\ Kept(j)
      BY <1>1, <2>2, SweptStep DEF DeliveryInv
    <3>2. \A j \in Keys \ {k} : claims'[j] = claims[j] /\ calls'[j] = calls[j]
      BY <1>1, <2>1 DEF TypeOK
    <3>3. QED
      BY <1>1, <1>6, <2>1, <3>1, <3>2, RowMoves
  <2>4. Stage(k) = "open" /\ Stage(k)' = "open"
    BY <2>1, <2>2 DEF Claimable, Stage, Open, Statuses, Terminal
  <2>5. claims[k] < MaxAttempts /\ claims'[k] = claims[k] + 1 /\ calls'[k] = calls[k] + 0
    BY <1>1, <2>1, <2>4, LimitAssumption DEF Claimable, TypeOK, DeliveryInv, Kept
  <2>6. Allowed(k)
    BY <2>4, <2>5 DEF Allowed, Contract!License, Contract!Licences
  <2>7. QED
    BY <1>5, <2>3, <2>6
<1>10. ASSUME NEW w \in Workers, Send(w) PROVE Contract!Next
  <2>1. PICK k \in Keys : /\ calls[k] < claims[k] /\ calls' = [calls EXCEPT ![k] = @ + 1]
    BY <1>10, SendCalls
  <2>2. UNCHANGED <<rows, opened, claims>>
    BY <1>1, <1>10, SendEffect DEF Quiet
  <2>3. \A j \in Keys : Stage(j)' = Stage(j)
    BY <2>2 DEF Stage
  <2>4. \A j \in Keys \ {k} : Allowed(j)
    BY <1>1, <1>6, <2>1, <2>2, <2>3 DEF TypeOK
  <2>5. Allowed(k)
    BY <1>1, <2>1, <2>2, <2>3 DEF Allowed, Contract!Call, Contract!Licences, TypeOK
  <2>6. QED
    BY <1>5, <2>4, <2>5
<1>11. CASE UNCHANGED vars
  <2>1. UNCHANGED <<rows, opened, claims, calls>>
    BY <1>11 DEF vars, history
  <2>2. UNCHANGED Stages
    BY <2>1 DEF Stage
  <2>3. QED
    BY <2>1, <2>2
<1>12. CASE Next
  BY <1>7, <1>8, <1>9, <1>10, <1>12, OrdinaryWorker, OrdinaryRest DEF Next, WorkerStep
<1>13. QED
  BY <1>11, <1>12

LEMMA AlwaysInv == Spec => [](TypeInv /\ DeliveryInv)
<1>1. Init => TypeInv /\ DeliveryInv
  BY InitType, InitInv
<1>2. (TypeInv /\ DeliveryInv) /\ [Next]_vars => (TypeInv /\ DeliveryInv)'
  BY NextType, NextInv
<1>3. QED
  BY <1>1, <1>2, PTL DEF Spec

(* ImplementsContract: whatever the interleaving of runs, crashes, sweeps and *)
(* prunes, a delivery opens once, no call goes without a licence of its own,  *)
(* and what is closed or gone stays so.                                       *)
THEOREM ContractCorrect == Spec => ImplementsContract
<1>1. Init => Contract!Init
  BY ContractInit
<1>2. (TypeInv /\ DeliveryInv) /\ (TypeInv /\ DeliveryInv)' /\ [Next]_vars
      => [Contract!Next]_<<[k \in Keys |-> Stage(k)], claims, calls>>
  BY ContractStep DEF Stages
<1>3. QED
  BY <1>1, <1>2, AlwaysInv, PTL DEF Spec, ImplementsContract, Contract!Spec

-----------------------------------------------------------------------------
(* The calls *)

(* Unless a run outlived its lease past the recheck of k, one run at most has *)
(* a message of k in flight, an open row is that run's, and its due time has  *)
(* come.                                                                      *)
OneFlight(k) ==
    \A w \in Workers :
        InFlight(w) /\ worker[w].key = k =>
            /\ Open(rows[k]) => Held(w)
            /\ \A v \in Workers : InFlight(v) /\ worker[v].key = k => v = w

Due(k) ==
    \A w \in Workers :
        worker[w].phase = "sending" /\ worker[w].key = k /\ rows[k].status # "none"
        => rows[k].nextAttemptAt <= clock

(* If, besides, no accepted message of k went unrecorded: after the first one *)
(* nobody sends, and the row stays open only until the run records it.        *)
Once(k) ==
    /\ sent[k] <= 1
    /\ sent[k] = 1 =>
         /\ \A w \in Workers : worker[w].key = k => worker[w].phase # "sending"
         /\ \/ ~Open(rows[k])
            \/ \E w \in Workers : worker[w].key = k /\ worker[w].outcome = "done"

FlightInv(k) ==
    k \notin outlived => OneFlight(k) /\ Due(k) /\ (k \notin unrecorded => Once(k))

CallInv == \A k \in Keys : FlightInv(k)

(* Nothing of k is sent, and no outcome of k is lost unseen.                  *)
Calm(k) ==
    /\ RowStep(k) /\ RowCloses(k)
    /\ sent'[k] = sent[k]
    /\ k \in outlived => k \in outlived'
    /\ k \in unrecorded => k \in unrecorded'
    /\ \A w \in Workers :
          /\ InFlight(w)' /\ worker'[w].key = k =>
                /\ InFlight(w) /\ worker[w].key = k
                /\ worker'[w].phase = worker[w].phase
                /\ worker'[w].attempts = worker[w].attempts
          /\ worker[w].outcome = "done" /\ worker[w].key = k =>
                \/ worker'[w].outcome = "done" /\ worker'[w].key = k
                \/ k \in unrecorded'

LEMMA CalmKeeps ==
    ASSUME TypeInv, NEW k \in Keys, FlightInv(k), Calm(k), clock' \in Nat, clock <= clock'
    PROVE  FlightInv(k)'
<1> SUFFICES ASSUME k \notin outlived'
             PROVE  OneFlight(k)' /\ Due(k)' /\ (k \notin unrecorded' => Once(k)')
  BY DEF FlightInv
<1>1. OneFlight(k) /\ Due(k) /\ (k \notin unrecorded => Once(k))
  BY DEF FlightInv, Calm
<1>2. rows[k] \in Row /\ clock \in Nat
  BY DEF TypeInv, TypeOK
<1>3. Open(rows'[k]) => rows'[k] = rows[k] /\ Open(rows[k])
  BY DEF Calm, RowStep, RowCloses
<1>4. OneFlight(k)'
  <2>1. ASSUME NEW w \in Workers, InFlight(w)', worker'[w].key = k
        PROVE  /\ Open(rows'[k]) => Held(w)'
               /\ \A v \in Workers : InFlight(v)' /\ worker'[v].key = k => v = w
    <3>1. InFlight(w) /\ worker[w].key = k /\ worker'[w].attempts = worker[w].attempts
      BY <2>1 DEF Calm
    <3>2. Open(rows'[k]) => Held(w)'
      BY <1>1, <1>3, <2>1, <3>1 DEF OneFlight, Held
    <3>3. \A v \in Workers : InFlight(v)' /\ worker'[v].key = k => v = w
      BY <1>1, <3>1 DEF OneFlight, Calm
    <3>4. QED
      BY <3>2, <3>3
  <2>2. QED
    BY <2>1 DEF OneFlight
<1>5. Due(k)'
  <2>1. ASSUME NEW w \in Workers, worker'[w].phase = "sending", worker'[w].key = k,
               rows'[k].status # "none"
        PROVE  rows'[k].nextAttemptAt <= clock'
    <3>1. worker[w].phase = "sending" /\ worker[w].key = k
      BY <2>1 DEF Calm, InFlight
    <3>2. rows[k].status # "none" /\ rows'[k].nextAttemptAt = rows[k].nextAttemptAt
      BY <2>1 DEF Calm, RowStep, RowCloses
    <3>3. QED
      BY <1>1, <1>2, <3>1, <3>2 DEF Due, Row
  <2>2. QED
    BY <2>1 DEF Due
<1>6. ASSUME k \notin unrecorded' PROVE Once(k)'
  <2>1. Once(k) /\ sent'[k] = sent[k]
    BY <1>1, <1>6 DEF Calm
  <2>2. \A w \in Workers : worker'[w].key = k /\ worker'[w].phase = "sending"
                            => worker[w].key = k /\ worker[w].phase = "sending"
    BY DEF Calm, InFlight
  <2>3. \A w \in Workers : worker[w].key = k /\ worker[w].outcome = "done"
                            => worker'[w].key = k /\ worker'[w].outcome = "done"
    BY <1>6 DEF Calm
  <2>4. QED
    BY <1>3, <2>1, <2>2, <2>3 DEF Once
<1>7. QED
  BY <1>4, <1>5, <1>6

(* The row an open delivery in flight has is not another run's.               *)
LEMMA HolderAlone ==
    ASSUME TypeInv, DeliveryInv, NEW k \in Keys, FlightInv(k), k \notin outlived,
           NEW v \in Workers, worker[v].key = k, InFlight(v),
           NEW w \in Workers, worker[w].key = k, AtWork(w), Held(w)
    PROVE  v = w
<1>1. Open(rows[k])
  BY DEF Held, Open, Statuses, Terminal
<1>2. Held(v)
  BY <1>1 DEF FlightInv, OneFlight
<1>3. worker[v].attempts = worker[w].attempts
  BY <1>2 DEF Held
<1>4. AtWork(v)
  BY DEF InFlight, AtWork, TypeInv, Working
<1>5. QED
  BY <1>3, <1>4 DEF DeliveryInv, Apart

(* The steps of a run that neither send nor record: only Refresh puts a       *)
(* message in flight.                                                         *)
LEMMA CalmWorker ==
    ASSUME TypeInv, NEW w \in Workers, NEW k \in Keys,
           \/ EndRun(w) \/ Crash(w) \/ AskSwitch(w) \/ ReadMonth(w) \/ ReadTransaction(w)
           \/ Refresh(w) /\ (worker'[w].phase = "sending" => worker[w].key # k)
    PROVE  Calm(k)
<1>1. TypeOK /\ worker[w].phase \in Phases
  BY DEF TypeInv, TypeOK, Run
<1>2. UNCHANGED <<sent, outlived>> /\ unrecorded \subseteq unrecorded'
  BY <1>1, AskSwitchEffect, ReadMonthEffect, ReadTransactionEffect, RefreshEffect
     DEF Quiet, EndRun, Crash, history
<1>3. RowStep(k) /\ RowCloses(k)
  <2>1. CASE EndRun(w)
    BY <1>1, <2>1, SweptStep DEF EndRun
  <2>2. CASE UNCHANGED rows
    BY <2>2, SameRows
  <2>3. QED
    BY <1>1, <2>1, <2>2, AskSwitchEffect, ReadMonthEffect, ReadTransactionEffect,
       RefreshEffect DEF Crash
<1>4. Others(w)
  BY <1>1, EndEffect, AskSwitchEffect, ReadMonthEffect, ReadTransactionEffect, RefreshEffect
     DEF LetsGo, GoesOn
<1>5. InFlight(w)' => worker'[w].phase = "sending" /\ worker'[w].key = worker[w].key
                      /\ worker[w].key # k
  BY <1>1, EndEffect, AskSwitchEffect, ReadMonthEffect, ReadTransactionEffect, RefreshEffect
     DEF InFlight, LetsGo, GoesOn, TypeInv, Working
<1>6. worker[w].outcome = "done" /\ worker[w].key = k => k \in unrecorded'
  <2>1. CASE Crash(w)
    BY <2>1 DEF Crash
  <2>2. CASE ~Crash(w)
    BY <1>1, <2>2, AskSwitchEffect, ReadMonthEffect, ReadTransactionEffect, RefreshEffect
       DEF EndRun, TypeInv, Working
  <2>3. QED
    BY <2>1, <2>2
<1>7. QED
  BY <1>2, <1>3, <1>4, <1>5, <1>6 DEF Calm, Others, InFlight

LEMMA CalmRest ==
    ASSUME TypeInv, DeliveryInv, NEW k \in Keys,
           (\E e \in Events : Publish(e)) \/ ChangeStep \/ Prune \/ Tick \/ UNCHANGED vars
    PROVE  Calm(k)
<1>1. TypeOK
  BY DEF TypeInv
<1>2. UNCHANGED <<sent, outlived, unrecorded>>
  BY DEF Publish, ChangeStep, ChangeZone, FlipSwitch, ApproveConnection, CloseConnection,
         SetSubscription, EditTransaction, CrossLimit, Changed, Prune, Tick, vars, history
<1>3. RowStep(k) /\ RowCloses(k)
  <2>1. CASE Prune
    BY <1>1, <2>1, PrunedStep DEF Prune
  <2>2. CASE ~Prune
    <3>1. UNCHANGED rows
      BY <2>2 DEF Publish, ChangeStep, ChangeZone, FlipSwitch, ApproveConnection,
         CloseConnection, SetSubscription, EditTransaction, CrossLimit, Changed, Tick, vars
    <3>2. QED
      BY <3>1, SameRows
  <2>3. QED
    BY <2>1, <2>2
<1>4. \A w \in Workers : /\ worker'[w].phase = worker[w].phase
                         /\ worker'[w].outcome = worker[w].outcome
                         /\ worker'[w].key = worker[w].key
                         /\ worker'[w].attempts = worker[w].attempts
  <2>1. CASE Changed
    BY <2>1, ChangedEffect
  <2>2. CASE ~Changed
    BY <2>2 DEF Publish, ChangeStep, ChangeZone, FlipSwitch, ApproveConnection,
       CloseConnection, SetSubscription, EditTransaction, CrossLimit, Prune, Tick, vars
  <2>3. QED
    BY <2>1, <2>2
<1>5. QED
  BY <1>2, <1>3, <1>4 DEF Calm, InFlight

(* A delivery is opened that never was: no run can know it.                   *)
LEMMA StartFlight ==
    ASSUME TypeInv, DeliveryInv, NEW w \in Workers, StartRun(w), NEW k \in Keys, FlightInv(k)
    PROVE  FlightInv(k)'
<1>1. PICK N \in SUBSET Keys :
              /\ N \cap opened = {}
              /\ \A j \in N : rows[j].status = "none" /\ rows'[j] = PendingRow
              /\ \A j \in Keys \ N : rows'[j] = rows[j]
  BY StartRunOpens
<1>2. LetsGo(w) /\ worker[w].phase = "idle"
  BY StartRunEffect
<1>3. UNCHANGED <<clock, sent, outlived, unrecorded>> /\ clock \in Nat
  BY DEF StartRun, TypeInv, TypeOK
<1>4. \A v \in Workers : InFlight(v)' => worker'[v] = worker[v] /\ worker[v].key \in opened
  BY <1>2 DEF LetsGo, Others, InFlight, TypeInv, Working, DeliveryInv, Claiming, AtWork
<1>5. CASE k \in N
  <2>1. k \notin opened /\ sent[k] = 0
    BY <1>1, <1>5 DEF DeliveryInv, Kept
  <2>2. \A v \in Workers : InFlight(v)' => worker'[v].key # k
    BY <1>4, <2>1
  <2>3. QED
    BY <1>3, <2>1, <2>2 DEF FlightInv, OneFlight, Due, Once, InFlight
<1>6. CASE k \notin N
  <2>1. rows'[k] = rows[k]
    BY <1>1, <1>6
  <2>2. \A v \in Workers : worker[v].outcome = "done" => worker'[v] = worker[v]
    BY <1>2 DEF LetsGo, Others, TypeInv, Working
  <2>3. Calm(k)
    BY <1>2, <1>3, <1>4, <2>1, <2>2 DEF Calm, RowStep, RowCloses, LetsGo, Others, InFlight,
       Open, Statuses
  <2>4. QED
    BY <1>3, <2>3, CalmKeeps
<1>7. QED
  BY <1>5, <1>6

LEMMA RefreshFlight ==
    ASSUME TypeInv, DeliveryInv, NEW w \in Workers, Refresh(w), NEW k \in Keys, FlightInv(k)
    PROVE  FlightInv(k)'
<1>1. TypeOK /\ clock \in Nat
  BY DEF TypeInv, TypeOK
<1>2. Quiet /\ UNCHANGED <<rows, sent, unrecorded>> /\ worker[w].phase = "read"
  BY <1>1, RefreshEffect
<1>3. CASE worker'[w].phase = "sending" => worker[w].key # k
  <2>1. Calm(k)
    BY <1>3, CalmWorker
  <2>2. QED
    BY <1>1, <1>2, <2>1, CalmKeeps DEF Quiet
<1>4. CASE worker'[w].phase = "sending" /\ worker[w].key = k
  <2>1. GoesOn(w) /\ Held(w) /\ worker[w].outcome = "none" /\ worker'[w].outcome = "none"
    BY <1>1, <1>2, <1>4, RefreshEffect DEF LetsGo, TypeInv, Working
  <2>2. AtWork(w) /\ Open(rows[k])
    BY <1>2, <1>4, <2>1 DEF AtWork, Held, Open, Statuses, Terminal
  <2>3. SUFFICES ASSUME k \notin outlived
                 PROVE  FlightInv(k)'
    BY <1>2 DEF FlightInv, Quiet
  <2>4. ~InFlight(w)
    BY <1>2, <2>1 DEF InFlight
  <2>5. \A v \in Workers : worker[v].key = k => ~InFlight(v)
    BY <1>4, <2>1, <2>2, <2>3, <2>4, HolderAlone
  <2>6. \A v \in Workers : InFlight(v)' /\ worker'[v].key = k => v = w
    BY <2>1, <2>5 DEF GoesOn, Others, InFlight
  <2>7. Held(w)'
    BY <1>2, <2>1 DEF Held, GoesOn
  <2>8. OneFlight(k)'
    BY <2>6, <2>7 DEF OneFlight
  <2>9. Due(k)'
    <3>1. rows[k].nextAttemptAt <= clock
      BY <1>4, <2>1 DEF DeliveryInv, Kept, Held
    <3>2. QED
      BY <1>2, <3>1 DEF Due, Quiet
  <2>10. k \notin unrecorded => Once(k)'
    <3>1. ASSUME k \notin unrecorded PROVE sent[k] # 1 /\ sent[k] <= 1
      BY <2>2, <2>3, <2>5, <3>1 DEF FlightInv, Once, InFlight
    <3>2. QED
      BY <1>2, <3>1 DEF Once
  <2>11. QED
    BY <1>2, <2>8, <2>9, <2>10 DEF FlightInv
<1>5. QED
  BY <1>3, <1>4

LEMMA SendFlight ==
    ASSUME TypeInv, DeliveryInv, NEW w \in Workers, Send(w), NEW k \in Keys, FlightInv(k)
    PROVE  FlightInv(k)'
<1>1. TypeOK /\ clock \in Nat /\ sent \in [Keys -> 0..2]
  BY DEF TypeInv, TypeOK
<1>2. Quiet /\ UNCHANGED rows /\ GoesOn(w) /\ worker[w].phase = "sending"
      /\ worker'[w].phase = "answered" /\ worker[w].outcome = "none"
  BY <1>1, SendEffect DEF TypeInv, Working
<1>3. SUFFICES ASSUME k \notin outlived
               PROVE  OneFlight(k)' /\ Due(k)' /\ (k \notin unrecorded' => Once(k)')
  BY <1>2 DEF FlightInv, Quiet
<1>4. OneFlight(k) /\ Due(k) /\ (k \notin unrecorded => Once(k))
  BY <1>3 DEF FlightInv
<1>5. \A v \in Workers : InFlight(v)' => InFlight(v) /\ worker'[v].key = worker[v].key
                                         /\ worker'[v].attempts = worker[v].attempts
                                         /\ (worker'[v].phase = "sending" => v # w)
  BY <1>2 DEF InFlight, GoesOn, Others
<1>6. OneFlight(k)'
  BY <1>2, <1>4, <1>5 DEF OneFlight, Held
<1>7. Due(k)'
  BY <1>2, <1>4 DEF Due, Quiet, GoesOn, Others
<1>8. ASSUME k \notin unrecorded' PROVE Once(k)'
  <2>1. CASE worker[w].key # k
    <3>1. sent'[k] = sent[k] /\ k \notin unrecorded
      BY <1>1, <1>8, <2>1, SendEffect DEF Accepted
    <3>2. \A v \in Workers : worker[v].outcome = "done" => worker'[v] = worker[v]
      BY <1>2 DEF GoesOn, Others
    <3>3. \A v \in Workers : worker'[v].phase = "sending" => worker'[v] = worker[v]
      BY <1>2 DEF GoesOn, Others
    <3>4. QED
      BY <1>2, <1>4, <3>1, <3>2, <3>3 DEF Once
  <2>2. CASE worker[w].key = k
    <3>1. k \notin unrecorded
      BY <1>1, <1>8, SendEffect
    <3>2. sent[k] # 1 /\ sent[k] <= 1
      BY <1>2, <1>4, <2>2, <3>1 DEF Once
    <3>3. sent[k] = 0
      BY <1>1, <3>2
    <3>4. \A v \in Workers : worker'[v].key = k => worker'[v].phase # "sending"
      BY <1>2, <1>4, <1>5, <2>2 DEF OneFlight, InFlight
    <3>5. CASE worker'[w].outcome = "done" /\ sent' = Accepted(k)
      <4>1. sent'[k] = 1
        BY <1>1, <3>3, <3>5 DEF Accepted
      <4>2. worker'[w].key = k
        BY <1>2, <2>2 DEF GoesOn
      <4>3. QED
        BY <3>4, <3>5, <4>1, <4>2 DEF Once
    <3>6. CASE UNCHANGED sent
      BY <3>3, <3>6 DEF Once
    <3>7. QED
      BY <1>1, <1>8, <2>2, <3>5, <3>6, SendEffect
  <2>3. QED
    BY <2>1, <2>2
<1>9. QED
  BY <1>6, <1>7, <1>8

LEMMA FinishFlight ==
    ASSUME TypeInv, DeliveryInv, NEW w \in Workers, Finish(w), NEW k \in Keys, FlightInv(k)
    PROVE  FlightInv(k)'
<1>1. TypeOK /\ clock \in Nat /\ rows \in [Keys -> Row] /\ worker[w] \in Run
  BY DEF TypeInv, TypeOK
<1>2. Quiet /\ UNCHANGED <<sent, unrecorded>> /\ LetsGo(w) /\ worker[w].phase = "answered"
  BY FinishEffect
<1>3. worker[w].key \in Keys /\ AtWork(w)
  BY <1>2 DEF AtWork, TypeInv, Working
<1>4. SUFFICES ASSUME k \notin outlived
               PROVE  OneFlight(k)' /\ Due(k)' /\ (k \notin unrecorded => Once(k)')
  BY <1>2 DEF FlightInv, Quiet
<1>5. OneFlight(k) /\ Due(k) /\ (k \notin unrecorded => Once(k))
  BY <1>4 DEF FlightInv
<1>6. \A v \in Workers : InFlight(v)' => v # w /\ worker'[v] = worker[v] /\ InFlight(v)
  BY <1>2 DEF LetsGo, Others, InFlight
<1>7. CASE worker[w].key = k /\ Held(w)
  <2>1. rows'[k] = Finished(w) /\ Finished(w).status = worker[w].outcome
        /\ rows[k].status = "inProgress"
    BY ZenonT(60), <1>1, <1>3, <1>7, FinishEffect DEF Finished, Row, Held
  <2>2. \A v \in Workers : worker[v].key = k /\ InFlight(v) => v = w
    BY <1>3, <1>4, <1>7, HolderAlone
  <2>3. OneFlight(k)' /\ Due(k)'
    BY <1>6, <2>2 DEF OneFlight, Due, InFlight
  <2>4. ASSUME k \notin unrecorded PROVE Once(k)'
    <3>1. CASE sent[k] = 1
      <4>1. worker[w].outcome = "done"
        BY <1>5, <2>1, <2>2, <2>4, <3>1 DEF Once, InFlight, Open, Statuses, Terminal
      <4>2. ~Open(rows'[k])
        BY <2>1, <4>1 DEF Open, Terminal
      <4>3. \A v \in Workers : worker'[v].key = k => worker'[v].phase # "sending"
        BY <1>6, <2>2 DEF InFlight
      <4>4. QED
        BY <1>2, <3>1, <4>2, <4>3 DEF Once
    <3>2. CASE sent[k] # 1
      BY <1>2, <1>5, <2>4, <3>2 DEF Once
    <3>3. QED
      BY <3>1, <3>2
  <2>5. QED
    BY <2>3, <2>4
<1>8. CASE ~(worker[w].key = k /\ Held(w))
  <2>1. rows'[k] = rows[k]
    BY <1>1, <1>3, <1>8, FinishEffect
  <2>2. OneFlight(k)' /\ Due(k)'
    BY <1>2, <1>5, <1>6, <2>1 DEF OneFlight, Due, InFlight, Held, Quiet
  <2>3. ASSUME k \notin unrecorded PROVE Once(k)'
    <3>1. \A v \in Workers : worker'[v].phase = "sending" => worker'[v] = worker[v]
      BY <1>6 DEF InFlight
    <3>2. CASE Open(rows[k]) /\ sent[k] = 1
      <4>1. PICK v \in Workers : worker[v].key = k /\ worker[v].outcome = "done"
        BY <1>5, <2>3, <3>2 DEF Once
      <4>2. v # w
        BY <1>5, <1>8, <3>2, <4>1 DEF OneFlight, InFlight
      <4>3. worker'[v] = worker[v]
        BY <1>2, <4>2 DEF LetsGo, Others
      <4>4. QED
        BY <1>2, <1>5, <2>3, <3>1, <4>1, <4>3 DEF Once
    <3>3. CASE ~(Open(rows[k]) /\ sent[k] = 1)
      BY <1>2, <1>5, <2>1, <2>3, <3>1, <3>3 DEF Once
    <3>4. QED
      BY <3>2, <3>3
  <2>4. QED
    BY <2>2, <2>3
<1>9. QED
  BY <1>7, <1>8

(* A claim of a delivery that another run has in flight outlives that run.    *)
LEMMA ClaimFlight ==
    ASSUME TypeInv, DeliveryInv, NEW w \in Workers, NEW j \in Keys, Claim(w, j),
           NEW k \in Keys, FlightInv(k)
    PROVE  FlightInv(k)'
<1>1. TypeOK /\ clock \in Nat /\ clock' = clock /\ UNCHANGED <<sent, unrecorded>>
      /\ outlived' = IF \E v \in Workers : PastRefresh(v, j) THEN outlived \cup {j} ELSE outlived
  BY DEF Claim, TypeInv, TypeOK
<1>2. /\ Others(w) /\ worker[w].phase = "run" /\ worker'[w].phase = "claimed"
      /\ worker'[w].outcome = "none" /\ \A i \in Keys \ {j} : rows'[i] = Swept(rows[i])
  BY <1>1, ClaimEffect
<1>3. ~InFlight(w)' /\ worker[w].outcome = "none"
  BY <1>2 DEF InFlight, TypeInv, Working
<1>4. CASE k = j
  <2>1. SUFFICES ASSUME k \notin outlived' PROVE FlightInv(k)'
    BY DEF FlightInv
  <2>2. k \notin outlived /\ \A v \in Workers : ~PastRefresh(v, k)
    BY <1>1, <1>4, <2>1
  <2>3. \A v \in Workers : worker[v].key = k => ~InFlight(v)
    BY <2>2 DEF PastRefresh, InFlight, TypeInv, Working
  <2>4. \A v \in Workers : worker'[v].key = k => ~InFlight(v)'
    BY <1>2, <1>3, <2>3 DEF Others, InFlight
  <2>5. Open(rows[k])
    BY <1>4 DEF Claim, Claimable
  <2>6. k \notin unrecorded => Once(k)'
    BY <1>1, <2>2, <2>3, <2>5 DEF FlightInv, Once, InFlight
  <2>7. OneFlight(k)' /\ Due(k)'
    BY <2>4 DEF OneFlight, Due, InFlight
  <2>8. QED
    BY <1>1, <2>6, <2>7 DEF FlightInv
<1>5. CASE k # j
  <2>1. RowStep(k) /\ RowCloses(k)
    BY <1>1, <1>2, <1>5, SweptStep
  <2>2. Calm(k)
    BY <1>1, <1>2, <1>3, <2>1 DEF Calm, Others, InFlight
  <2>3. QED
    BY <1>1, <2>2, CalmKeeps
<1>6. QED
  BY <1>4, <1>5

LEMMA InitCalls == Init => CallInv
  BY DEF Init, CallInv, FlightInv, OneFlight, Due, Once, InFlight, IdleWorker

LEMMA NextCalls == TypeInv /\ DeliveryInv /\ CallInv /\ TypeInv' /\ [Next]_vars => CallInv'
<1> SUFFICES ASSUME TypeInv, DeliveryInv, CallInv, TypeInv', [Next]_vars, NEW k \in Keys
             PROVE  FlightInv(k)'
  BY DEF CallInv
<1>1. FlightInv(k) /\ clock \in Nat
  BY DEF CallInv, TypeInv, TypeOK
<1>2. ASSUME (\E e \in Events : Publish(e)) \/ ChangeStep \/ Prune \/ Tick \/ UNCHANGED vars
      PROVE  FlightInv(k)'
  <2>1. Calm(k)
    BY <1>2, CalmRest
  <2>2. clock' \in Nat /\ clock <= clock'
    BY <1>1, <1>2 DEF Publish, ChangeStep, ChangeZone, FlipSwitch, ApproveConnection,
       CloseConnection, SetSubscription, EditTransaction, CrossLimit, Changed, Prune, Tick, vars
  <2>3. QED
    BY <1>1, <2>1, <2>2, CalmKeeps
<1>3. ASSUME NEW w \in Workers,
             EndRun(w) \/ Crash(w) \/ AskSwitch(w) \/ ReadMonth(w) \/ ReadTransaction(w)
      PROVE  FlightInv(k)'
  <2>1. Calm(k)
    BY <1>3, CalmWorker
  <2>2. UNCHANGED clock
    BY <1>3 DEF EndRun, Crash, AskSwitch, ReadMonth, ReadTransaction
  <2>3. QED
    BY <1>1, <2>1, <2>2, CalmKeeps
<1>4. ASSUME NEW w \in Workers, WorkerStep(w) PROVE FlightInv(k)'
  BY <1>1, <1>3, <1>4, StartFlight, ClaimFlight, RefreshFlight, SendFlight, FinishFlight
     DEF WorkerStep, DeliveryStep
<1>5. QED
  BY <1>2, <1>4 DEF Next

LEMMA AlwaysCalls == Spec => [](TypeInv /\ DeliveryInv /\ CallInv)
<1>1. Init => TypeInv /\ DeliveryInv /\ CallInv
  BY InitType, InitInv, InitCalls
<1>2. (TypeInv /\ DeliveryInv /\ CallInv) /\ [Next]_vars => (TypeInv /\ DeliveryInv /\ CallInv)'
  BY NextType, NextInv, NextCalls
<1>3. QED
  BY <1>1, <1>2, PTL DEF Spec

(* DuplicateNeedsFault: a message repeats only when an accepted one went      *)
(* unrecorded or a run outlived its lease past the recheck.                   *)
THEOREM DuplicateCorrect == Spec => []DuplicateNeedsFault
<1>1. TypeInv /\ DeliveryInv /\ CallInv => DuplicateNeedsFault
  <2> SUFFICES ASSUME TypeInv, CallInv, NEW k \in Keys, sent[k] > 1, k \notin outlived \cup unrecorded
               PROVE  FALSE
    BY DEF DuplicateNeedsFault
  <2>1. sent[k] <= 1 /\ sent[k] \in 0..2
    BY DEF CallInv, FlightInv, Once, TypeInv, TypeOK
  <2>2. QED
    BY <2>1
<1>2. QED
  BY <1>1, AlwaysCalls, PTL

(* RetrySpaced: no call comes before the pause a temporary failure recorded,  *)
(* takeovers included.                                                        *)
THEOREM RetrySpacedCorrect == Spec => RetrySpaced
<1> DEFINE Spaced == \A k \in Keys :
                        calls'[k] # calls[k] /\ rows[k].status # "none" /\ k \notin outlived
                        => clock >= rows[k].nextAttemptAt
<1>1. (TypeInv /\ DeliveryInv /\ CallInv) /\ [Next]_vars => [Spaced]_vars
  <2> SUFFICES ASSUME TypeInv, DeliveryInv, CallInv, Next, NEW k \in Keys, calls'[k] # calls[k],
                      rows[k].status # "none", k \notin outlived
               PROVE  clock >= rows[k].nextAttemptAt
    OBVIOUS
  <2>1. \E w \in Workers : Send(w)
    <3>1. ASSUME NEW w \in Workers, WorkerStep(w), ~Send(w) PROVE UNCHANGED calls
      BY <3>1, OrdinaryWorker DEF WorkerStep, StartRun, Claim, Ordinary
    <3>2. QED
      BY <3>1, OrdinaryRest DEF Next, Ordinary
  <2>2. PICK w \in Workers : Send(w)
    BY <2>1
  <2>3. worker[w].phase = "sending" /\ worker[w].key = k
    BY <2>2, SendEffect DEF TypeInv, TypeOK
  <2>4. rows[k].nextAttemptAt <= clock /\ rows[k].nextAttemptAt \in Int /\ clock \in Int
    BY <2>3 DEF CallInv, FlightInv, Due, TypeInv, TypeOK, Row
  <2>5. QED
    BY <2>4
<1>2. QED
  BY <1>1, AlwaysCalls, PTL DEF Spec, RetrySpaced

-----------------------------------------------------------------------------
(* The recheck *)

(* While nothing has changed since the claim, what the run has read still is. *)
Knows(w) ==
    LET k == worker[w].key
        phase == worker[w].phase
    IN  /\ phase \in {"asked", "priced", "read"} => worker[w].allowed = switch
        /\ phase \in {"priced", "read"} =>
              worker[w].over = (InMonth(k.event) /\ source[k.event].over)
        /\ phase = "read" => InMonth(k.event) /\ worker[w].current = ~source[k.event].edited
        /\ phase = "sending" => ~Refused(k)
        /\ worker[w].outcome = "canceled" => Refused(k) \/ ~InMonth(k.event)

KnowInv == \A w \in Workers : AtWork(w) /\ worker[w].unchanged => Knows(w)

(* What the recheck reads stays as it is.                                     *)
SameFacts ==
    /\ UNCHANGED settings
    /\ \A k \in opened : /\ events'[k.event].kind = events[k.event].kind
                         /\ events'[k.event].author = events[k.event].author
                         /\ events'[k.event].createdAt = events[k.event].createdAt
                         /\ events'[k.event].month = events[k.event].month

LEMMA FactsStay ==
    ASSUME SameFacts, NEW k \in opened
    PROVE  /\ Refused(k)' <=> Refused(k)
           /\ InMonth(k.event)' <=> InMonth(k.event)
           /\ UNCHANGED <<switch, source>>
  BY DEF SameFacts, settings, Refused, InMonth, MonthOf

(* Runs that neither read nor change keep what they know.                     *)
LEMMA KnowsStays ==
    ASSUME TypeInv, DeliveryInv, KnowInv, SameFacts, NEW w \in Workers,
           worker'[w] = worker[w], AtWork(w), worker[w].unchanged
    PROVE  Knows(w)'
<1>1. PICK k \in opened : worker[w].key = k
  BY DEF DeliveryInv, Claiming
<1>2. /\ Refused(k)' <=> Refused(k)
      /\ InMonth(k.event)' <=> InMonth(k.event)
      /\ UNCHANGED <<switch, source>>
  BY <1>1, FactsStay
<1>3. Knows(w)
  BY DEF KnowInv
<1>4. QED
  BY <1>1, <1>2, <1>3 DEF Knows

LEMMA FactsOfRest ==
    ASSUME TypeInv, DeliveryInv, (\E e \in Events : Publish(e)) \/ Prune \/ Tick \/ UNCHANGED vars
    PROVE  SameFacts
<1>1. UNCHANGED settings
  BY DEF Publish, Prune, Tick, vars
<1>2. \A k \in opened : k.event \in Events /\ events[k.event].state # "unborn"
  BY DEF TypeInv, TypeOK, Keys, DeliveryInv, Kept, EventsPlanned
<1>3. CASE UNCHANGED events
  BY <1>1, <1>3 DEF SameFacts
<1>4. ASSUME NEW e \in Events, Publish(e) PROVE SameFacts
  <2>1. events[e].state = "unborn" /\ \A d \in Events \ {e} : events'[d] = events[d]
    BY <1>4, PublishEffect DEF Publish, TypeInv
  <2>2. QED
    BY <1>1, <1>2, <2>1 DEF SameFacts
<1>5. CASE Prune
  <2>1. events \in [Events -> Event]
    BY DEF TypeInv, TypeOK
  <2>2. QED
    BY <1>1, <1>2, <1>5, <2>1 DEF Prune, SameFacts, Event
<1>6. QED
  BY <1>3, <1>4, <1>5 DEF Tick, vars

LEMMA FactsOfWorker ==
    ASSUME TypeInv, DeliveryInv, NEW w \in Workers, WorkerStep(w)
    PROVE  SameFacts /\ Others(w)
<1>1. TypeOK /\ events \in [Events -> Event]
  BY DEF TypeInv, TypeOK
<1>2. Others(w)
  BY <1>1, StartRunEffect, EndEffect, ClaimEffect, AskSwitchEffect, ReadMonthEffect,
     ReadTransactionEffect, RefreshEffect, SendEffect, FinishEffect
     DEF WorkerStep, DeliveryStep, LetsGo, GoesOn
<1>3. CASE UNCHANGED <<settings, events>>
  BY <1>2, <1>3 DEF SameFacts
<1>4. CASE StartRun(w)
  <2>1. PICK E \in SUBSET Unplanned :
          events' = [e \in Events |-> IF e \in E THEN [events[e] EXCEPT !.planned = TRUE]
                                                    ELSE events[e]]
    BY <1>4 DEF StartRun
  <2>2. \A k \in opened : k.event \in Events
    BY <1>1 DEF TypeOK, Keys
  <2>3. UNCHANGED settings
    BY <1>4 DEF StartRun
  <2>4. QED
    BY <1>1, <1>2, <2>1, <2>2, <2>3 DEF SameFacts, Event
<1>5. QED
  BY <1>3, <1>4 DEF WorkerStep, DeliveryStep, EndRun, Crash, Claim, AskSwitch, ReadMonth,
     ReadTransaction, Refresh, Send, Finish

LEMMA RecheckTells ==
    ASSUME TypeInv, NEW w \in Workers, worker[w].phase = "read", Knows(w)
    PROVE  Sends(w) <=> ~Refused(worker[w].key)
<1>1. worker[w].key \in Keys
  BY DEF TypeInv, Working, AtWork
<1>2. events[worker[w].key.event].kind \in {"transaction", "limit"}
  BY <1>1 DEF TypeInv, TypeOK, Keys, Event, Kinds
<1>3. QED
  BY <1>2 DEF Knows, Sends, Eligible, Refused

(* Each read learns what is so; the decision follows from what is known.      *)
LEMMA WorkerKnows ==
    ASSUME TypeInv, DeliveryInv, KnowInv, NEW w \in Workers, WorkerStep(w), SameFacts,
           AtWork(w)', worker'[w].unchanged
    PROVE  Knows(w)'
<1>1. TypeOK
  BY DEF TypeInv
<1>2. CASE \E k \in Keys : Claim(w, k)
  BY <1>1, <1>2, ClaimEffect DEF Knows
<1>3. CASE DeliveryStep(w) /\ ~Finish(w)
  <2>1. GoesOn(w) /\ AtWork(w)
    BY <1>1, <1>3, AskSwitchEffect, ReadMonthEffect, ReadTransactionEffect, RefreshEffect,
       SendEffect DEF DeliveryStep, AtWork, LetsGo
  <2>2. worker[w].unchanged /\ worker'[w].key = worker[w].key
    BY <2>1 DEF GoesOn
  <2>3. Knows(w)
    BY <2>1, <2>2 DEF KnowInv
  <2>4. PICK k \in opened : worker[w].key = k
    BY <2>1 DEF DeliveryInv, Claiming
  <2>5. /\ Refused(k)' <=> Refused(k)
        /\ InMonth(k.event)' <=> InMonth(k.event)
        /\ UNCHANGED <<switch, source>>
    BY <2>4, FactsStay
  <2>6. CASE AskSwitch(w)
    BY <1>1, <2>2, <2>4, <2>5, <2>6, AskSwitchEffect DEF Knows, TypeInv, Working
  <2>7. CASE ReadMonth(w)
    BY <1>1, <2>2, <2>3, <2>4, <2>5, <2>7, ReadMonthEffect DEF Knows, TypeInv, Working
  <2>8. CASE ReadTransaction(w)
    BY <1>1, <2>2, <2>3, <2>4, <2>5, <2>8, ReadTransactionEffect DEF Knows, TypeInv, Working
  <2>9. CASE Refresh(w)
    <3>1. worker[w].phase = "read" /\ worker[w].outcome = "none"
      BY <1>1, <2>9, RefreshEffect DEF TypeInv, Working
    <3>2. Sends(w) <=> ~Refused(k)
      BY <2>3, <2>4, <3>1, RecheckTells
    <3>3. \/ worker'[w].phase = "answered" /\ worker'[w].outcome = "expired"
          \/ worker'[w].phase = "answered" /\ worker'[w].outcome = "canceled" /\ ~Sends(w)
          \/ worker'[w].phase = "sending" /\ worker'[w].outcome = "none" /\ Sends(w)
      BY <1>1, <2>9, <3>1, RefreshEffect DEF LetsGo, AtWork
    <3>4. QED
      BY <2>2, <2>4, <2>5, <3>2, <3>3 DEF Knows
  <2>10. CASE Send(w)
    BY <1>1, <2>10, SendEffect DEF Knows
  <2>11. QED
    BY <1>3, <2>6, <2>7, <2>8, <2>9, <2>10 DEF DeliveryStep
<1>4. QED
  BY <1>2, <1>3, StartRunEffect, EndEffect, FinishEffect DEF WorkerStep, LetsGo, AtWork

LEMMA NextKnows == TypeInv /\ DeliveryInv /\ KnowInv /\ [Next]_vars => KnowInv'
<1> SUFFICES ASSUME TypeInv, DeliveryInv, KnowInv, [Next]_vars, NEW v \in Workers,
                    AtWork(v)', worker'[v].unchanged
             PROVE  Knows(v)'
  BY DEF KnowInv
<1>1. ASSUME NEW w \in Workers, WorkerStep(w) PROVE Knows(v)'
  <2>1. SameFacts /\ Others(w)
    BY <1>1, FactsOfWorker
  <2>2. CASE v = w
    BY <1>1, <2>1, <2>2, WorkerKnows
  <2>3. CASE v # w
    <3>1. worker'[v] = worker[v]
      BY <2>1, <2>3 DEF Others
    <3>2. QED
      BY <2>1, <3>1, KnowsStays DEF AtWork
  <2>4. QED
    BY <2>2, <2>3
<1>2. CASE ChangeStep
  <2>1. Changed
    BY <1>2 DEF ChangeStep, ChangeZone, FlipSwitch, ApproveConnection, CloseConnection,
           SetSubscription, EditTransaction, CrossLimit
  <2>2. worker'[v].unchanged = FALSE
    BY <2>1, ChangedEffect
  <2>3. QED
    BY <2>2
<1>3. CASE (\E e \in Events : Publish(e)) \/ Prune \/ Tick \/ UNCHANGED vars
  <2>1. SameFacts
    BY <1>3, FactsOfRest
  <2>2. worker' = worker
    BY <1>3 DEF Publish, Prune, Tick, vars
  <2>3. QED
    BY <2>1, <2>2, KnowsStays DEF AtWork
<1>4. QED
  BY <1>1, <1>2, <1>3 DEF Next

LEMMA AlwaysKnows == Spec => [](TypeInv /\ DeliveryInv /\ KnowInv)
<1>1. Init => TypeInv /\ DeliveryInv /\ KnowInv
  BY InitType, InitInv DEF Init, KnowInv, AtWork, IdleWorker
<1>2. (TypeInv /\ DeliveryInv /\ KnowInv) /\ [Next]_vars => (TypeInv /\ DeliveryInv /\ KnowInv)'
  BY NextType, NextInv, NextKnows
<1>3. QED
  BY <1>1, <1>2, PTL DEF Spec

(* RecheckDecides: a refusal that stands since the claim is honoured, and a   *)
(* delivery is canceled only for one or for the month of its transaction.     *)
THEOREM RecheckCorrect == Spec => RecheckDecides
<1> DEFINE Decided == /\ RefusalHonoured'
                      /\ \A w \in Workers, k \in Keys :
                            Cancels(w, k) => Refused(k) \/ ~InMonth(k.event)
<1>1. /\ TypeInv /\ DeliveryInv /\ KnowInv
      /\ (TypeInv /\ DeliveryInv /\ KnowInv)'
      /\ [Next]_vars
      => [Decided]_vars
  <2> SUFFICES ASSUME TypeInv, KnowInv, TypeInv', KnowInv' PROVE Decided
    OBVIOUS
  <2>1. RefusalHonoured'
    BY DEF RefusalHonoured, KnowInv, Knows, AtWork
  <2>2. ASSUME NEW w \in Workers, NEW k \in Keys, Cancels(w, k)
        PROVE  Refused(k) \/ ~InMonth(k.event)
    <3>1. worker[w].key = k /\ worker[w].outcome = "canceled" /\ worker[w].unchanged
      BY <2>2 DEF Cancels
    <3>2. AtWork(w)
      BY <3>1 DEF TypeInv, Working, AtWork
    <3>3. QED
      BY <3>1, <3>2 DEF KnowInv, Knows
  <2>3. QED
    BY <2>1, <2>2
<1>2. QED
  BY <1>1, AlwaysKnows, PTL DEF Spec, RecheckDecides
=============================================================================
