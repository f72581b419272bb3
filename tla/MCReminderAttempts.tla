------------------------- MODULE MCReminderAttempts -------------------------
(***************************************************************************)
(* MCReminderDelivery with one more history variable: how often Telegram    *)
(* was called for a key, whatever its row went through.  A key belongs to   *)
(* one local day, so this counts the attempts of that day.                  *)
(***************************************************************************)
EXTENDS MCReminderDelivery

VARIABLE total

CalledFor(k) == {w \in Workers : /\ worker[w].key = k
                                  /\ worker[w].phase = "allowed"
                                  /\ worker'[w].phase = "answered"}

CountingSpec ==
    /\ Init /\ total = [k \in Keys |-> 0]
    /\ [][Next /\ total' = [k \in Keys |-> total[k] + Cardinality(CalledFor(k))]]_<<vars, total>>

(* docs/telegram-bot-architecture.md:256, "temporary failures have at most    *)
(* three attempts before the local day ends".  It fails: a failure within     *)
(* retry_interval of midnight marks the row EXPIRED, and the next planner run *)
(* sets an EXPIRED row back to PENDING with no attempts.                      *)
AttemptsPerDay == \A k \in Keys : total[k] <= MaxAttempts
=============================================================================
