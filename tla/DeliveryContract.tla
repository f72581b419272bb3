-------------------------- MODULE DeliveryContract --------------------------
(***************************************************************************)
(* What an outbox delivery promises whoever handles it: it is opened once,  *)
(* while it is open at most MaxTries tries are licensed, every licence is   *)
(* good for one call to Telegram, and a delivery that is closed or gone     *)
(* licenses nothing and never opens again.                                  *)
(***************************************************************************)
EXTENDS Naturals

CONSTANTS Keys, MaxTries

VARIABLES
    stage,     \* of each delivery
    issued,    \* tries licensed
    used       \* calls made

Stages == {"new", "open", "closed", "gone"}

Init ==
    /\ stage = [k \in Keys |-> "new"]
    /\ issued = [k \in Keys |-> 0]
    /\ used = [k \in Keys |-> 0]

Licences(k, n, m) == issued'[k] = issued[k] + n /\ used'[k] = used[k] + m

Moves(k, from, to) == stage[k] = from /\ stage'[k] = to /\ Licences(k, 0, 0)

Open(k) == Moves(k, "new", "open")

License(k) ==
    /\ stage[k] = "open" /\ stage'[k] = "open"
    /\ issued[k] < MaxTries
    /\ Licences(k, 1, 0)

(* The call of a licence may come late, when the delivery is closed. *)
Call(k) ==
    /\ stage'[k] = stage[k]
    /\ used[k] < issued[k]
    /\ Licences(k, 0, 1)

Close(k) == Moves(k, "open", "closed")

Forget(k) == Moves(k, "closed", "gone")

Rest(k) == stage'[k] = stage[k] /\ Licences(k, 0, 0)

(* Deliveries move independently, several of them in one transaction. *)
Next ==
    /\ stage' \in [Keys -> Stages]
    /\ issued' \in [Keys -> 0..MaxTries]
    /\ used' \in [Keys -> 0..MaxTries]
    /\ \A k \in Keys : \/ Rest(k) \/ Open(k) \/ License(k)
                       \/ Call(k) \/ Close(k) \/ Forget(k)

Spec == Init /\ [][Next]_<<stage, issued, used>>
=============================================================================
