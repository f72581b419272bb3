-------------------------- MODULE MCFinanceDelivery -------------------------
(***************************************************************************)
(* The border between two months is tick 0 of the first zone, so that the   *)
(* second zone and a write to the previous month put a transaction outside  *)
(* the month of its event's created_at.                                     *)
(***************************************************************************)
EXTENDS FinanceDelivery, TLC

MCZones == {-1, 0}
WorkerSymmetry == Permutations(Workers)
=============================================================================
