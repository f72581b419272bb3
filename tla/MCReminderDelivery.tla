------------------------- MODULE MCReminderDelivery -------------------------
(***************************************************************************)
(* One connection, one birthday, one occurrence: a single key whose local   *)
(* day is day 0 of a three-tick day, in two zones, with two sender runs.     *)
(***************************************************************************)
EXTENDS ReminderDelivery, TLC

CONSTANTS c1, i1, birthday

MCKindOf == [i \in Items |-> birthday]
MCZones == {-1, 0}
WorkerSymmetry == Permutations(Workers)
=============================================================================
