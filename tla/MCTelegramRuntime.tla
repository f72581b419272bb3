------------------------- MODULE MCTelegramRuntime --------------------------
(***************************************************************************)
(* Two processes in any combination of slots and delivery modes.  Neither   *)
(* processes nor slots nor routes are told apart.                           *)
(***************************************************************************)
EXTENDS TelegramRuntime, TLC

Symmetry == Permutations(Procs) \cup Permutations(Slots) \cup Permutations(Routes)
=============================================================================
