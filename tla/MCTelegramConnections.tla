----------------------- MODULE MCTelegramConnections ------------------------
(***************************************************************************)
(* Two owners, two Telegram users and two concurrent requests.  Owners,     *)
(* users and sessions are interchangeable.                                  *)
(***************************************************************************)
EXTENDS TelegramConnections, TLC

Symmetry == Permutations(Owners) \cup Permutations(Users) \cup Permutations(Sessions)
=============================================================================
