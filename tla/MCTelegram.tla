----------------------------- MODULE MCTelegram -----------------------------
(* Two hooks that share a bot, one of them with two questions. *)
EXTENDS Telegram, TLC

CONSTANTS p1, p2

MCOptionSets == {DefaultOptions, {"wait"}}

(* The processes differ in nothing. *)
Symmetry == Permutations({p1, p2})
=============================================================================
