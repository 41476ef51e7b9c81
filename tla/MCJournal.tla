----------------------------- MODULE MCJournal -----------------------------
(* Two hooks of one session, and two runs under one id in two directories;  *)
(* two writes fail.  The rows of the hooks hold the agent's trace: most of  *)
(* h2's is too long for a scanner, and h1's is together with two other rows.*)
EXTENDS Journal, TLC

CONSTANTS h1, h2, r1, r2

MCSession == (h1 :> "s1") @@ (h2 :> "s1") @@ (r1 :> "run") @@ (r2 :> "run")
MCTool == (h1 :> "Bash") @@ (h2 :> "Edit") @@ (r1 :> "claude") @@ (r2 :> "claude")
Room == 4

Length(piece) ==
  CASE piece.size = "part"   -> 1
    [] piece.row.writer = h1 -> 3
    [] piece.row.writer = h2 -> 5
    [] OTHER                 -> 1

MCTooLong(pieces) == FoldSeq(LAMBDA p, sum : Length(p) + sum, 0, pieces) > Room

MCCwd == (r1 :> "here") @@ (r2 :> "there")
=============================================================================
