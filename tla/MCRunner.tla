------------------------------ MODULE MCRunner ------------------------------
(* Two runs, the second of which may be called by the first one's child. *)
EXTENDS Runner

CONSTANTS r1, r2

S(claude, obstacle, inherit, rows) ==
  [claude |-> claude, obstacle |-> obstacle, inherit |-> inherit, rows |-> rows]

MCSpecs == {S(TRUE, "none", TRUE, TRUE), S(TRUE, "none", FALSE, FALSE),
            S(FALSE, "none", TRUE, TRUE), S(TRUE, "start", FALSE, TRUE)} \cup
           {S(FALSE, o, FALSE, TRUE) : o \in {"unsafe", "cli", "path", "log"}}
=============================================================================
