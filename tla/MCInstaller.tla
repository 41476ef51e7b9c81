---------------------------- MODULE MCInstaller ----------------------------
(* Three commands within two seconds, one hook event, one save of the user's *)
(* on top of the settings she starts with.                                  *)
EXTENDS Installer, TLC

CONSTANTS c1, c2, c3

Request(op, force, hooks, mcp, dryRun) ==
  [op |-> op, force |-> force, hooks |-> hooks, mcp |-> mcp, dryRun |-> dryRun]

MCRequests == {Request("init", FALSE, TRUE, TRUE, FALSE),
               Request("init", TRUE, FALSE, FALSE, FALSE),
               Request("uninstall", FALSE, FALSE, FALSE, FALSE),
               Request("uninstall", FALSE, FALSE, FALSE, TRUE)}

Symmetry == Permutations(Commands)
=============================================================================
