---------------------------- MODULE MCMcpServer ----------------------------
(* Two lines, and two changes to rules.md: enough  *)
(* for two calls of check_rule with an edit at every point between.          *)
EXTENDS McpServer

MCStart == {None, [mtime |-> 2, content |-> "old"]}
=============================================================================
