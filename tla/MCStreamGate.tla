---------------------------- MODULE MCStreamGate ----------------------------
(* Streams of a few events: a command that a deny rule matches, one that an *)
(* allow rule matches, and arguments that are not JSON, cut in two ways.    *)
EXTENDS StreamGate

CONSTANTS rm, ls, p, q

Rule(pattern) == [tool |-> "Bash", pattern |-> pattern, field |-> NoField]

MCRegexp == {<<rm, "rm -rf /">>, <<ls, "ls">>}

(* p q makes {"command": "rm -rf /"}, q alone {"command": "ls"}. *)
MCJson(args) ==
  IF args = <<p, q>> THEN [f \in {"command"} |-> "rm -rf /"]
  ELSE IF args = <<q>> THEN [f \in {"command"} |-> "ls"]
  ELSE Broken

MCText(args) == "json"

Policy(default, deny, allow) ==
  [default |-> default, deny |-> deny, allow |-> allow, to_agent |-> <<>>]

MCPolicies == {Absent, Policy("agent", <<Rule(rm)>>, <<>>), Policy("deny", <<>>, <<Rule(ls)>>)}
=============================================================================
