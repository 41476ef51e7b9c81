------------------------------ MODULE MCProxy -------------------------------
(* Two clients, four kinds of request, five of answer (one with a denied    *)
(* call that the gate cannot read), a limit of one cent a day and no limits. *)
EXTENDS Proxy, TLC

CONSTANTS rm, c1, c2

MCRegexp == {<<rm, "rm -rf /">>}

Bash(cmd) == [call |-> TRUE, tool |-> "Bash",
              input |-> [raw |-> "json", fields |-> [f \in {"command"} |-> cmd]]]
Text == [call |-> FALSE]

Ask(provider, parses, prompt, tools, other) ==
  [provider |-> provider, parses |-> parses, model |-> "opus", prompt |-> prompt,
   tools |-> tools, other |-> other]

MCAsks == {Ask("anthropic", TRUE, {"summarize"}, {}, TRUE),
           Ask("openai", TRUE, {"architecture"}, {"Read"}, TRUE),
           Ask("openai", FALSE, {}, {}, FALSE),
           Ask("gemini", TRUE, {"question"}, {}, TRUE)}

Usage(anon) == [anon |-> anon, tokens |-> 2, cost |-> 1]

MCAnswers ==
  {[stream |-> FALSE, legible |-> TRUE, usage |-> Usage(FALSE),
    blocks |-> <<Text, Bash("rm -rf /"), Bash("ls"), Bash("rm -rf /")>>],
   [stream |-> FALSE, legible |-> TRUE, usage |-> Usage(TRUE), blocks |-> <<Text>>],
   [stream |-> FALSE, legible |-> FALSE, usage |-> Usage(FALSE), blocks |-> <<Bash("rm -rf /")>>],
   [stream |-> FALSE, legible |-> TRUE, usage |-> Absent, blocks |-> <<>>],
   [stream |-> TRUE, legible |-> FALSE, usage |-> Absent, blocks |-> <<>>]}

MCPolicies ==
  {[default |-> "agent", deny |-> <<[tool |-> "Bash", pattern |-> rm, field |-> NoField]>>,
    allow |-> <<>>, to_agent |-> <<>>]}

(* No limits is what NewWiring passes. *)
MCLimits == {[session |-> 0, daily |-> 0], [session |-> 3, daily |-> 1]}

MCTable ==
  [defaults |-> [c \in {"claude-code"} |-> "sonnet"],
   rules |-> <<[tag |-> "hard-reasoning", model |-> "opus"],
               [tag |-> "read-only-summarization", model |-> "haiku"],
               [tag |-> "hard-reasoning", model |-> "sonnet"]>>]

Symmetry == Permutations(Slots)
=============================================================================
