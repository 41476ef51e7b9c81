--------------------------- MODULE MCPreToolHook ----------------------------
(* Small instances of PreToolHook: one hook on varied calls, environments   *)
(* and contents of a project that is edited meanwhile.                      *)
EXTENDS PreToolHook

CONSTANTS h1, h2, q1, rm, NotRE2

MCRegexp == {<<rm, "rm -rf /">>}

Rule(t, p) == [tool |-> t, pattern |-> p, field |-> NoField]
Bash(cmd) == [tool |-> "Bash", input |-> [raw |-> "json",
                fields |-> [f \in {"command"} |-> cmd]]]

MCCalls == {Bash("rm -rf /"), Bash("ls"), Broken}

(* A deny and an allow rule match the same command; the second deny rule is *)
(* dropped because RE2 refuses its pattern.                                 *)
MCPolicy ==
  [version |-> 1, default |-> "",
   deny |-> <<Rule("Bash", rm), Rule("Bash", NotRE2)>>,
   allow |-> <<Rule("Bash", rm)>>, to_agent |-> <<>>]

FM(enabled, ont, one, iters, cs, quiet) ==
  [enabled |-> enabled, on_timeout |-> ont, on_error |-> one,
   max_agent_iterations |-> iters, notify_channels |-> cs, quiet_hours |-> quiet]

Disk(r, p) == [found |-> TRUE, rules |-> r, policy |-> p]

Paranoid == FM(TRUE, "deny", "deny", 1, <<"desktop", "telegram">>, TRUE)
Lax      == FM(TRUE, "escalate", "approve", 0, <<"slack", "telegram", "webhook">>, FALSE)
Off      == FM(FALSE, "", "", 0, <<>>, FALSE)

MCDisks == {Disk(Paranoid, MCPolicy), Disk(Lax, Absent), Disk(Off, MCPolicy),
            Disk(Paranoid, Broken), Disk(Absent, [MCPolicy EXCEPT !.default = "approve"]),
            [Disk(Absent, Absent) EXCEPT !.found = FALSE]}

Env(disabled, key, up, log) ==
  [disabled |-> disabled, key |-> key, up |-> up, log |-> log]

MCEnvs == {Env(FALSE, TRUE, {"telegram", "webhook", "desktop"}, TRUE),
           Env(FALSE, TRUE, {"desktop"}, FALSE),
           Env(FALSE, FALSE, {}, TRUE),
           Env(TRUE, TRUE, {}, TRUE)}

MCChannelNames == KnownChannels \cup {Gap, "slack"}

MCToolChannels == {<<>>, <<"telegram">>}

(* A project with on_error: deny whose policy.yaml does not parse. *)
BrokenPolicyDisk == {Disk(Paranoid, Broken)}
=============================================================================
