---------------------------- MODULE PreToolHook -----------------------------
(***************************************************************************)
(* `arbiter hook pretool`: the process a CLI starts for each proposed tool *)
(* call.  It reads the call, loads the project's rules.md and policy.yaml, *)
(* decides by the kill switches, the regex fast path, the LLM agent, an    *)
(* escalation to the human or a fallback, writes the decision to stdout    *)
(* and then appends a row to the shared eventlog.                          *)
(* Code: cmd/arbiter/main.go, internal/{config,agent,notify,eventlog}.     *)
(*                                                                         *)
(* Several hooks run at once and share the project's files and the         *)
(* eventlog.  The LLM, the human, the network and the clock are free: each *)
(* outcome the code distinguishes may occur wherever it may occur.         *)
(***************************************************************************)
EXTENDS FastPath

CONSTANTS
  Hooks,        (* hook processes                                                *)
  Calls,        (* tool calls: Broken (no JSON on stdin) or [tool, input]        *)
  Disks,        (* contents of .arbiter/: [found, rules, policy]                 *)
  Envs,         (* process environments: [disabled, key, up, log]                *)
  Questions,    (* questions the LLM may put through escalate_to_user            *)
  ChannelNames, (* names a channel list may hold, known to arbiter or not        *)
  ToolChannels, (* channel lists escalate_to_user may ask for                    *)
  MaxUses,      (* bound: tool uses in one LLM reply                             *)
  DefaultIterations  (* max_agent_iterations when rules.md leaves it out: 10     *)

(* Front matter that validateRulesFrontMatter accepts; the zero values stand *)
(* for keys left out.                                                        *)
FrontMatter ==
  [enabled : BOOLEAN, on_timeout : {"", "approve", "deny", "escalate"},
   on_error : {"", "approve", "deny"}, max_agent_iterations : Nat,
   notify_channels : Seq(ChannelNames), quiet_hours : BOOLEAN]

Final == "final question"     \* the question of an "ask" decision

KnownChannels == {"telegram", "desktop", "webhook", "log"}
Gap == ""                     \* the place of a channel taken out of a list

ASSUME HookAssumption ==
  /\ \A d \in Disks : d.rules \in FrontMatter \cup {Absent, Broken}
  /\ \A cs \in ToolChannels : cs \in Seq(ChannelNames)
  /\ KnownChannels \cup {Gap} \subseteq ChannelNames
  /\ Final \notin Questions
  /\ MaxUses \in Nat
  /\ DefaultIterations \in Nat

VARIABLES
  disk,      (* what .arbiter/ holds now; users and agents edit it               *)
  eventlog,  (* events.jsonl: sequence of [hook, path, decision]                 *)
  pc,        (* where each hook is                                               *)
  env,       (* its environment                                                  *)
  call,      (* what the CLI put on its stdin                                    *)
  rules,     (* proj.Rules as loaded, Absent when nil                            *)
  policy,    (* proj.Policy as loaded, Absent when nil                           *)
  iter,      (* agent.Decide: LLM replies that asked for tools                   *)
  uses,      (* tool uses of the last reply still to run                         *)
  expired,   (* the agent's context deadline has passed                          *)
  req,       (* the question being dispatched                                    *)
  channels,  (* channels Dispatch has still to try                               *)
  recent,    (* notify.Policy.recent: questions asked in the dedup window        *)
  row,       (* the eventlog row logEvent is about to append                     *)
  stdout,    (* decisions written to stdout                                      *)
  cause      (* history: what the outside world last told this hook              *)

config == <<rules, policy>>
agent == <<iter, uses, expired>>
escalation == <<req, channels, recent>>
output == <<row, stdout, cause>>
hookVars == <<pc, env, call, config, agent, escalation, output>>
vars == <<disk, eventlog, hookVars>>

Decisions == {"allow", "deny"}
Paths == {"fast-path", "slow-path", "escalation", "fallback"}
Stopped == {"exit", "killed", "recovered"}
PCs == {"read", "rules", "policy", "eval", "agent", "tools", "dispatch", "asking", "log"}
         \cup Stopped
Causes == {"none", "unreadable", "no key", "send error", "send timeout", "exhausted",
           "approve", "deny", "ask", "malformed", "human approve", "human deny", "no reply"}

NoRow == [path |-> "", decision |-> ""]

-----------------------------------------------------------------------------
(* Configuration (agent.DefaultConfig and the helpers of main.go) *)

OnTimeout(h) ==
  IF rules[h] = Absent \/ rules[h].on_timeout = "" THEN "deny" ELSE rules[h].on_timeout

OnError(h) ==
  IF rules[h] = Absent \/ rules[h].on_error = "" THEN "approve" ELSE rules[h].on_error

MaxIterations(h) ==
  IF rules[h] = Absent \/ rules[h].max_agent_iterations = 0
  THEN DefaultIterations ELSE rules[h].max_agent_iterations

timeoutFallback(h) ==
  IF rules[h] = Absent \/ rules[h].on_timeout = "" THEN "deny" ELSE rules[h].on_timeout

notifyChannels(h) ==
  IF rules[h] = Absent \/ rules[h].notify_channels = <<>>
  THEN <<"desktop">> ELSE rules[h].notify_channels

KillSwitched(h) == rules[h] # Absent /\ ~rules[h].enabled

-----------------------------------------------------------------------------
(* Writing the decision *)

Goto(h, l) == pc' = [pc EXCEPT ![h] = l]
Heard(h, c) == cause' = [cause EXCEPT ![h] = c]

(* The row is appended before anything is written: a mutant of WriteThenLog. *)
LogFirst(h, decision, path) ==
  /\ row' = [row EXCEPT ![h] = [path |-> path, decision |-> decision]]
  /\ Goto(h, "log")
  /\ UNCHANGED stdout

(* hookio.Write{Allow,Deny}WithMeta; logEvent follows in a step of its own. *)
WriteThenLog(h, decision, path) ==
  /\ stdout' = [stdout EXCEPT ![h] = Append(@, decision)]
  /\ row' = [row EXCEPT ![h] = [path |-> path, decision |-> decision]]
  /\ Goto(h, "log")

(* Mutants of WriteAllowOnly: a missing `return`, and rules.md's word for the *)
(* decision where the CLI expects its own.                                    *)
MissingReturn(h) ==
  stdout' = [stdout EXCEPT ![h] = Append(@, "allow")] /\ Goto(h, "rules") /\ UNCHANGED row
WriteApprove(h) ==
  stdout' = [stdout EXCEPT ![h] = Append(@, "approve")] /\ Goto(h, "exit") /\ UNCHANGED row

(* The paths that write an allow and return without logEvent. *)
WriteAllowOnly(h) ==
  /\ stdout' = [stdout EXCEPT ![h] = Append(@, "allow")]
  /\ Goto(h, "exit")
  /\ UNCHANGED row

(* The allow branch logs the deny it was copied from: a mutant of emitFallback. *)
FallbackLogsDeny(h, fallback) ==
  /\ stdout' = [stdout EXCEPT ![h] = Append(@, IF fallback = "deny" THEN "deny" ELSE "allow")]
  /\ row' = [row EXCEPT ![h] = [path |-> "fallback", decision |-> "deny"]]
  /\ Goto(h, "log")

(* emitFallback: only "deny" denies. *)
emitFallback(h, fallback) ==
  WriteThenLog(h, IF fallback = "deny" THEN "deny" ELSE "allow", "fallback")

(* What runSlowPath does with the Decision that agent.Decide returns. *)
ActOn(h, outcome) ==
  CASE outcome = "approve" -> WriteThenLog(h, "allow", "slow-path") /\ UNCHANGED escalation
    [] outcome = "deny"    -> WriteThenLog(h, "deny", "slow-path") /\ UNCHANGED escalation
    [] outcome = "ask"     -> /\ req' = [req EXCEPT ![h] = Final]
                              /\ channels' = [channels EXCEPT ![h] = notifyChannels(h)]
                              /\ Goto(h, "dispatch")
                              /\ UNCHANGED <<recent, row, stdout>>

(* agent.fallback *)
AgentFallback(onFailure) ==
  CASE onFailure = "deny"     -> "deny"
    [] onFailure = "escalate" -> "ask"
    [] OTHER                  -> "approve"

-----------------------------------------------------------------------------
(* Reading the call and the project *)

ReadInput(h) ==
  /\ pc[h] = "read"
  /\ IF call[h] = Broken \/ env[h].disabled
     THEN /\ WriteAllowOnly(h)
          /\ Heard(h, IF call[h] = Broken THEN "unreadable" ELSE "none")
     ELSE /\ Goto(h, "rules")
          /\ UNCHANGED output
  /\ UNCHANGED <<disk, eventlog, env, call, config, agent, escalation>>

(* LoadFromCwd: an error in either file leaves proj nil, so that the other *)
(* file is lost with it.  The two files are read one after the other.      *)
LoadRulesFile(h) ==
  /\ pc[h] = "rules"
  /\ IF ~disk.found \/ disk.rules = Broken
     THEN Goto(h, "eval") /\ UNCHANGED rules
     ELSE Goto(h, "policy") /\ rules' = [rules EXCEPT ![h] = disk.rules]
  /\ UNCHANGED <<disk, eventlog, env, call, policy, agent, escalation, output>>

LoadPolicyFile(h) ==
  LET loaded == LoadPolicy(disk.policy) IN
  /\ pc[h] = "policy"
  /\ IF loaded = Broken
     THEN rules' = [rules EXCEPT ![h] = Absent] /\ UNCHANGED policy
     ELSE policy' = [policy EXCEPT ![h] = loaded] /\ UNCHANGED rules
  /\ Goto(h, "eval")
  /\ UNCHANGED <<disk, eventlog, env, call, agent, escalation, output>>

(* Someone edits rules.md or policy.yaml. *)
EditProject ==
  /\ disk' \in Disks
  /\ UNCHANGED <<eventlog, hookVars>>

(* The kill switch of rules.md, the fast path, and the way into the slow   *)
(* path, which needs an API key.                                           *)
EvalPolicy(h) ==
  LET outcome == Eval(policy[h], call[h]).outcome IN
  /\ pc[h] = "eval"
  /\ \/ /\ KillSwitched(h)
        /\ WriteAllowOnly(h)
        /\ UNCHANGED cause
     \/ /\ ~KillSwitched(h) /\ outcome \in Decisions
        /\ WriteThenLog(h, outcome, "fast-path")
        /\ UNCHANGED cause
     \/ /\ ~KillSwitched(h) /\ outcome = "agent" /\ ~env[h].key
        /\ emitFallback(h, OnError(h))
        /\ Heard(h, "no key")
     \/ /\ ~KillSwitched(h) /\ outcome = "agent" /\ env[h].key
        /\ Goto(h, "agent")
        /\ UNCHANGED output
  /\ UNCHANGED <<disk, eventlog, env, call, config, agent, escalation>>

-----------------------------------------------------------------------------
(* The agent's decide loop *)

(* parseDecision accepts text without a marker: a mutant of the next. *)
TrustAnyText(text) == IF text = "malformed" THEN "approve" ELSE text

(* A final text without a decision is refused. *)
parseDecision(text) == IF text = "malformed" THEN "deny" ELSE text

(* A reply without tool calls: the loop ends with its text. *)
FinalReply(h) ==
  /\ pc[h] = "agent" /\ iter[h] < MaxIterations(h) /\ ~expired[h]
  /\ \E text \in {"approve", "deny", "ask", "malformed"} :
       ActOn(h, parseDecision(text)) /\ Heard(h, text)
  /\ UNCHANGED <<disk, eventlog, env, call, config, agent>>

(* The loop does not count its iterations: a mutant of CountIteration. *)
ForgetIteration(h) == UNCHANGED iter

CountIteration(h) == iter' = [iter EXCEPT ![h] = @ + 1]

(* A reply with tool calls. *)
ToolReply(h) ==
  /\ pc[h] = "agent" /\ iter[h] < MaxIterations(h) /\ ~expired[h]
  /\ CountIteration(h)
  /\ \E n \in 1..MaxUses : uses' = [uses EXCEPT ![h] = n]
  /\ Goto(h, "tools")
  /\ UNCHANGED <<disk, eventlog, env, call, config, expired, escalation, output>>

(* Send returns an error; ctx.Err() tells a timeout from other failures. *)
SendFails(h) ==
  /\ pc[h] = "agent" /\ iter[h] < MaxIterations(h)
  /\ IF expired[h]
     THEN ActOn(h, AgentFallback(OnTimeout(h))) /\ Heard(h, "send timeout")
     ELSE ActOn(h, AgentFallback(OnError(h))) /\ Heard(h, "send error")
  /\ UNCHANGED <<disk, eventlog, env, call, config, agent>>

IterationsExhausted(h) ==
  /\ pc[h] = "agent" /\ iter[h] >= MaxIterations(h)
  /\ ActOn(h, AgentFallback(OnTimeout(h)))
  /\ Heard(h, "exhausted")
  /\ UNCHANGED <<disk, eventlog, env, call, config, agent>>

(* One tool use that changes nothing of the hook's state. *)
PlainTool(h) ==
  /\ pc[h] = "tools" /\ uses[h] > 0
  /\ uses' = [uses EXCEPT ![h] = @ - 1]
  /\ UNCHANGED <<disk, eventlog, pc, env, call, config, iter, expired, escalation, output>>

(* The escalate_to_user tool: its question goes through the same dispatcher. *)
EscalateToUser(h) ==
  /\ pc[h] = "tools" /\ uses[h] > 0
  /\ uses' = [uses EXCEPT ![h] = @ - 1]
  /\ \E q \in Questions, cs \in ToolChannels :
       /\ req' = [req EXCEPT ![h] = q]
       /\ channels' = [channels EXCEPT ![h] = cs]
  /\ Goto(h, "dispatch")
  /\ UNCHANGED <<disk, eventlog, env, call, config, iter, expired, recent, output>>

NextIteration(h) ==
  /\ pc[h] = "tools" /\ uses[h] = 0
  /\ Goto(h, "agent")
  /\ UNCHANGED <<disk, eventlog, env, call, config, agent, escalation, output>>

(* The timer of the agent's context (timeout_seconds). *)
AgentDeadline(h) ==
  /\ \/ pc[h] \in {"agent", "tools"}
     \/ pc[h] \in {"dispatch", "asking"} /\ req[h] # Final
  /\ ~expired[h]
  /\ expired' = [expired EXCEPT ![h] = TRUE]
  /\ UNCHANGED <<disk, eventlog, pc, env, call, config, iter, uses, escalation, output>>

-----------------------------------------------------------------------------
(* Escalation: notify.Registry.Dispatch *)

(* Back from Dispatch with a reply, "timeout" or "error".  For a tool the   *)
(* result goes into the next LLM request; for the final question the hook   *)
(* answers.                                                                 *)
Returned(h, result) ==
  IF req[h] # Final
  THEN Goto(h, "tools") /\ UNCHANGED output
  ELSE CASE result \in {"approve", "allow"} ->
              WriteThenLog(h, "allow", "escalation") /\ Heard(h, "human approve")
         [] result \in {"timeout", "error"} ->
              emitFallback(h, timeoutFallback(h)) /\ Heard(h, "no reply")
         [] OTHER ->
              WriteThenLog(h, "deny", "escalation") /\ Heard(h, "human deny")

(* Quiet hours take Telegram out, which leaves a gap the dispatcher skips. *)
FilterChannels(cs) ==
  IF \A i \in DOMAIN cs : cs[i] = "telegram"
  THEN <<"desktop", "log">>
  ELSE [i \in DOMAIN cs |-> IF cs[i] = "telegram" THEN Gap ELSE cs[i]]

Requested(h) == IF channels[h] = <<>> THEN <<"desktop", "log">> ELSE channels[h]

(* A question asked before by this process is not asked again while the    *)
(* dedup window is open; the window and the quiet hours are the clock's.   *)
Deduplicated(h) ==
  /\ pc[h] = "dispatch"
  /\ rules[h] # Absent /\ req[h] \in recent[h]
  /\ Returned(h, "timeout")
  /\ UNCHANGED <<disk, eventlog, env, call, config, agent, escalation>>

Dispatch(h) ==
  /\ pc[h] = "dispatch"
  /\ IF rules[h] = Absent
     THEN channels' = [channels EXCEPT ![h] = Requested(h)] /\ UNCHANGED recent
     ELSE /\ recent' = [recent EXCEPT ![h] = @ \cup {req[h]}]
          /\ \E quiet \in {FALSE, rules[h].quiet_hours} :
               channels' = [channels EXCEPT ![h] =
                              IF quiet THEN FilterChannels(Requested(h)) ELSE Requested(h)]
  /\ Goto(h, "asking")
  /\ UNCHANGED <<disk, eventlog, env, call, config, agent, req, output>>

CanAsk(h, c) == c = "log" \/ c \in KnownChannels \cap env[h].up

(* What a channel's Ask may return besides an error.  Desktop and log never *)
(* bring a reply; the webhook's body is free text; Telegram's reply is one   *)
(* of the options.                                                           *)
AskResults(c) ==
  CASE c = "log"      -> {"timeout"}
    [] c = "desktop"  -> {"timeout"}
    [] c = "webhook"  -> {"approve", "allow", "deny", "other", "timeout"}
    [] c = "telegram" -> {"approve", "deny", "timeout"}

(* Unknown and unavailable channels are skipped, a failed Ask moves on. *)
NextChannel(h) ==
  /\ pc[h] = "asking" /\ channels[h] # <<>>
  /\ Head(channels[h]) # "log"
  /\ channels' = [channels EXCEPT ![h] = Tail(@)]
  /\ UNCHANGED <<disk, eventlog, pc, env, call, config, agent, req, recent, output>>

(* The first channel whose Ask returns ends the dispatch, reply or not. *)
Ask(h) ==
  /\ pc[h] = "asking" /\ channels[h] # <<>>
  /\ CanAsk(h, Head(channels[h]))
  /\ \E result \in AskResults(Head(channels[h])) : Returned(h, result)
  /\ UNCHANGED <<disk, eventlog, env, call, config, agent, escalation>>

NoChannelLeft(h) ==
  /\ pc[h] = "asking" /\ channels[h] = <<>>
  /\ Returned(h, "error")
  /\ UNCHANGED <<disk, eventlog, env, call, config, agent, escalation>>

-----------------------------------------------------------------------------
(* The eventlog row, and the ways a hook is cut short *)

LogEvent(h) ==
  /\ pc[h] = "log"
  /\ eventlog' = IF env[h].log
                 THEN Append(eventlog, [hook |-> h, path |-> row[h].path,
                                    decision |-> row[h].decision])
                 ELSE eventlog
  /\ Goto(h, "exit")
  /\ UNCHANGED <<disk, env, call, config, agent, escalation, output>>

(* The CLI's hook timeout, a signal, a closed stdout. *)
Kill(h) ==
  /\ pc[h] \notin Stopped
  /\ Goto(h, "killed")
  /\ UNCHANGED <<disk, eventlog, env, call, config, agent, escalation, output>>

(* failOpen: a panic anywhere in the handler writes one more allow, whatever *)
(* was written before and whatever on_error says.                            *)
Panic(h) ==
  /\ pc[h] \notin Stopped
  /\ stdout' = [stdout EXCEPT ![h] = Append(@, "allow")]
  /\ Goto(h, "recovered")
  /\ UNCHANGED <<disk, eventlog, env, call, config, agent, escalation, row, cause>>

-----------------------------------------------------------------------------
Init ==
  /\ disk \in Disks
  /\ eventlog = <<>>
  /\ pc = [h \in Hooks |-> "read"]
  /\ env \in [Hooks -> Envs]
  /\ call \in [Hooks -> Calls]
  /\ rules = [h \in Hooks |-> Absent]
  /\ policy = [h \in Hooks |-> Absent]
  /\ iter = [h \in Hooks |-> 0]
  /\ uses = [h \in Hooks |-> 0]
  /\ expired = [h \in Hooks |-> FALSE]
  /\ req = [h \in Hooks |-> Final]
  /\ channels = [h \in Hooks |-> <<>>]
  /\ recent = [h \in Hooks |-> {}]
  /\ row = [h \in Hooks |-> NoRow]
  /\ stdout = [h \in Hooks |-> <<>>]
  /\ cause = [h \in Hooks |-> "none"]

(* The hook's own code.  Every one of these steps ends: reads of local files, *)
(* LLM and channel calls under a context with a deadline.                     *)
Step(h) ==
  \/ ReadInput(h) \/ LoadRulesFile(h) \/ LoadPolicyFile(h) \/ EvalPolicy(h)
  \/ FinalReply(h) \/ ToolReply(h) \/ SendFails(h) \/ IterationsExhausted(h)
  \/ PlainTool(h) \/ EscalateToUser(h) \/ NextIteration(h)
  \/ Deduplicated(h) \/ Dispatch(h) \/ NextChannel(h) \/ Ask(h) \/ NoChannelLeft(h)
  \/ LogEvent(h)

Next ==
  \/ \E h \in Hooks : Step(h)
  \/ \E h \in Hooks : AgentDeadline(h) \/ Kill(h) \/ Panic(h)
  \/ EditProject

SafeSpec == Init /\ [][Next]_vars

Fairness == \A h \in Hooks : WF_vars(Step(h))

Spec == SafeSpec /\ Fairness

-----------------------------------------------------------------------------
(* Properties *)

Row == [path : Paths, decision : Decisions]

(* The values each variable takes. *)
TypeOK ==
  /\ disk \in Disks
  /\ eventlog \in Seq([hook : Hooks, path : Paths, decision : Decisions])
  /\ pc \in [Hooks -> PCs]
  /\ env \in [Hooks -> Envs]
  /\ call \in [Hooks -> Calls]
  /\ rules \in [Hooks -> FrontMatter \cup {Absent}]
  /\ policy \in [Hooks -> {LoadPolicy(d.policy) : d \in Disks} \cup {Absent}]
  /\ iter \in [Hooks -> Nat]
  /\ uses \in [Hooks -> 0..MaxUses]
  /\ expired \in [Hooks -> BOOLEAN]
  /\ req \in [Hooks -> Questions \cup {Final}]
  /\ channels \in [Hooks -> Seq(ChannelNames)]
  /\ recent \in [Hooks -> SUBSET (Questions \cup {Final})]
  /\ row \in [Hooks -> Row \cup {NoRow}]
  /\ stdout \in [Hooks -> Seq(Decisions)]
  /\ cause \in [Hooks -> Causes]

(* A hook writes at most one decision of its own, failOpen one more after a *)
(* panic, and one that returns has written one: a session is never left     *)
(* without an answer.                                                       *)
OneAnswer ==
  \A h \in Hooks :
    /\ Len(stdout[h]) <= IF pc[h] = "recovered" THEN 2 ELSE 1
    /\ pc[h] \in {"log", "exit", "recovered"} => stdout[h] # <<>>

RowsOf(h) == {i \in DOMAIN eventlog : eventlog[i].hook = h}

(* A call has at most one row in the eventlog, written after the decision   *)
(* reached stdout and saying the same (what lookup_history and `arbiter     *)
(* explain` replay is what the CLI was told), and a hook that came to its   *)
(* end by itself has one unless a kill switch, an unreadable call or a full *)
(* disk explains why not.  Appends that meet at the file are Journal's.     *)
LogTellsTheAnswer ==
  /\ \A i \in DOMAIN eventlog :
       LET h == eventlog[i].hook
       IN  stdout[h] # <<>> /\ eventlog[i].decision = stdout[h][1]
  /\ \A i, j \in DOMAIN eventlog : eventlog[i].hook = eventlog[j].hook => i = j
  /\ \A h \in Hooks :
       pc[h] = "exit" => \/ RowsOf(h) # {}
                         \/ cause[h] = "unreadable"
                         \/ env[h].disabled \/ KillSwitched(h)
                         \/ ~env[h].log

DeniedByRule(p, c) == p # Absent /\ \E i \in DOMAIN p.deny : matches(p.deny[i], c)

(* What the handler writes, without the allow failOpen adds after a panic. *)
OwnAnswers(h) ==
  {i \in DOMAIN stdout[h] : pc[h] = "recovered" => i < Len(stdout[h])}

(* A tool call that a deny rule of the loaded policy matches is never       *)
(* allowed by the handler, whatever the other lists, the default, the agent *)
(* or the human say, unless a kill switch pre-empts the policy.  This is    *)
(* the order eval.go documents, deny before allow before to_agent;          *)
(* docs/DECISION_FLOW.md ("deny and allow share the same list ordering")    *)
(* and docs/POLICY_SPEC.md ("a to_agent overrides both") say otherwise.     *)
DenyRuleHolds ==
  \A h \in Hooks :
    DeniedByRule(policy[h], call[h]) /\ ~KillSwitched(h)
    => \A i \in OwnAnswers(h) : stdout[h][i] = "deny"

AllowHasReason(h) ==
  \/ cause[h] = "unreadable" \/ env[h].disabled \/ KillSwitched(h)
  \/ Eval(policy[h], call[h]).outcome = "allow"
  \/ cause[h] \in {"approve", "human approve"}
  \/ cause[h] \in {"no key", "send error"} /\ OnError(h) # "deny"
  \/ cause[h] \in {"send timeout", "exhausted"} /\ OnTimeout(h) = "approve"
  \/ cause[h] = "no reply" /\ OnTimeout(h) \in {"approve", "escalate"}

(* Every allow the handler writes has a reason: a kill switch, the policy,  *)
(* the agent's or the human's approval, or the fallback configured for      *)
(* exactly the failure that happened.  With on_error and on_timeout at deny *)
(* ("paranoid setups", docs/AGENT.md) no failure of the agent or of the     *)
(* escalation lets a call through.  Two failures do, whatever on_error      *)
(* says: a call that cannot be read, and a panic, after which failOpen      *)
(* writes an allow of its own (main.go:222-227, 543-548; main.go:180-182    *)
(* and docs/CLI.md say that on_error drives them too).                      *)
AllowIsJustified ==
  \A h \in Hooks : \A i \in OwnAnswers(h) : stdout[h][i] = "allow" => AllowHasReason(h)

(* Whatever the LLM, the human and the network do, the hook answers the CLI *)
(* or is killed: no loop or wait of the handler is endless.                 *)
EveryCallAnswered ==
  \A h \in Hooks : <>(stdout[h] # <<>> \/ pc[h] = "killed")

(* The hook keeps the gate's promise. *)
FirstAnswer(h) == IF stdout[h] = <<>> THEN "none" ELSE stdout[h][1]

Recorded(h) ==
  IF \E i \in DOMAIN eventlog : eventlog[i].hook = h
  THEN eventlog[CHOOSE i \in DOMAIN eventlog : eventlog[i].hook = h].decision
  ELSE "none"

Gate == INSTANCE DecisionGate WITH
  answer <- [h \in Hooks |-> FirstAnswer(h)],
  recorded <- [h \in Hooks |-> Recorded(h)],
  cut <- {h \in Hooks : pc[h] = "killed"}

GateSpec == Gate!Spec

(* Disagreements with the documentation *)

(* docs/CLI.md, "arbiter hook": "Any internal failure causes the rules.md   *)
(* `on_error` policy to drive the response."  Stated for a project nobody   *)
(* edits.  A policy.yaml that does not parse takes rules.md with it, so the *)
(* built-in approve answers instead.                                        *)
OnErrorDrivesFailures ==
  \A h \in Hooks :
    /\ disk.found /\ disk.rules \notin {Absent, Broken}
    /\ disk.rules.on_error = "deny"
    /\ cause[h] \in {"no key", "send error"}
    => stdout[h] # <<"allow">>
=============================================================================
