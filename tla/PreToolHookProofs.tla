-------------------------- MODULE PreToolHookProofs -------------------------
(***************************************************************************)
(* Proofs about PreToolHook, for any hooks, calls, project contents,       *)
(* environments and policies: type correctness, the invariants OneAnswer,  *)
(* LogTellsTheAnswer, DenyRuleHolds and AllowIsJustified, and that the     *)
(* hook implements the safety part of DecisionGate.                        *)
(***************************************************************************)
EXTENDS PreToolHook, SequenceTheorems, TLAPS

-----------------------------------------------------------------------------
(* Lemmas about the operators the actions are built from *)

(* Whatever channels were asked for, Dispatch works on a list of names. *)
LEMMA RequestedType ==
  ASSUME TypeOK, NEW h \in Hooks
  PROVE  /\ Requested(h) \in Seq(ChannelNames)
         /\ FilterChannels(Requested(h)) \in Seq(ChannelNames)
<1>1. channels[h] \in Seq(ChannelNames) /\ <<"desktop", "log">> \in Seq(ChannelNames)
  BY HookAssumption DEF TypeOK, KnownChannels
<1>2. Requested(h) \in Seq(ChannelNames)
  BY <1>1 DEF Requested
<1>3. ASSUME NEW cs \in Seq(ChannelNames)
      PROVE  FilterChannels(cs) \in Seq(ChannelNames)
  <2> DEFINE kept == [i \in DOMAIN cs |-> IF cs[i] = "telegram" THEN Gap ELSE cs[i]]
  <2>1. Len(cs) \in Nat /\ cs \in [1..Len(cs) -> ChannelNames] /\ Gap \in ChannelNames
    BY HookAssumption
  <2>2. kept \in [1..Len(cs) -> ChannelNames]
    BY <2>1
  <2>3. kept \in Seq(ChannelNames)
    BY <2>1, <2>2, IsASeq
  <2> QED
    BY <1>1, <2>3 DEF FilterChannels
<1> QED
  BY <1>2, <1>3

(* The channels of the final question are a list of names. *)
LEMMA NotifyChannelsType ==
  ASSUME TypeOK, NEW h \in Hooks
  PROVE  notifyChannels(h) \in Seq(ChannelNames)
<1>1. rules[h] \in FrontMatter \cup {Absent}
  BY DEF TypeOK
<1>2. <<"desktop">> \in Seq(ChannelNames)
  BY HookAssumption DEF KnownChannels
<1>3. CASE rules[h] = Absent \/ rules[h].notify_channels = <<>>
  BY <1>2, <1>3 DEF notifyChannels
<1>4. CASE ~(rules[h] = Absent \/ rules[h].notify_channels = <<>>)
  BY <1>1, <1>4 DEF notifyChannels, FrontMatter
<1> QED
  BY <1>3, <1>4

(* Writing a decision keeps the output well typed. *)
LEMMA WriteType ==
  ASSUME TypeOK, NEW h \in Hooks, NEW d \in Decisions, NEW p \in Paths,
         WriteThenLog(h, d, p)
  PROVE  /\ stdout' \in [Hooks -> Seq(Decisions)]
         /\ row' \in [Hooks -> Row \cup {NoRow}]
         /\ pc' \in [Hooks -> PCs]
<1>1. stdout[h] \in Seq(Decisions)
  BY DEF TypeOK
<1>2. Append(stdout[h], d) \in Seq(Decisions)
  BY <1>1
<1>3. [path |-> p, decision |-> d] \in Row
  BY DEF Row
<1> QED
  BY <1>2, <1>3 DEF TypeOK, WriteThenLog, Goto, PCs

LEMMA WriteAllowOnlyType ==
  ASSUME TypeOK, NEW h \in Hooks, WriteAllowOnly(h)
  PROVE  /\ stdout' \in [Hooks -> Seq(Decisions)]
         /\ row' \in [Hooks -> Row \cup {NoRow}]
         /\ pc' \in [Hooks -> PCs]
<1>1. Append(stdout[h], "allow") \in Seq(Decisions)
  BY DEF TypeOK, Decisions
<1> QED
  BY <1>1 DEF TypeOK, WriteAllowOnly, Goto, PCs, Stopped

LEMMA FallbackType ==
  ASSUME TypeOK, NEW h \in Hooks, NEW f, emitFallback(h, f)
  PROVE  /\ stdout' \in [Hooks -> Seq(Decisions)]
         /\ row' \in [Hooks -> Row \cup {NoRow}]
         /\ pc' \in [Hooks -> PCs]
<1> DEFINE d == IF f = "deny" THEN "deny" ELSE "allow"
<1>1. d \in Decisions /\ "fallback" \in Paths
  BY DEF Decisions, Paths
<1> QED
  BY <1>1, WriteType DEF emitFallback

(* Acting on an agent outcome keeps the output and the escalation well typed. *)
LEMMA ActOnType ==
  ASSUME TypeOK, NEW h \in Hooks, NEW o \in {"approve", "deny", "ask"}, ActOn(h, o)
  PROVE  /\ stdout' \in [Hooks -> Seq(Decisions)]
         /\ row' \in [Hooks -> Row \cup {NoRow}]
         /\ pc' \in [Hooks -> PCs]
         /\ req' \in [Hooks -> Questions \cup {Final}]
         /\ channels' \in [Hooks -> Seq(ChannelNames)]
         /\ recent' = recent
<1>0. {"allow", "deny"} \subseteq Decisions /\ "slow-path" \in Paths
  BY DEF Decisions, Paths
<1>1. CASE o = "approve"
  <2>1. WriteThenLog(h, "allow", "slow-path") /\ UNCHANGED escalation
    BY <1>1 DEF ActOn
  <2> QED
    BY <2>1, <1>0, WriteType DEF escalation, TypeOK
<1>2. CASE o = "deny"
  <2>1. WriteThenLog(h, "deny", "slow-path") /\ UNCHANGED escalation
    BY <1>2 DEF ActOn
  <2> QED
    BY <2>1, <1>0, WriteType DEF escalation, TypeOK
<1>3. CASE o = "ask"
  <2>1. notifyChannels(h) \in Seq(ChannelNames)
    BY NotifyChannelsType
  <2>2. /\ req' = [req EXCEPT ![h] = Final]
        /\ channels' = [channels EXCEPT ![h] = notifyChannels(h)]
        /\ Goto(h, "dispatch")
        /\ UNCHANGED <<recent, row, stdout>>
    BY <1>3 DEF ActOn
  <2> QED
    BY <2>1, <2>2 DEF TypeOK, Goto, PCs
<1> QED
  BY <1>1, <1>2, <1>3

LEMMA ReturnedType ==
  ASSUME TypeOK, NEW h \in Hooks, NEW r, Returned(h, r)
  PROVE  /\ stdout' \in [Hooks -> Seq(Decisions)]
         /\ row' \in [Hooks -> Row \cup {NoRow}]
         /\ pc' \in [Hooks -> PCs]
         /\ cause' \in [Hooks -> Causes]
<1>0. {"allow", "deny"} \subseteq Decisions /\ "escalation" \in Paths
  BY DEF Decisions, Paths
<1>1. CASE req[h] # Final
  BY <1>1 DEF Returned, TypeOK, Goto, output, PCs
<1>2. CASE req[h] = Final
  <2>1. CASE r \in {"approve", "allow"}
    <3>1. WriteThenLog(h, "allow", "escalation") /\ Heard(h, "human approve")
      BY <1>2, <2>1 DEF Returned
    <3> QED
      BY <3>1, <1>0, WriteType DEF Heard, TypeOK, Causes
  <2>2. CASE r \notin {"approve", "allow"} /\ r \in {"timeout", "error"}
    <3>1. emitFallback(h, timeoutFallback(h)) /\ Heard(h, "no reply")
      BY <1>2, <2>2 DEF Returned
    <3> QED
      BY <3>1, FallbackType DEF Heard, TypeOK, Causes
  <2>3. CASE r \notin {"approve", "allow"} /\ r \notin {"timeout", "error"}
    <3>1. WriteThenLog(h, "deny", "escalation") /\ Heard(h, "human deny")
      BY <1>2, <2>3 DEF Returned
    <3> QED
      BY <3>1, <1>0, WriteType DEF Heard, TypeOK, Causes
  <2> QED
    BY <2>1, <2>2, <2>3
<1> QED
  BY <1>1, <1>2

LEMMA OutcomeType ==
  /\ \A f : AgentFallback(f) \in {"approve", "deny", "ask"}
  /\ \A t \in {"approve", "deny", "ask", "malformed"} :
       parseDecision(t) \in {"approve", "deny", "ask"}
  BY DEF AgentFallback, parseDecision

-----------------------------------------------------------------------------
(* Type correctness *)

LEMMA InitType == Init => TypeOK
<1> SUFFICES ASSUME Init PROVE TypeOK
  OBVIOUS
<1>1. /\ <<>> \in Seq([hook : Hooks, path : Paths, decision : Decisions])
      /\ <<>> \in Seq(ChannelNames) /\ <<>> \in Seq(Decisions)
  OBVIOUS
<1> QED
  BY <1>1, HookAssumption DEF Init, TypeOK, PCs, Stopped, Causes

(* A hook about to log has a row to log. *)
RowReady == \A h \in Hooks : pc[h] = "log" => row[h] \in Row

LEMMA StepType ==
  ASSUME TypeOK, RowReady, NEW h \in Hooks, Step(h)
  PROVE  TypeOK'
<1> USE DEF config, agent, escalation, output
<1>1. CASE ReadInput(h)
  <2>1. CASE call[h] = Broken \/ env[h].disabled
    <3>1. WriteAllowOnly(h)
      BY <1>1, <2>1 DEF ReadInput
    <3> QED
      BY <1>1, <2>1, <3>1, WriteAllowOnlyType DEF ReadInput, Heard, TypeOK, Causes
  <2>2. CASE ~(call[h] = Broken \/ env[h].disabled)
    BY <1>1, <2>2 DEF ReadInput, Goto, TypeOK, PCs
  <2> QED
    BY <2>1, <2>2
<1>2. CASE LoadRulesFile(h)
  <2>1. disk.rules \in FrontMatter \cup {Absent, Broken}
    BY HookAssumption DEF TypeOK
  <2> QED
    BY <1>2, <2>1 DEF LoadRulesFile, Goto, TypeOK, PCs
<1>3. CASE LoadPolicyFile(h)
  <2>1. LoadPolicy(disk.policy) \in {LoadPolicy(d.policy) : d \in Disks}
    BY DEF TypeOK
  <2> DEFINE loaded == LoadPolicy(disk.policy)
             readable == {LoadPolicy(d.policy) : d \in Disks}
  <2>2. /\ policy \in [Hooks -> readable \cup {Absent}]
        /\ loaded \in readable
    BY <2>1 DEF TypeOK
  <2>3. /\ pc' = [pc EXCEPT ![h] = "eval"]
        /\ \/ rules' = [rules EXCEPT ![h] = Absent] /\ UNCHANGED policy
           \/ policy' = [policy EXCEPT ![h] = loaded] /\ UNCHANGED rules
        /\ UNCHANGED <<disk, eventlog, env, call, agent, escalation, output>>
    BY <1>3 DEF LoadPolicyFile, Goto
  <2> HIDE DEF loaded, readable
  <2>4. policy' \in [Hooks -> readable \cup {Absent}]
    BY <2>2, <2>3
  <2>5. /\ rules' \in [Hooks -> FrontMatter \cup {Absent}]
        /\ pc' \in [Hooks -> PCs]
    BY <2>3 DEF TypeOK, PCs
  <2> QED
    BY <2>3, <2>4, <2>5 DEF TypeOK, readable
<1>4. CASE EvalPolicy(h)
  <2> DEFINE outcome == Eval(policy[h], call[h]).outcome
  <2>1. CASE KillSwitched(h) /\ WriteAllowOnly(h) /\ UNCHANGED cause
    BY <1>4, <2>1, WriteAllowOnlyType DEF EvalPolicy, TypeOK
  <2>2. CASE outcome \in Decisions /\ WriteThenLog(h, outcome, "fast-path") /\ UNCHANGED cause
    <3>1. "fast-path" \in Paths
      BY DEF Paths
    <3> HIDE DEF outcome
    <3> QED
      BY <1>4, <2>2, <3>1, WriteType DEF EvalPolicy, TypeOK
  <2>3. CASE emitFallback(h, OnError(h)) /\ Heard(h, "no key")
    BY <1>4, <2>3, FallbackType DEF EvalPolicy, Heard, TypeOK, Causes
  <2>4. CASE Goto(h, "agent") /\ UNCHANGED output
    BY <1>4, <2>4 DEF EvalPolicy, Goto, TypeOK, PCs
  <2> QED
    BY <1>4, <2>1, <2>2, <2>3, <2>4 DEF EvalPolicy
<1>5. CASE FinalReply(h)
  <2>1. PICK t \in {"approve", "deny", "ask", "malformed"} :
          ActOn(h, parseDecision(t)) /\ Heard(h, t)
    BY <1>5 DEF FinalReply
  <2>2. parseDecision(t) \in {"approve", "deny", "ask"}
    BY OutcomeType
  <2>3. /\ stdout' \in [Hooks -> Seq(Decisions)]
        /\ row' \in [Hooks -> Row \cup {NoRow}]
        /\ pc' \in [Hooks -> PCs]
        /\ req' \in [Hooks -> Questions \cup {Final}]
        /\ channels' \in [Hooks -> Seq(ChannelNames)]
        /\ recent' = recent
    BY <2>1, <2>2, ActOnType
  <2>4. cause' \in [Hooks -> Causes]
    BY <2>1 DEF Heard, TypeOK, Causes
  <2> QED
    BY <1>5, <2>3, <2>4 DEF FinalReply, TypeOK
<1>6. CASE ToolReply(h)
  BY <1>6, HookAssumption DEF ToolReply, CountIteration, Goto, TypeOK, PCs
<1>7. CASE SendFails(h)
  <2>1. \/ ActOn(h, AgentFallback(OnTimeout(h))) /\ Heard(h, "send timeout")
        \/ ActOn(h, AgentFallback(OnError(h))) /\ Heard(h, "send error")
    BY <1>7 DEF SendFails
  <2>2. CASE ActOn(h, AgentFallback(OnTimeout(h))) /\ Heard(h, "send timeout")
    BY <1>7, <2>2, OutcomeType, ActOnType DEF SendFails, Heard, TypeOK, Causes
  <2>3. CASE ActOn(h, AgentFallback(OnError(h))) /\ Heard(h, "send error")
    BY <1>7, <2>3, OutcomeType, ActOnType DEF SendFails, Heard, TypeOK, Causes
  <2> QED
    BY <2>1, <2>2, <2>3
<1>8. CASE IterationsExhausted(h)
  BY <1>8, OutcomeType, ActOnType DEF IterationsExhausted, Heard, TypeOK, Causes
<1>9. CASE PlainTool(h)
  BY <1>9, HookAssumption DEF PlainTool, TypeOK
<1>10. CASE EscalateToUser(h)
  BY <1>10, HookAssumption DEF EscalateToUser, Goto, TypeOK, PCs
<1>11. CASE NextIteration(h)
  BY <1>11 DEF NextIteration, Goto, TypeOK, PCs
<1>12. CASE Deduplicated(h)
  BY <1>12, ReturnedType DEF Deduplicated, TypeOK
<1>13. CASE Dispatch(h)
  <2> DEFINE filtered(q) == IF q THEN FilterChannels(Requested(h)) ELSE Requested(h)
  <2>1. \A q : filtered(q) \in Seq(ChannelNames)
    BY RequestedType
  <2>2. Requested(h) \in Seq(ChannelNames)
    BY RequestedType
  <2> HIDE DEF filtered
  <2>3. CASE rules[h] = Absent
    BY <1>13, <2>2, <2>3 DEF Dispatch, Goto, TypeOK, PCs
  <2>4. CASE rules[h] # Absent
    <3>1. PICK quiet \in {FALSE, rules[h].quiet_hours} :
            channels' = [channels EXCEPT ![h] = filtered(quiet)]
      BY <1>13, <2>4 DEF Dispatch, filtered
    <3>2. recent' = [recent EXCEPT ![h] = @ \cup {req[h]}]
      BY <1>13, <2>4 DEF Dispatch
    <3> QED
      BY <1>13, <2>1, <3>1, <3>2 DEF Dispatch, Goto, TypeOK, PCs
  <2> QED
    BY <2>3, <2>4
<1>14. CASE NextChannel(h)
  <2>1. channels[h] \in Seq(ChannelNames) /\ channels[h] # <<>>
    BY <1>14 DEF NextChannel, TypeOK
  <2>2. Tail(channels[h]) \in Seq(ChannelNames)
    BY <2>1
  <2> QED
    BY <1>14, <2>2 DEF NextChannel, TypeOK
<1>15. CASE Ask(h)
  BY <1>15, ReturnedType DEF Ask, TypeOK
<1>16. CASE NoChannelLeft(h)
  BY <1>16, ReturnedType DEF NoChannelLeft, TypeOK
<1>17. CASE LogEvent(h)
  <2> DEFINE LogRow == [hook |-> h, path |-> row[h].path, decision |-> row[h].decision]
             LogRows == [hook : Hooks, path : Paths, decision : Decisions]
  <2>1. LogRow \in LogRows
    BY <1>17 DEF LogEvent, RowReady, Row
  <2>2. eventlog \in Seq(LogRows)
    BY DEF TypeOK
  <2>3. eventlog' = Append(eventlog, LogRow) \/ eventlog' = eventlog
    BY <1>17 DEF LogEvent
  <2> HIDE DEF LogRow, LogRows
  <2>4. eventlog' \in Seq(LogRows)
    BY <2>1, <2>2, <2>3
  <2> QED
    BY <1>17, <2>4 DEF LogEvent, Goto, TypeOK, PCs, Stopped, LogRows
<1> QED
  BY <1>1, <1>2, <1>3, <1>4, <1>5, <1>6, <1>7, <1>8, <1>9, <1>10, <1>11, <1>12,
     <1>13, <1>14, <1>15, <1>16, <1>17 DEF Step

(* So do the steps that are not the hook's own, and stuttering. *)
LEMMA NextType ==
  ASSUME TypeOK, RowReady, [Next]_vars
  PROVE  TypeOK'
<1> USE DEF config, agent, escalation, output
<1>1. CASE \E h \in Hooks : Step(h)
  BY <1>1, StepType
<1>2. ASSUME NEW h \in Hooks, AgentDeadline(h)
      PROVE  TypeOK'
  BY <1>2 DEF AgentDeadline, TypeOK
<1>3. ASSUME NEW h \in Hooks, Kill(h)
      PROVE  TypeOK'
  BY <1>3 DEF Kill, Goto, TypeOK, PCs, Stopped
<1>4. ASSUME NEW h \in Hooks, Panic(h)
      PROVE  TypeOK'
  <2>1. Append(stdout[h], "allow") \in Seq(Decisions)
    BY DEF TypeOK, Decisions
  <2> QED
    BY <1>4, <2>1 DEF Panic, Goto, TypeOK, PCs, Stopped
<1>5. CASE EditProject
  BY <1>5 DEF EditProject, hookVars, TypeOK
<1>6. CASE UNCHANGED vars
  BY <1>6 DEF vars, hookVars, TypeOK
<1> QED
  BY <1>1, <1>2, <1>3, <1>4, <1>5, <1>6 DEF Next

-----------------------------------------------------------------------------
(* The inductive invariant: how far a hook is tells what it has written *)

Early == {"read", "rules", "policy"}
Slow == {"agent", "tools", "dispatch", "asking"}
Working == Early \cup {"eval"} \cup Slow

HookInv(h) ==
  /\ pc[h] \in Working => stdout[h] = <<>>
  /\ pc[h] = "log" => row[h] \in Row /\ stdout[h] = <<row[h].decision>>
  /\ pc[h] \in {"exit", "recovered"} => stdout[h] # <<>>
  /\ Len(stdout[h]) <= IF pc[h] = "recovered" THEN 2 ELSE 1
  /\ pc[h] \in Early => policy[h] = Absent
  /\ pc[h] \in Slow => Eval(policy[h], call[h]).outcome = "agent" /\ ~KillSwitched(h)
  /\ \A i \in OwnAnswers(h) : stdout[h][i] = "allow" => AllowHasReason(h)
  /\ DeniedByRule(policy[h], call[h]) /\ ~KillSwitched(h)
       => \A i \in OwnAnswers(h) : stdout[h][i] = "deny"

UnloggedWithReason(h) ==
  \/ cause[h] = "unreadable"
  \/ env[h].disabled \/ KillSwitched(h) \/ ~env[h].log

LogInv ==
  /\ \A i \in DOMAIN eventlog :
       LET h == eventlog[i].hook
       IN  pc[h] = "exit" /\ stdout[h] # <<>> /\ eventlog[i].decision = stdout[h][1]
  /\ \A i, j \in DOMAIN eventlog : eventlog[i].hook = eventlog[j].hook => i = j
  /\ \A h \in Hooks : pc[h] = "exit" => RowsOf(h) # {} \/ UnloggedWithReason(h)

IInv == TypeOK /\ (\A h \in Hooks : HookInv(h)) /\ LogInv

-----------------------------------------------------------------------------
(* Every step of a hook is of one of a few kinds *)

Untouched(k) ==
  /\ pc'[k] = pc[k] /\ env'[k] = env[k] /\ call'[k] = call[k]
  /\ rules'[k] = rules[k] /\ policy'[k] = policy[k]
  /\ row'[k] = row[k] /\ stdout'[k] = stdout[k] /\ cause'[k] = cause[k]

SameProject(h) ==
  /\ env'[h] = env[h] /\ call'[h] = call[h]
  /\ rules'[h] = rules[h] /\ policy'[h] = policy[h]

(* The hook goes on without writing anything. *)
Think(h) ==
  /\ pc[h] \in Working /\ pc'[h] \in Working
  /\ row'[h] = row[h] /\ stdout'[h] = stdout[h] /\ eventlog' = eventlog
  /\ pc'[h] \in Early => policy'[h] = policy[h] /\ pc[h] \in Early
  /\ pc'[h] \in Slow =>
       /\ SameProject(h)
       /\ \/ pc[h] \in Slow
          \/ Eval(policy[h], call[h]).outcome = "agent" /\ ~KillSwitched(h)

(* It writes a decision and has its row ready. *)
Answer(h, d) ==
  /\ pc[h] \in Working /\ pc'[h] = "log"
  /\ row'[h] \in Row /\ row'[h].decision = d
  /\ stdout'[h] = Append(stdout[h], d) /\ eventlog' = eventlog
  /\ SameProject(h)
  /\ d = "allow" => AllowHasReason(h)'
  /\ \/ pc[h] \in Slow
     \/ Eval(policy[h], call[h]).outcome \in {d, "agent"}

(* It answers without a row: a kill switch or an unreadable call. *)
AnswerOnly(h) ==
  /\ pc[h] \in Working /\ pc'[h] = "exit"
  /\ stdout'[h] = Append(stdout[h], "allow") /\ eventlog' = eventlog
  /\ SameProject(h)
  /\ KillSwitched(h) \/ pc[h] = "read"
  /\ cause'[h] = "unreadable" \/ env[h].disabled \/ KillSwitched(h)

Acts(h) ==
  \/ Think(h) \/ AnswerOnly(h) \/ LogEvent(h)
  \/ \E d \in Decisions : Answer(h, d)

OthersUntouched(h) == \A k \in Hooks \ {h} : Untouched(k)

(* Writing a decision from a working hook is an Answer, if an allow has a reason. *)
LEMMA WriteIsAnswer ==
  ASSUME TypeOK, NEW h \in Hooks, NEW d \in Decisions, NEW p \in Paths,
         WriteThenLog(h, d, p), UNCHANGED <<eventlog, env, call, config>>,
         cause' = cause \/ \E c : Heard(h, c),
         pc[h] \in Slow \/ (pc[h] = "eval" /\ Eval(policy[h], call[h]).outcome \in {d, "agent"}),
         d = "allow" => AllowHasReason(h)'
  PROVE  Answer(h, d) /\ OthersUntouched(h)
<1>1. /\ pc'[h] = "log" /\ row'[h] = [path |-> p, decision |-> d]
      /\ stdout'[h] = Append(stdout[h], d)
      /\ \A k \in Hooks \ {h} : pc'[k] = pc[k] /\ row'[k] = row[k] /\ stdout'[k] = stdout[k]
  BY DEF TypeOK, WriteThenLog, Goto
<1>2. \A k \in Hooks \ {h} : cause'[k] = cause[k]
  BY DEF TypeOK, Heard
<1>3. row'[h] \in Row /\ row'[h].decision = d
  BY <1>1 DEF Row
<1>4. SameProject(h) /\ \A k \in Hooks \ {h} : SameProject(k)
  BY DEF SameProject, config
<1>5. OthersUntouched(h)
  BY <1>1, <1>2, <1>4 DEF OthersUntouched, Untouched, SameProject
<1>6. pc[h] \in Working
  BY DEF Working
<1> QED
  BY <1>1, <1>3, <1>4, <1>5, <1>6 DEF Answer

(* What is left of an agent outcome: a decision, or the final question. *)
LEMMA ActOnKinds ==
  ASSUME NEW h, NEW o \in {"approve", "deny", "ask"}, ActOn(h, o)
  PROVE  \/ o = "approve" /\ WriteThenLog(h, "allow", "slow-path")
         \/ o = "deny" /\ WriteThenLog(h, "deny", "slow-path")
         \/ o = "ask" /\ Goto(h, "dispatch") /\ UNCHANGED <<row, stdout>>
  BY DEF ActOn

(* What is left of a dispatch: its tool's result, or the answer. *)
LEMMA ReturnedKinds ==
  ASSUME NEW h, NEW r, Returned(h, r)
  PROVE  \/ Goto(h, "tools") /\ UNCHANGED output
         \/ WriteThenLog(h, "allow", "escalation") /\ Heard(h, "human approve")
         \/ WriteThenLog(h, "deny", "escalation") /\ Heard(h, "human deny")
         \/ /\ WriteThenLog(h, IF timeoutFallback(h) = "deny" THEN "deny" ELSE "allow", "fallback")
            /\ Heard(h, "no reply")
<1>1. CASE req[h] # Final
  BY <1>1 DEF Returned
<1>2. CASE req[h] = Final
  BY <1>2 DEF Returned, emitFallback
<1> QED
  BY <1>1, <1>2

(* A reply, or none, answers for a reason or goes back to the agent. *)
LEMMA ReturnedActs ==
  ASSUME TypeOK, NEW h \in Hooks, NEW r, Returned(h, r), pc[h] \in {"dispatch", "asking"},
         UNCHANGED <<eventlog, env, call, config>>
  PROVE  Acts(h) /\ OthersUntouched(h)
<1>0. /\ pc[h] \in Slow /\ h \in DOMAIN cause
      /\ {"allow", "deny"} \subseteq Decisions /\ {"escalation", "fallback"} \subseteq Paths
  BY DEF Slow, TypeOK, Decisions, Paths
<1>1. CASE Goto(h, "tools") /\ UNCHANGED output
  <2>1. Think(h)
    BY <1>0, <1>1 DEF Goto, Think, Working, Slow, Early, SameProject, TypeOK, config, output
  <2>2. OthersUntouched(h)
    BY <1>1 DEF Goto, OthersUntouched, Untouched, TypeOK, config, output
  <2> QED
    BY <2>1, <2>2 DEF Acts
<1>2. CASE WriteThenLog(h, "allow", "escalation") /\ Heard(h, "human approve")
  <2>1. AllowHasReason(h)'
    BY <1>0, <1>2 DEF Heard, AllowHasReason
  <2> QED
    BY <1>0, <1>2, <2>1, WriteIsAnswer DEF Acts
<1>3. CASE WriteThenLog(h, "deny", "escalation") /\ Heard(h, "human deny")
  BY <1>0, <1>3, WriteIsAnswer DEF Acts
<1>4. CASE /\ WriteThenLog(h, IF timeoutFallback(h) = "deny" THEN "deny" ELSE "allow", "fallback")
           /\ Heard(h, "no reply")
  <2>1. CASE timeoutFallback(h) = "deny"
    BY <1>0, <1>4, <2>1, WriteIsAnswer DEF Acts
  <2>2. CASE timeoutFallback(h) # "deny"
    <3>1. rules[h] \in FrontMatter \cup {Absent} /\ rules'[h] = rules[h]
      BY DEF TypeOK, config
    <3>2. OnTimeout(h)' \in {"approve", "escalate"}
      BY <2>2, <3>1 DEF OnTimeout, timeoutFallback, FrontMatter
    <3>3. AllowHasReason(h)'
      BY <1>0, <1>4, <3>2 DEF Heard, AllowHasReason
    <3> QED
      BY <1>0, <1>4, <2>2, <3>3, WriteIsAnswer DEF Acts
  <2> QED
    BY <2>1, <2>2
<1> QED
  BY <1>1, <1>2, <1>3, <1>4, ReturnedKinds

LEMMA OnTimeoutValue ==
  ASSUME TypeOK, NEW h \in Hooks
  PROVE  OnTimeout(h) \in {"approve", "deny", "escalate"}
<1>1. rules[h] \in FrontMatter \cup {Absent}
  BY DEF TypeOK
<1> QED
  BY <1>1 DEF OnTimeout, FrontMatter

(* The agent's outcome, and the reason of an approval. *)
LEMMA ActOnActs ==
  ASSUME TypeOK, NEW h \in Hooks, NEW o \in {"approve", "deny", "ask"}, NEW c,
         pc[h] = "agent", ActOn(h, o), Heard(h, c),
         UNCHANGED <<eventlog, env, call, config>>,
         o = "approve" =>
           \/ c = "approve"
           \/ c = "send error" /\ OnError(h) # "deny"
           \/ c \in {"send timeout", "exhausted"} /\ OnTimeout(h) = "approve"
  PROVE  Acts(h) /\ OthersUntouched(h)
<1>0. /\ pc[h] \in Slow /\ cause'[h] = c /\ rules'[h] = rules[h]
      /\ {"allow", "deny"} \subseteq Decisions /\ "slow-path" \in Paths
  BY DEF Slow, TypeOK, Heard, Decisions, Paths, config
<1>1. CASE o = "approve" /\ WriteThenLog(h, "allow", "slow-path")
  <2>1. AllowHasReason(h)'
    BY <1>0, <1>1 DEF AllowHasReason, OnError, OnTimeout
  <2> QED
    BY <1>0, <1>1, <2>1, WriteIsAnswer DEF Acts
<1>2. CASE o = "deny" /\ WriteThenLog(h, "deny", "slow-path")
  BY <1>0, <1>2, WriteIsAnswer DEF Acts
<1>3. CASE o = "ask" /\ Goto(h, "dispatch") /\ UNCHANGED <<row, stdout>>
  <2>1. Think(h)
    BY <1>0, <1>3 DEF Goto, Think, Working, Slow, Early, SameProject, TypeOK, config
  <2>2. OthersUntouched(h)
    BY <1>3 DEF Goto, Heard, OthersUntouched, Untouched, TypeOK, config
  <2> QED
    BY <2>1, <2>2 DEF Acts
<1> QED
  BY <1>1, <1>2, <1>3, ActOnKinds

(* A step that writes nothing and only moves the hook on. *)
LEMMA MoveActs ==
  ASSUME TypeOK, NEW h \in Hooks, NEW l, Goto(h, l) \/ (l = pc[h] /\ UNCHANGED pc),
         UNCHANGED <<eventlog, env, call, config, output>>,
         \/ pc[h] \in Slow /\ l \in Slow
         \/ pc[h] \in Early /\ l \in Early
         \/ pc[h] = "eval" /\ l \in Slow /\ ~KillSwitched(h)
              /\ Eval(policy[h], call[h]).outcome = "agent"
  PROVE  Acts(h) /\ OthersUntouched(h)
<1>1. pc'[h] = l /\ \A k \in Hooks \ {h} : pc'[k] = pc[k]
  BY DEF TypeOK, Goto
<1>2. Think(h)
  BY <1>1 DEF Think, Working, Slow, Early, SameProject, config, output
<1>3. OthersUntouched(h)
  BY <1>1 DEF OthersUntouched, Untouched, config, output
<1> QED
  BY <1>2, <1>3 DEF Acts

LEMMA AllowOnlyActs ==
  ASSUME TypeOK, NEW h \in Hooks, WriteAllowOnly(h), pc[h] \in Working,
         UNCHANGED <<eventlog, env, call, config>>,
         cause' = cause \/ \E c : Heard(h, c),
         KillSwitched(h) \/ pc[h] = "read",
         cause'[h] = "unreadable" \/ env[h].disabled \/ KillSwitched(h)
  PROVE  Acts(h) /\ OthersUntouched(h)
<1>1. /\ pc'[h] = "exit" /\ stdout'[h] = Append(stdout[h], "allow")
      /\ \A k \in Hooks \ {h} : pc'[k] = pc[k] /\ row'[k] = row[k] /\ stdout'[k] = stdout[k]
  BY DEF TypeOK, WriteAllowOnly, Goto
<1>2. \A k \in Hooks \ {h} : cause'[k] = cause[k]
  BY DEF TypeOK, Heard
<1>3. AnswerOnly(h) /\ OthersUntouched(h)
  BY <1>1, <1>2 DEF AnswerOnly, SameProject, OthersUntouched, Untouched, config
<1> QED
  BY <1>3 DEF Acts

LEMMA StepActs ==
  ASSUME TypeOK, NEW h \in Hooks, Step(h)
  PROVE  Acts(h) /\ OthersUntouched(h)
<1>1. CASE ReadInput(h)
  <2>1. CASE call[h] = Broken \/ env[h].disabled
    <3>1. /\ WriteAllowOnly(h) /\ pc[h] = "read" /\ UNCHANGED <<eventlog, env, call, config>>
          /\ Heard(h, IF call[h] = Broken THEN "unreadable" ELSE "none")
      BY <1>1, <2>1 DEF ReadInput
    <3>2. cause'[h] = "unreadable" \/ env[h].disabled
      BY <2>1, <3>1 DEF Heard, TypeOK
    <3>3. pc[h] \in Working
      BY <3>1 DEF Working, Early
    <3> QED
      BY <3>1, <3>2, <3>3, AllowOnlyActs
  <2>2. CASE ~(call[h] = Broken \/ env[h].disabled)
    BY <1>1, <2>2, MoveActs DEF ReadInput, Early
  <2> QED
    BY <2>1, <2>2
<1>2. CASE LoadRulesFile(h)
  <2>1. Think(h)
    BY <1>2 DEF LoadRulesFile, Goto, Think, Working, Early, Slow, TypeOK, output
  <2>2. OthersUntouched(h)
    BY <1>2 DEF LoadRulesFile, Goto, OthersUntouched, Untouched, TypeOK, output
  <2> QED
    BY <2>1, <2>2 DEF Acts
<1>3. CASE LoadPolicyFile(h)
  <2> DEFINE loaded == LoadPolicy(disk.policy)
  <2>0. /\ pc[h] = "policy" /\ Goto(h, "eval")
        /\ \/ rules' = [rules EXCEPT ![h] = Absent] /\ UNCHANGED policy
           \/ policy' = [policy EXCEPT ![h] = loaded] /\ UNCHANGED rules
        /\ UNCHANGED <<eventlog, env, call, output>>
    BY <1>3 DEF LoadPolicyFile
  <2> HIDE DEF loaded
  <2>1. Think(h)
    BY <2>0 DEF Goto, Think, Working, Early, Slow, TypeOK, output
  <2>2. OthersUntouched(h)
    BY <2>0 DEF Goto, OthersUntouched, Untouched, TypeOK, output
  <2> QED
    BY <2>1, <2>2 DEF Acts
<1>4. CASE EvalPolicy(h)
  <2> DEFINE outcome == Eval(policy[h], call[h]).outcome
  <2>0. /\ pc[h] = "eval" /\ pc[h] \in Working /\ rules'[h] = rules[h]
        /\ UNCHANGED <<eventlog, env, call, config>>
    BY <1>4 DEF EvalPolicy, Working, config
  <2>1. CASE KillSwitched(h) /\ WriteAllowOnly(h) /\ UNCHANGED cause
    BY <2>0, <2>1, AllowOnlyActs
  <2>2. CASE outcome \in Decisions /\ WriteThenLog(h, outcome, "fast-path") /\ UNCHANGED cause
    <3>1. outcome = "allow" => AllowHasReason(h)'
      BY <2>0, <2>2 DEF AllowHasReason, config
    <3>2. outcome \in {outcome, "agent"} /\ "fast-path" \in Paths
      BY DEF Paths
    <3> QED
      BY <2>0, <2>2, <3>1, <3>2, WriteIsAnswer DEF Acts
  <2>3. CASE /\ outcome = "agent"
             /\ emitFallback(h, OnError(h)) /\ Heard(h, "no key")
    <3> DEFINE d == IF OnError(h) = "deny" THEN "deny" ELSE "allow"
    <3>1. WriteThenLog(h, d, "fallback") /\ d \in Decisions /\ "fallback" \in Paths
      BY <2>3 DEF emitFallback, Decisions, Paths
    <3>2. OnError(h)' = OnError(h) /\ cause'[h] = "no key"
      BY <2>0, <2>3 DEF OnError, Heard, TypeOK
    <3>3. d = "allow" => AllowHasReason(h)'
      BY <3>2 DEF AllowHasReason
    <3> HIDE DEF d
    <3> QED
      BY <2>0, <2>3, <3>1, <3>3, WriteIsAnswer DEF Acts
  <2>4. CASE ~KillSwitched(h) /\ outcome = "agent" /\ Goto(h, "agent") /\ UNCHANGED output
    BY <2>0, <2>4, MoveActs DEF Slow
  <2> QED
    BY <1>4, <2>1, <2>2, <2>3, <2>4 DEF EvalPolicy
<1>5. CASE FinalReply(h)
  <2>1. PICK t \in {"approve", "deny", "ask", "malformed"} :
          ActOn(h, parseDecision(t)) /\ Heard(h, t)
    BY <1>5 DEF FinalReply
  <2>2. /\ parseDecision(t) \in {"approve", "deny", "ask"}
        /\ parseDecision(t) = "approve" => t = "approve"
    BY DEF parseDecision
  <2> QED
    BY <1>5, <2>1, <2>2, ActOnActs DEF FinalReply
<1>6. CASE ToolReply(h)
  BY <1>6, MoveActs DEF ToolReply, Slow
<1>7. CASE SendFails(h)
  <2>1. CASE ActOn(h, AgentFallback(OnTimeout(h))) /\ Heard(h, "send timeout")
    <3>1. AgentFallback(OnTimeout(h)) = "approve" => OnTimeout(h) = "approve"
      BY OnTimeoutValue DEF AgentFallback
    <3> QED
      BY <1>7, <2>1, <3>1, OutcomeType, ActOnActs DEF SendFails
  <2>2. CASE ActOn(h, AgentFallback(OnError(h))) /\ Heard(h, "send error")
    <3>1. AgentFallback(OnError(h)) = "approve" => OnError(h) # "deny"
      BY DEF AgentFallback
    <3> QED
      BY <1>7, <2>2, <3>1, OutcomeType, ActOnActs DEF SendFails
  <2> QED
    BY <1>7, <2>1, <2>2 DEF SendFails
<1>8. CASE IterationsExhausted(h)
  <2>1. AgentFallback(OnTimeout(h)) = "approve" => OnTimeout(h) = "approve"
    BY OnTimeoutValue DEF AgentFallback
  <2> QED
    BY <1>8, <2>1, OutcomeType, ActOnActs DEF IterationsExhausted
<1>9. CASE PlainTool(h)
  BY <1>9, MoveActs DEF PlainTool, Slow
<1>10. CASE EscalateToUser(h)
  BY <1>10, MoveActs DEF EscalateToUser, Slow
<1>11. CASE NextIteration(h)
  BY <1>11, MoveActs DEF NextIteration, Slow
<1>12. CASE Deduplicated(h)
  BY <1>12, ReturnedActs DEF Deduplicated
<1>13. CASE Dispatch(h)
  BY <1>13, MoveActs DEF Dispatch, Slow
<1>14. CASE NextChannel(h)
  BY <1>14, MoveActs DEF NextChannel, Slow
<1>15. CASE Ask(h)
  BY <1>15, ReturnedActs DEF Ask
<1>16. CASE NoChannelLeft(h)
  BY <1>16, ReturnedActs DEF NoChannelLeft
<1>17. CASE LogEvent(h)
  <2>1. OthersUntouched(h)
    BY <1>17 DEF LogEvent, Goto, OthersUntouched, Untouched, TypeOK, config, output
  <2> QED
    BY <1>17, <2>1 DEF Acts
<1> QED
  BY <1>1, <1>2, <1>3, <1>4, <1>5, <1>6, <1>7, <1>8, <1>9, <1>10, <1>11, <1>12,
     <1>13, <1>14, <1>15, <1>16, <1>17 DEF Step

-----------------------------------------------------------------------------
(* The invariant is inductive *)

(* In Eval a deny rule comes before everything else. *)
LEMMA DenyFirst ==
  ASSUME NEW p, NEW c, DeniedByRule(p, c)
  PROVE  Eval(p, c).outcome = "deny"
  BY DEF DeniedByRule, Eval, SomeRule, ByRule, Verdict

LEMMA AppendToNone ==
  ASSUME NEW d
  PROVE  Append(<<>>, d) = <<d>> /\ Len(<<d>>) = 1 /\ DOMAIN <<d>> = {1} /\ <<d>>[1] = d
  OBVIOUS

LEMMA UntouchedInv ==
  ASSUME NEW h \in Hooks, HookInv(h), Untouched(h)
  PROVE  HookInv(h)'
  BY DEF HookInv, Untouched, OwnAnswers, AllowHasReason, KillSwitched, OnError, OnTimeout

LEMMA ThinkInv ==
  ASSUME TypeOK, NEW h \in Hooks, HookInv(h), Think(h)
  PROVE  HookInv(h)'
<1>1. stdout[h] = <<>> /\ stdout'[h] = <<>> /\ pc'[h] \in Working
  BY DEF Think, HookInv
<1>2. pc'[h] \notin {"log", "exit", "recovered"}
  BY <1>1 DEF Working, Early, Slow
<1>3. pc'[h] \in Early => policy'[h] = Absent
  BY DEF Think, HookInv
<1>4. pc'[h] \in Slow => Eval(policy'[h], call'[h]).outcome = "agent" /\ ~KillSwitched(h)'
  BY DEF Think, HookInv, SameProject, KillSwitched
<1>5. Len(stdout'[h]) <= 1 /\ OwnAnswers(h)' = {}
  BY <1>1 DEF OwnAnswers
<1> QED
  BY <1>1, <1>2, <1>3, <1>4, <1>5 DEF HookInv

LEMMA AnswerInv ==
  ASSUME TypeOK, NEW h \in Hooks, HookInv(h), NEW d \in Decisions, Answer(h, d)
  PROVE  HookInv(h)'
<1>1. /\ stdout[h] = <<>> /\ stdout'[h] = <<d>>
      /\ pc'[h] = "log" /\ row'[h] \in Row /\ row'[h].decision = d
  BY AppendToNone DEF Answer, HookInv
<1>2. pc'[h] \notin Working
  BY <1>1 DEF Working, Early, Slow
<1>3. KillSwitched(h)' = KillSwitched(h)
  BY DEF Answer, SameProject, KillSwitched
<1>4. d = "allow" => AllowHasReason(h)'
  BY DEF Answer
<1>5. DeniedByRule(policy'[h], call'[h]) /\ ~KillSwitched(h)' => d = "deny"
  BY <1>3, DenyFirst DEF Answer, SameProject, HookInv, Decisions
<1>6. OwnAnswers(h)' = {1} /\ stdout'[h][1] = d
  BY <1>1, AppendToNone DEF OwnAnswers
<1> QED
  BY <1>1, <1>2, <1>4, <1>5, <1>6, AppendToNone DEF HookInv, Working, Early, Slow

LEMMA AnswerOnlyInv ==
  ASSUME TypeOK, NEW h \in Hooks, HookInv(h), AnswerOnly(h)
  PROVE  HookInv(h)'
<1>1. stdout[h] = <<>> /\ stdout'[h] = <<"allow">> /\ pc'[h] = "exit"
  BY AppendToNone DEF AnswerOnly, HookInv
<1>2. pc'[h] \notin Working
  BY <1>1 DEF Working, Early, Slow
<1>3. KillSwitched(h)' = KillSwitched(h)
  BY DEF AnswerOnly, SameProject, KillSwitched
<1>4. AllowHasReason(h)'
  BY <1>3 DEF AnswerOnly, SameProject, AllowHasReason
<1>5. ~(DeniedByRule(policy'[h], call'[h]) /\ ~KillSwitched(h)')
  BY <1>3 DEF AnswerOnly, SameProject, HookInv, Early, DeniedByRule
<1>6. OwnAnswers(h)' = {1} /\ stdout'[h][1] = "allow"
  BY <1>1, AppendToNone DEF OwnAnswers
<1> QED
  BY <1>1, <1>2, <1>4, <1>5, <1>6, AppendToNone DEF HookInv, Working, Early, Slow

LEMMA LogEventInv ==
  ASSUME TypeOK, NEW h \in Hooks, HookInv(h), LogEvent(h)
  PROVE  HookInv(h)'
<1>1. /\ pc[h] = "log" /\ pc'[h] = "exit"
      /\ UNCHANGED <<env, call, config, output>>
  BY DEF LogEvent, Goto, TypeOK
<1>2. row[h] \in Row /\ stdout[h] = <<row[h].decision>>
  BY <1>1 DEF HookInv
<1>3. stdout[h] # <<>>
  BY <1>2
<1>4. pc'[h] \notin Working
  BY <1>1 DEF Working, Early, Slow
<1>5. AllowHasReason(h)' = AllowHasReason(h) /\ KillSwitched(h)' = KillSwitched(h)
  BY <1>1 DEF AllowHasReason, KillSwitched, OnError, OnTimeout, config, output
<1>6. OwnAnswers(h)' = OwnAnswers(h)
  BY <1>1 DEF OwnAnswers, output
<1> QED
  BY <1>1, <1>3, <1>4, <1>5, <1>6 DEF HookInv, Working, Early, Slow, config, output

LEMMA KillInv ==
  ASSUME TypeOK, NEW h \in Hooks, HookInv(h), Kill(h)
  PROVE  HookInv(h)' /\ OthersUntouched(h)
<1>1. /\ pc[h] \notin Stopped /\ pc'[h] = "killed"
      /\ UNCHANGED <<env, call, config, output>>
  BY DEF Kill, Goto, TypeOK
<1>2. pc'[h] \notin Working
  BY <1>1 DEF Working, Early, Slow
<1>3. /\ AllowHasReason(h)' = AllowHasReason(h) /\ KillSwitched(h)' = KillSwitched(h)
      /\ OwnAnswers(h)' = OwnAnswers(h)
  BY <1>1 DEF AllowHasReason, KillSwitched, OnError, OnTimeout, OwnAnswers, Stopped, config, output
<1>4. HookInv(h)'
  BY <1>1, <1>2, <1>3 DEF HookInv, Working, Early, Slow, Stopped, config, output
<1>5. OthersUntouched(h)
  BY <1>1 DEF Kill, Goto, TypeOK, OthersUntouched, Untouched, config, output
<1> QED
  BY <1>4, <1>5

LEMMA PanicInv ==
  ASSUME TypeOK, NEW h \in Hooks, HookInv(h), Panic(h)
  PROVE  HookInv(h)' /\ OthersUntouched(h)
<1>1. /\ pc[h] \notin Stopped /\ pc'[h] = "recovered"
      /\ stdout[h] \in Seq(Decisions) /\ stdout'[h] = Append(stdout[h], "allow")
      /\ UNCHANGED <<env, call, config, cause>>
  BY DEF Panic, Goto, TypeOK
<1>2. /\ Len(stdout'[h]) = Len(stdout[h]) + 1 /\ Len(stdout[h]) \in Nat
      /\ DOMAIN stdout[h] = 1..Len(stdout[h]) /\ DOMAIN stdout'[h] = 1..Len(stdout'[h])
      /\ \A i \in DOMAIN stdout[h] : stdout'[h][i] = stdout[h][i]
  BY <1>1
<1>3. OwnAnswers(h)' = DOMAIN stdout[h] /\ OwnAnswers(h) = DOMAIN stdout[h]
  BY <1>1, <1>2 DEF OwnAnswers, Stopped
<1>4. AllowHasReason(h)' = AllowHasReason(h) /\ KillSwitched(h)' = KillSwitched(h)
  BY <1>1 DEF AllowHasReason, KillSwitched, OnError, OnTimeout, config
<1>5. pc'[h] \notin Working /\ stdout'[h] # <<>> /\ Len(stdout'[h]) <= 2
  BY <1>1, <1>2 DEF HookInv, Working, Early, Slow, Stopped
<1>6. HookInv(h)'
  BY <1>1, <1>2, <1>3, <1>4, <1>5 DEF HookInv, Working, Early, Slow, config
<1>7. OthersUntouched(h)
  BY DEF Panic, Goto, TypeOK, OthersUntouched, Untouched, config
<1> QED
  BY <1>6, <1>7

-----------------------------------------------------------------------------
(* The eventlog: a hook that has a row has ended, so no step disturbs its row *)

LEMMA RowsHaveHooks ==
  ASSUME TypeOK
  PROVE  \A i \in DOMAIN eventlog : eventlog[i].hook \in Hooks
<1> DEFINE LogRows == [hook : Hooks, path : Paths, decision : Decisions]
<1>1. eventlog \in Seq(LogRows) /\ \A r \in LogRows : r.hook \in Hooks
  BY DEF TypeOK
<1> HIDE DEF LogRows
<1> QED
  BY <1>1

LEMMA LogInvFrame ==
  ASSUME TypeOK, NEW h \in Hooks, LogInv, pc[h] # "exit", OthersUntouched(h),
         eventlog' = eventlog, pc'[h] = "exit" => UnloggedWithReason(h)'
  PROVE  LogInv'
<1>0. \A i \in DOMAIN eventlog : eventlog[i].hook \in Hooks
  BY RowsHaveHooks
<1>1. ASSUME NEW i \in DOMAIN eventlog'
      PROVE  LET k == eventlog'[i].hook
             IN  pc'[k] = "exit" /\ stdout'[k] # <<>> /\ eventlog'[i].decision = stdout'[k][1]
  BY <1>0 DEF LogInv, OthersUntouched, Untouched
<1>2. ASSUME NEW k \in Hooks, pc'[k] = "exit"
      PROVE  RowsOf(k)' # {} \/ UnloggedWithReason(k)'
  <2>1. CASE k = h
    BY <1>2, <2>1
  <2>2. CASE k # h
    BY <1>2, <2>2 DEF LogInv, OthersUntouched, Untouched, RowsOf, UnloggedWithReason, KillSwitched
  <2> QED
    BY <2>1, <2>2
<1>3. \A i, j \in DOMAIN eventlog' : eventlog'[i].hook = eventlog'[j].hook => i = j
  BY DEF LogInv
<1> QED
  BY <1>1, <1>2, <1>3 DEF LogInv

LEMMA UntouchedLogInv ==
  ASSUME TypeOK, LogInv, \A k \in Hooks : Untouched(k), eventlog' = eventlog
  PROVE  LogInv'
<1>1. \A i \in DOMAIN eventlog : eventlog[i].hook \in Hooks
  BY RowsHaveHooks
<1> QED
  BY <1>1 DEF LogInv, Untouched, RowsOf, UnloggedWithReason, KillSwitched

LEMMA LogEventLogInv ==
  ASSUME TypeOK, NEW h \in Hooks, HookInv(h), LogInv, LogEvent(h), OthersUntouched(h)
  PROVE  LogInv'
<1>0. /\ pc[h] = "log" /\ pc'[h] = "exit" /\ env'[h] = env[h]
      /\ stdout[h] = <<row[h].decision>> /\ stdout'[h] = stdout[h]
  BY DEF LogEvent, Goto, TypeOK, HookInv, output
<1>a. stdout'[h] # <<>>
  BY <1>0
<1>1. CASE ~env[h].log
  BY <1>0, <1>1, LogInvFrame DEF LogEvent, UnloggedWithReason
<1>2. CASE env[h].log
  <2> DEFINE new == [hook |-> h, path |-> row[h].path, decision |-> row[h].decision]
             n == Len(eventlog) + 1
  <2>1. eventlog' = Append(eventlog, new) /\ new.hook = h /\ new.decision = stdout[h][1]
    BY <1>0, <1>2 DEF LogEvent
  <2> HIDE DEF new
  <2>2. /\ \A i \in DOMAIN eventlog : i # n /\ eventlog[i].hook \in Hooks \ {h}
        /\ DOMAIN eventlog' = DOMAIN eventlog \cup {n}
        /\ \A i \in DOMAIN eventlog : eventlog'[i] = eventlog[i]
        /\ eventlog'[n] = new
    <3>1. \A i \in DOMAIN eventlog : eventlog[i].hook \in Hooks \ {h}
      BY <1>0, RowsHaveHooks DEF LogInv
    <3>2. Len(eventlog) \in Nat /\ DOMAIN eventlog = 1..Len(eventlog)
      BY DEF TypeOK
    <3>3. eventlog \in Seq([hook : Hooks, path : Paths, decision : Decisions])
      BY DEF TypeOK
    <3>4. /\ Len(eventlog') = n
          /\ DOMAIN eventlog' = 1..n
          /\ \A i \in 1..Len(eventlog) : eventlog'[i] = eventlog[i]
          /\ eventlog'[n] = new
      BY <2>1, <3>3, <3>2
    <3> QED
      BY <3>1, <3>2, <3>4
  <2> HIDE DEF n
  <2>3. ASSUME NEW i \in DOMAIN eventlog'
        PROVE  LET k == eventlog'[i].hook
               IN  pc'[k] = "exit" /\ stdout'[k] # <<>> /\ eventlog'[i].decision = stdout'[k][1]
    <3>1. CASE i = n
      BY <1>0, <1>a, <2>1, <2>2, <3>1
    <3>2. CASE i \in DOMAIN eventlog
      BY <2>2, <3>2 DEF LogInv, OthersUntouched, Untouched
    <3> QED
      BY <2>2, <3>1, <3>2
  <2>4. \A i, j \in DOMAIN eventlog' : eventlog'[i].hook = eventlog'[j].hook => i = j
    BY <2>1, <2>2 DEF LogInv
  <2>5. ASSUME NEW k \in Hooks, pc'[k] = "exit"
        PROVE  RowsOf(k)' # {} \/ UnloggedWithReason(k)'
    <3>1. CASE k = h
      BY <2>1, <2>2, <3>1 DEF RowsOf
    <3>2. CASE k # h
      <4>1. pc[k] = "exit" /\ UnloggedWithReason(k)' = UnloggedWithReason(k)
        BY <2>5, <3>2 DEF OthersUntouched, Untouched, UnloggedWithReason, KillSwitched
      <4>2. RowsOf(k) # {} => RowsOf(k)' # {}
        BY <2>2 DEF RowsOf
      <4> QED
        BY <4>1, <4>2 DEF LogInv
    <3> QED
      BY <3>1, <3>2
  <2> QED
    BY <2>3, <2>4, <2>5 DEF LogInv
<1> QED
  BY <1>1, <1>2

(* The three kinds of steps that do not touch the eventlog. *)
LEMMA ActsLogInv ==
  ASSUME TypeOK, NEW h \in Hooks, HookInv(h), LogInv, Acts(h), OthersUntouched(h)
  PROVE  LogInv'
<1>1. CASE Think(h)
  BY <1>1, LogInvFrame DEF Think, Working, Early, Slow
<1>2. CASE \E d \in Decisions : Answer(h, d)
  BY <1>2, LogInvFrame DEF Answer, Working, Early, Slow
<1>3. CASE AnswerOnly(h)
  <2>1. UnloggedWithReason(h)'
    BY <1>3 DEF AnswerOnly, SameProject, UnloggedWithReason, KillSwitched
  <2> QED
    BY <1>3, <2>1, LogInvFrame DEF AnswerOnly, Working, Early, Slow
<1>4. CASE LogEvent(h)
  BY <1>4, LogEventLogInv
<1> QED
  BY <1>1, <1>2, <1>3, <1>4 DEF Acts

LEMMA KillLogInv ==
  ASSUME TypeOK, NEW h \in Hooks, LogInv, Kill(h), OthersUntouched(h)
  PROVE  LogInv'
<1>1. pc[h] # "exit" /\ eventlog' = eventlog /\ pc'[h] = "killed"
  BY DEF Kill, Goto, Stopped, TypeOK
<1> QED
  BY <1>1, LogInvFrame

LEMMA PanicLogInv ==
  ASSUME TypeOK, NEW h \in Hooks, LogInv, Panic(h), OthersUntouched(h)
  PROVE  LogInv'
<1>1. pc[h] # "exit" /\ eventlog' = eventlog /\ pc'[h] = "recovered"
  BY DEF Panic, Goto, Stopped, TypeOK
<1> QED
  BY <1>1, LogInvFrame

-----------------------------------------------------------------------------
(* The theorems *)

LEMMA InvInit == Init => IInv
<1> SUFFICES ASSUME Init PROVE IInv
  OBVIOUS
<1>1. TypeOK
  BY InitType
<1>2. ASSUME NEW h \in Hooks
      PROVE  HookInv(h)
  <2>1. /\ pc[h] = "read" /\ stdout[h] = <<>> /\ policy[h] = Absent
        /\ Len(stdout[h]) = 0 /\ DOMAIN stdout[h] = {}
    BY DEF Init
  <2> QED
    BY <2>1 DEF HookInv, Slow, OwnAnswers
<1>3. LogInv
  <2>1. DOMAIN eventlog = {} /\ \A h \in Hooks : pc[h] = "read"
    BY DEF Init
  <2> QED
    BY <2>1 DEF LogInv
<1> QED
  BY <1>1, <1>2, <1>3 DEF IInv

LEMMA InvStep ==
  ASSUME IInv, [Next]_vars
  PROVE  IInv'
<1>0. TypeOK /\ LogInv /\ \A h \in Hooks : HookInv(h)
  BY DEF IInv
<1>1. RowReady
  BY <1>0 DEF RowReady, HookInv
<1>2. TypeOK'
  BY <1>0, <1>1, NextType
<1>3. ASSUME NEW h \in Hooks, Step(h)
      PROVE  (\A k \in Hooks : HookInv(k)') /\ LogInv'
  <2>1. Acts(h) /\ OthersUntouched(h)
    BY <1>0, <1>3, StepActs
  <2>2. HookInv(h)'
    BY <1>0, <2>1, ThinkInv, AnswerInv, AnswerOnlyInv, LogEventInv DEF Acts
  <2> QED
    BY <1>0, <2>1, <2>2, UntouchedInv, ActsLogInv DEF OthersUntouched
<1>4. ASSUME NEW h \in Hooks, AgentDeadline(h)
      PROVE  (\A k \in Hooks : HookInv(k)') /\ LogInv'
  <2>1. (\A k \in Hooks : Untouched(k)) /\ eventlog' = eventlog
    BY <1>4 DEF AgentDeadline, Untouched, config, output
  <2> QED
    BY <1>0, <2>1, UntouchedInv, UntouchedLogInv
<1>5. ASSUME NEW h \in Hooks, Kill(h)
      PROVE  (\A k \in Hooks : HookInv(k)') /\ LogInv'
  BY <1>0, <1>5, KillInv, UntouchedInv, KillLogInv DEF OthersUntouched
<1>6. ASSUME NEW h \in Hooks, Panic(h)
      PROVE  (\A k \in Hooks : HookInv(k)') /\ LogInv'
  BY <1>0, <1>6, PanicInv, UntouchedInv, PanicLogInv DEF OthersUntouched
<1>7. CASE EditProject \/ UNCHANGED vars
  <2>1. (\A k \in Hooks : Untouched(k)) /\ eventlog' = eventlog
    BY <1>7 DEF EditProject, vars, hookVars, Untouched, config, output
  <2> QED
    BY <1>0, <1>2, <2>1, UntouchedInv, UntouchedLogInv DEF IInv
<1> QED
  BY <1>2, <1>3, <1>4, <1>5, <1>6, <1>7 DEF Next, IInv

THEOREM Inductive == SafeSpec => []IInv
  BY InvInit, InvStep, PTL DEF SafeSpec

(* Every variable keeps to its type (TypeOK). *)
THEOREM TypeCorrect == Spec => []TypeOK
<1>1. IInv => TypeOK
  BY DEF IInv
<1> QED
  BY <1>1, Inductive, PTL DEF Spec

(* A hook answers at most once, and once more if it panics, and never ends *)
(* by itself without an answer (OneAnswer).                                 *)
THEOREM AnswersOnce == Spec => []OneAnswer
<1>1. IInv => OneAnswer
  <2> SUFFICES ASSUME IInv, NEW h \in Hooks
               PROVE  /\ Len(stdout[h]) <= IF pc[h] = "recovered" THEN 2 ELSE 1
                      /\ pc[h] \in {"log", "exit", "recovered"} => stdout[h] # <<>>
    BY DEF OneAnswer
  <2> QED
    BY AppendToNone DEF IInv, HookInv
<1> QED
  BY <1>1, Inductive, PTL DEF Spec

(* The eventlog says of a call what the CLI was told, once, and says nothing *)
(* only for a known reason (LogTellsTheAnswer).                              *)
THEOREM LogIsTruthful == Spec => []LogTellsTheAnswer
<1>1. IInv => LogTellsTheAnswer
  BY DEF IInv, LogInv, LogTellsTheAnswer, UnloggedWithReason
<1> QED
  BY <1>1, Inductive, PTL DEF Spec

(* No tool call that a deny rule matches is ever allowed by the handler,    *)
(* whatever the LLM, the human, the environment and the other hooks do; a   *)
(* kill switch, and failOpen after a panic, come before it (DenyRuleHolds). *)
THEOREM DenyIsFinal == Spec => []DenyRuleHolds
<1>1. IInv => DenyRuleHolds
  BY DEF IInv, HookInv, DenyRuleHolds
<1> QED
  BY <1>1, Inductive, PTL DEF Spec

(* The handler allows a call only because the policy, the agent, the human, *)
(* a kill switch or the fallback configured for the failure says so, or the *)
(* call cannot be read: that, and the allow failOpen adds after a panic, are *)
(* the two that on_error does not govern (AllowIsJustified).                *)
THEOREM AllowsAreJustified == Spec => []AllowIsJustified
<1>1. IInv => AllowIsJustified
  BY DEF IInv, HookInv, AllowIsJustified
<1> QED
  BY <1>1, Inductive, PTL DEF Spec

-----------------------------------------------------------------------------
(* Refinement: every step of the hook is an Answer, a Record or a Cut of   *)
(* the gate, or changes nothing the CLI or a reader of the eventlog sees.  *)

answers == [h \in Hooks |-> FirstAnswer(h)]
records == [h \in Hooks |-> Recorded(h)]
cuts == {h \in Hooks : pc[h] = "killed"}

GateStep ==
  \/ \E h \in Hooks : Gate!Answer(h) \/ Gate!Record(h) \/ Gate!Cut(h)
  \/ UNCHANGED <<answers, records, cuts>>

-----------------------------------------------------------------------------
(* The mapping, when one hook or the eventlog changes *)

(* A hook with a row is recorded with the decision of that row. *)
LEMMA RecordedRow ==
  ASSUME LogInv, NEW i \in DOMAIN eventlog
  PROVE  Recorded(eventlog[i].hook) = eventlog[i].decision
<1> DEFINE h == eventlog[i].hook
           j == CHOOSE k \in DOMAIN eventlog : eventlog[k].hook = h
<1>1. j \in DOMAIN eventlog /\ eventlog[j].hook = h
  OBVIOUS
<1>2. j = i
  BY <1>1 DEF LogInv
<1> QED
  BY <1>2 DEF Recorded

LEMMA SameRecords ==
  ASSUME eventlog' = eventlog
  PROVE  records' = records
  BY DEF records, Recorded

LEMMA OthersSame ==
  ASSUME NEW h \in Hooks, OthersUntouched(h)
  PROVE  /\ answers' = [answers EXCEPT ![h] = FirstAnswer(h)']
         /\ pc'[h] = "killed" /\ pc[h] # "killed" => cuts' = cuts \cup {h}
         /\ (pc'[h] = "killed" <=> pc[h] = "killed") => cuts' = cuts
  BY DEF OthersUntouched, Untouched, answers, FirstAnswer, cuts

(* Giving the first answer is the gate's Answer. *)
LEMMA FirstIsAnswer ==
  ASSUME NEW h \in Hooks, NEW d \in Decisions, OthersUntouched(h), eventlog' = eventlog,
         stdout[h] = <<>>, stdout'[h] = <<d>>, pc[h] # "killed", pc'[h] # "killed"
  PROVE  Gate!Answer(h)
<1>1. FirstAnswer(h) = "none" /\ FirstAnswer(h)' = d
  BY AppendToNone DEF FirstAnswer
<1>2. answers[h] = "none" /\ answers' = [answers EXCEPT ![h] = d]
  BY <1>1, OthersSame DEF answers
<1>3. records' = records /\ cuts' = cuts /\ h \notin cuts
  BY SameRecords, OthersSame DEF cuts
<1> QED
  BY <1>2, <1>3 DEF Gate!Answer, answers, records, cuts, Decisions

(* A step that leaves the first answer and the eventlog alone is invisible. *)
LEMMA Invisible ==
  ASSUME NEW h \in Hooks, OthersUntouched(h), eventlog' = eventlog,
         FirstAnswer(h)' = FirstAnswer(h), pc[h] # "killed", pc'[h] # "killed"
  PROVE  UNCHANGED <<answers, records, cuts>>
<1>1. answers' = answers
  BY OthersSame DEF answers
<1> QED
  BY <1>1, SameRecords, OthersSame

-----------------------------------------------------------------------------
(* The steps *)

LEMMA LogIsRecord ==
  ASSUME IInv, NEW h \in Hooks, LogEvent(h), OthersUntouched(h)
  PROVE  GateStep
<1>0. /\ pc[h] = "log" /\ pc'[h] = "exit" /\ stdout'[h] = stdout[h]
      /\ row[h] \in Row /\ stdout[h] = <<row[h].decision>>
  BY DEF IInv, TypeOK, LogEvent, Goto, HookInv, output
<1>1. FirstAnswer(h)' = FirstAnswer(h) /\ FirstAnswer(h) = row[h].decision
  BY <1>0, AppendToNone DEF FirstAnswer
<1>2. CASE eventlog' = eventlog
  BY <1>0, <1>1, <1>2, Invisible DEF GateStep
<1>3. CASE eventlog' # eventlog
  <2> DEFINE new == [hook |-> h, path |-> row[h].path, decision |-> row[h].decision]
             n == Len(eventlog) + 1
  <2>1. eventlog' = Append(eventlog, new) /\ new.hook = h /\ new.decision = row[h].decision
    BY <1>3 DEF LogEvent
  <2> HIDE DEF new
  <2>2. /\ \A i \in DOMAIN eventlog : i # n /\ eventlog[i].hook # h
        /\ DOMAIN eventlog' = DOMAIN eventlog \cup {n}
        /\ \A i \in DOMAIN eventlog : eventlog'[i] = eventlog[i]
        /\ eventlog'[n] = new
    <3>1. \A i \in DOMAIN eventlog : eventlog[i].hook # h
      BY <1>0 DEF IInv, LogInv
    <3>2. /\ Len(eventlog) \in Nat /\ DOMAIN eventlog = 1..Len(eventlog)
          /\ eventlog \in Seq([hook : Hooks, path : Paths, decision : Decisions])
      BY DEF IInv, TypeOK
    <3>3. /\ Len(eventlog') = n
          /\ DOMAIN eventlog' = 1..n
          /\ \A i \in 1..Len(eventlog) : eventlog'[i] = eventlog[i]
          /\ eventlog'[n] = new
      BY <2>1, <3>2
    <3> QED
      BY <3>1, <3>2, <3>3
  <2> HIDE DEF n
  <2>3. Recorded(h) = "none"
    BY <2>2 DEF Recorded
  <2>4. LogInv'
    BY LogEventLogInv DEF IInv
  <2>5. Recorded(h)' = row[h].decision
    <3> DEFINE j == CHOOSE k \in DOMAIN eventlog' : eventlog'[k].hook = h
    <3>1. n \in DOMAIN eventlog' /\ eventlog'[n].hook = h
      BY <2>1, <2>2
    <3>2. j \in DOMAIN eventlog' /\ eventlog'[j].hook = h
      BY <3>1
    <3>3. j = n
      BY <3>1, <3>2, <2>4 DEF LogInv
    <3> QED
      BY <2>1, <2>2, <3>1, <3>3 DEF Recorded
  <2>6. ASSUME NEW k \in Hooks \ {h}
        PROVE  Recorded(k)' = Recorded(k)
    <3>1. CASE \E i \in DOMAIN eventlog : eventlog[i].hook = k
      <4>1. PICK i \in DOMAIN eventlog : eventlog[i].hook = k
        BY <3>1
      <4>2. Recorded(k) = eventlog[i].decision
        BY <4>1, RecordedRow DEF IInv
      <4> DEFINE j == CHOOSE m \in DOMAIN eventlog' : eventlog'[m].hook = k
      <4>3. i \in DOMAIN eventlog' /\ eventlog'[i].hook = k
        BY <2>2, <4>1
      <4>4. j \in DOMAIN eventlog' /\ eventlog'[j].hook = k
        BY <4>3
      <4>5. j = i
        BY <4>3, <4>4, <2>4 DEF LogInv
      <4> QED
        BY <2>2, <4>1, <4>2, <4>3, <4>5 DEF Recorded
    <3>2. CASE ~\E i \in DOMAIN eventlog : eventlog[i].hook = k
      <4>1. ~\E i \in DOMAIN eventlog' : eventlog'[i].hook = k
        BY <2>1, <2>2, <3>2
      <4> QED
        BY <3>2, <4>1 DEF Recorded
    <3> QED
      BY <3>1, <3>2
  <2>7. records' = [records EXCEPT ![h] = answers[h]]
    BY <1>1, <2>5, <2>6 DEF records, answers
  <2>8. answers' = answers /\ cuts' = cuts /\ h \notin cuts
    BY <1>0, <1>1, OthersSame DEF answers, cuts
  <2>9. answers[h] # "none" /\ records[h] = "none"
    BY <1>0, <1>1, <2>3 DEF answers, records, Row, Decisions
  <2> QED
    BY <2>7, <2>8, <2>9 DEF GateStep, Gate!Record, answers, records, cuts
<1> QED
  BY <1>2, <1>3

LEMMA ActsImplementGate ==
  ASSUME IInv, NEW h \in Hooks, Acts(h), OthersUntouched(h)
  PROVE  GateStep
<1>1. CASE Think(h)
  BY <1>1, Invisible DEF Think, Working, Early, Slow, FirstAnswer, GateStep
<1>2. ASSUME NEW d \in Decisions, Answer(h, d)
      PROVE  GateStep
  BY <1>2, AppendToNone, FirstIsAnswer DEF IInv, HookInv, Answer, Working, Early, Slow, GateStep
<1>3. CASE AnswerOnly(h)
  BY <1>3, AppendToNone, FirstIsAnswer
     DEF IInv, HookInv, AnswerOnly, Working, Early, Slow, Decisions, GateStep
<1>4. CASE LogEvent(h)
  BY <1>4, LogIsRecord
<1> QED
  BY <1>1, <1>2, <1>3, <1>4 DEF Acts

LEMMA KillIsCut ==
  ASSUME IInv, NEW h \in Hooks, Kill(h)
  PROVE  GateStep
<1>1. /\ OthersUntouched(h) /\ pc'[h] = "killed" /\ pc[h] # "killed"
      /\ eventlog' = eventlog /\ stdout' = stdout
  BY KillInv DEF IInv, TypeOK, Kill, Goto, Stopped, output
<1>2. answers' = answers
  BY <1>1 DEF answers, FirstAnswer
<1>3. Gate!Cut(h)
  BY <1>1, <1>2, SameRecords, OthersSame DEF Gate!Cut, answers, records, cuts
<1> QED
  BY <1>3 DEF GateStep

(* A panic answers, unless the hook has answered already. *)
LEMMA PanicAnswers ==
  ASSUME IInv, NEW h \in Hooks, Panic(h)
  PROVE  GateStep
<1>1. /\ OthersUntouched(h) /\ pc'[h] = "recovered" /\ pc[h] # "killed"
      /\ eventlog' = eventlog /\ stdout'[h] = Append(stdout[h], "allow")
      /\ stdout[h] \in Seq(Decisions)
  BY PanicInv DEF IInv, TypeOK, Panic, Goto, Stopped
<1>2. CASE stdout[h] = <<>>
  BY <1>1, <1>2, AppendToNone, FirstIsAnswer DEF Decisions, GateStep
<1>3. CASE stdout[h] # <<>>
  <2>1. stdout'[h] # <<>> /\ stdout'[h][1] = stdout[h][1]
    BY <1>1, <1>3
  <2> QED
    BY <1>1, <1>3, <2>1, Invisible DEF FirstAnswer, GateStep
<1> QED
  BY <1>2, <1>3

LEMMA NextImplementsGate ==
  ASSUME IInv, [Next]_vars
  PROVE  GateStep
<1>1. ASSUME NEW h \in Hooks, Step(h)
      PROVE  GateStep
  BY <1>1, StepActs, ActsImplementGate DEF IInv
<1>2. ASSUME NEW h \in Hooks, AgentDeadline(h)
      PROVE  GateStep
  BY <1>2 DEF AgentDeadline, output, GateStep, answers, records, cuts, FirstAnswer, Recorded
<1>3. CASE EditProject \/ UNCHANGED vars
  BY <1>3 DEF EditProject, vars, hookVars, output, GateStep, answers, records, cuts,
     FirstAnswer, Recorded
<1> QED
  BY <1>1, <1>2, <1>3, KillIsCut, PanicAnswers DEF Next

LEMMA InitImplementsGate == Init => Gate!Init
<1> SUFFICES ASSUME Init PROVE Gate!Init
  OBVIOUS
<1>1. \A h \in Hooks : FirstAnswer(h) = "none" /\ Recorded(h) = "none" /\ pc[h] # "killed"
  BY DEF Init, FirstAnswer, Recorded
<1> QED
  BY <1>1 DEF Gate!Init

(* What the CLI sees of any number of hooks is what DecisionGate promises:  *)
(* one answer per call, never revised, recorded at most once and truly (the *)
(* safety part of GateSpec).                                                *)
THEOREM HookImplementsGate == Spec => Gate!SafeSpec
<1>1. ASSUME IInv, [Next]_vars
      PROVE  [Gate!Next]_Gate!gateVars
  BY <1>1, NextImplementsGate DEF GateStep, Gate!Next, Gate!gateVars, answers, records, cuts
<1> QED
  BY <1>1, InitImplementsGate, Inductive, PTL DEF Spec, SafeSpec, Gate!SafeSpec
=============================================================================
