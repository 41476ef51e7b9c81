----------------------------- MODULE RunnerProofs -----------------------------
(***************************************************************************)
(* The safety properties of Runner, for any number of runs nested in any   *)
(* way: type correctness, the recursion fuse, and that outcome, exit code, *)
(* signals and rows of a run fit together.                                 *)
(***************************************************************************)
EXTENDS Runner, SequenceTheorems, TLAPS

-----------------------------------------------------------------------------
(* The inductive invariant *)

Before == {"idle", "check", "started", "spawn"}

(* The counter a run reads from its environment is its true nesting. *)
DepthInv(r) ==
  /\ depth[r] = hops[r]
  /\ pc[r] \in {"started", "spawn"} \/ child[r] # "none" => depth[r] <= 2

(* How far Run is tells what is known of the child and of the result. *)
ProcessInv(r) ==
  /\ pc[r] \in Before => child[r] = "none" /\ result[r] = NoResult
  /\ reaped[r] => child[r] \in Ended
  /\ pc[r] \in {"pump", "wait", "finish"} =>
       result[r] = NoResult \/ result[r].outcome \in {"timeout", "interrupted"}
  /\ pc[r] = "wait" => result[r] = NoResult
  /\ pc[r] \in {"finish", "finished"} => reaped[r] \/ decoder[r] = "failed"
  /\ pc[r] \in Over /\ child[r] = "running" => signalled[r] \/ decoder[r] = "failed"

(* A result that is settled, before and after it is returned. *)
ResultInv(r) ==
  /\ pc[r] \in {"finished", "returned"} => result[r].outcome \in Outcomes
  /\ pc[r] \in {"finished", "returned"} /\ result[r].outcome = "completed" =>
       gotStop[r] /\ (child[r] = "zero" \/ decoder[r] = "failed")
  /\ pc[r] \in {"finished", "returned"} /\ result[r].outcome # "completed"
       /\ child[r] # "signal" => result[r].code # 0

Rows(r, s) == index[r] = IF spec[r].rows THEN s ELSE <<>>

(* How far Run is tells what the index and the eventlog hold. *)
RowInv(r) ==
  /\ pc[r] \in {"idle", "check"} => index[r] = <<>>
  /\ pc[r] \in {"started", "spawn", "pump", "wait", "finish"} => Rows(r, <<"start">>)
  /\ pc[r] = "finished" => Rows(r, <<"start", result[r].outcome>>)
  /\ index[r] \in {<<>>, <<"start">>, <<"start", result[r].outcome>>} \/ panicked[r]
  /\ pc[r] = "returned" /\ spec[r].rows =>
       /\ events[r] # <<>> /\ events[r][Len(events[r])] = result[r].outcome
       /\ child[r] # "none" /\ ~panicked[r] => index[r] = <<"start", result[r].outcome>>

RunInv(r) == DepthInv(r) /\ ProcessInv(r) /\ ResultInv(r) /\ RowInv(r)

IInv == TypeOK /\ \A r \in Runs : RunInv(r)

-----------------------------------------------------------------------------
(* Types *)

LEMMA ExitCodeType ==
  ASSUME NEW o \in Outcomes
  PROVE  ExitCode(o) \in 0..130 /\ (o # "completed" => ExitCode(o) # 0)
  BY DEF ExitCode, Outcomes

LEMMA OutcomeType ==
  ASSUME NEW o \in Outcomes, NEW c \in 0..130
  PROVE  Outcome(o, c) \in [outcome : Outcomes \cup {""}, code : 0..130]
  BY DEF Outcome

LEMMA CodeZero == 0 \in 0..130
  OBVIOUS

LEMMA OutcomeFields ==
  ASSUME NEW x, NEW o, NEW c, x = Outcome(o, c)
  PROVE  x.outcome = o /\ x.code = c
  BY DEF Outcome

(* The result that Conclude settles on. *)
LEMMA ConcludeType ==
  ASSUME TypeOK, NEW r \in Runs, ProcessInv(r), pc[r] = "finish"
  PROVE  /\ Conclude(r) \in [outcome : Outcomes, code : 0..130]
         /\ Conclude(r).outcome = "completed" =>
              gotStop[r] /\ (child[r] = "zero" \/ decoder[r] = "failed")
         /\ Conclude(r).outcome # "completed" /\ child[r] # "signal" => Conclude(r).code # 0
<1>1. CASE result[r] # NoResult
  <2>1. result[r].outcome \in {"timeout", "interrupted"}
    BY <1>1 DEF ProcessInv
  <2>2. Conclude(r) = Outcome(result[r].outcome, ExitCode(result[r].outcome))
    BY <1>1 DEF Conclude
  <2> QED
    BY <2>1, <2>2, ExitCodeType DEF Outcome, Outcomes
<1>2. CASE result[r] = NoResult
  <2>1. gotStop[r] \in BOOLEAN /\ reaped[r] \in BOOLEAN
    BY DEF TypeOK
  <2> QED
    BY <1>2, <2>1 DEF Conclude, Outcome, Outcomes, ProcessInv
<1> QED
  BY <1>1, <1>2

LEMMA IndexRowType ==
  ASSUME TypeOK, NEW r \in Runs, NEW d \in {"start"} \cup Outcomes, IndexRow(r, d)
  PROVE  index' \in [Runs -> Seq({"start"} \cup Outcomes)]
<1>1. index[r] \in Seq({"start"} \cup Outcomes)
  BY DEF TypeOK
<1>2. Append(index[r], d) \in Seq({"start"} \cup Outcomes)
  BY <1>1
<1> QED
  BY <1>1, <1>2 DEF IndexRow, TypeOK

LEMMA LogRowType ==
  ASSUME TypeOK, NEW r \in Runs, NEW d \in {"spawned"} \cup Outcomes, LogRow(r, d)
  PROVE  events' \in [Runs -> Seq({"spawned"} \cup Outcomes)]
<1>1. events[r] \in Seq({"spawned"} \cup Outcomes)
  BY DEF TypeOK
<1>2. Append(events[r], d) \in Seq({"spawned"} \cup Outcomes)
  BY <1>1
<1> QED
  BY <1>1, <1>2 DEF LogRow, TypeOK

LEMMA InitInv == Init => IInv
<1> SUFFICES ASSUME Init PROVE IInv
  OBVIOUS
<1>1. TypeOK
  <2>1. result \in [Runs -> [outcome : Outcomes \cup {""}, code : 0..130]]
    BY CodeZero DEF Init, NoResult, Outcome
  <2>2. /\ index \in [Runs -> Seq({"start"} \cup Outcomes)]
        /\ events \in [Runs -> Seq({"spawned"} \cup Outcomes)]
    BY DEF Init
  <2>3. /\ depth \in [Runs -> Nat] /\ hops \in [Runs -> Nat]
        /\ pc \in [Runs -> {"idle"} \cup Working \cup Over]
        /\ ctx \in [Runs -> Contexts]
        /\ child \in [Runs -> {"none", "running"} \cup Ended]
    BY DEF Init, Contexts
  <2> QED
    BY <2>1, <2>2, <2>3 DEF Init, TypeOK
<1>2. ASSUME NEW r \in Runs PROVE RunInv(r)
  BY <1>2 DEF Init, RunInv, DepthInv, ProcessInv, ResultInv, RowInv, Over
<1> QED
  BY <1>1, <1>2 DEF IInv

(* finishRefused settles a well-typed result. *)
LEMMA RefusedType ==
  ASSUME TypeOK, NEW r \in Runs, NEW o \in {"refused", "failed"}, finishRefused(r, o)
  PROVE  /\ result' \in [Runs -> [outcome : Outcomes \cup {""}, code : 0..130]]
         /\ result'[r].outcome = o /\ result'[r].code # 0
         /\ events' \in [Runs -> Seq({"spawned"} \cup Outcomes)]
         /\ pc' \in [Runs -> {"idle"} \cup Working \cup Over] /\ pc'[r] = "returned"
<1>1. o \in Outcomes /\ o # "completed"
  BY DEF Outcomes
<1>2. ExitCode(o) \in 0..130 /\ ExitCode(o) # 0
  BY <1>1, ExitCodeType
<1>3. Outcome(o, ExitCode(o)) \in [outcome : Outcomes \cup {""}, code : 0..130]
  BY <1>1, <1>2 DEF Outcome
<1>4. /\ result' \in [Runs -> [outcome : Outcomes \cup {""}, code : 0..130]]
      /\ result'[r] = Outcome(o, ExitCode(o))
  BY <1>3 DEF finishRefused, TypeOK
<1>5. events' \in [Runs -> Seq({"spawned"} \cup Outcomes)]
  BY <1>1, LogRowType DEF finishRefused
<1>6. pc' \in [Runs -> {"idle"} \cup Working \cup Over] /\ pc'[r] = "returned"
  BY DEF finishRefused, Goto, TypeOK, Over
<1>7. result'[r].outcome = o /\ result'[r].code = ExitCode(o)
  BY <1>4, OutcomeFields, Zenon
<1> QED
  BY <1>2, <1>4, <1>5, <1>6, <1>7

LEMMA NextType ==
  ASSUME IInv, [Next]_vars
  PROVE  TypeOK'
<1> TypeOK
  BY DEF IInv
<1> USE DEF input, process, stream, files
<1>1. ASSUME NEW r \in Runs, RootCall(r) \/ \E parent \in Runs : NestedCall(r, parent)
      PROVE  TypeOK'
  <2>1. PICK d \in Nat, h \in Nat : Call(r, d, h)
    <3>1. CASE RootCall(r)
      BY <3>1, RunnerAssumption DEF RootCall
    <3>2. ASSUME NEW parent \in Runs, NestedCall(r, parent)
          PROVE  \E d \in Nat, h \in Nat : Call(r, d, h)
      <4>1. buildEnv(parent) \in Nat /\ hops[parent] + 1 \in Nat
        <5>1. depth[parent] \in Nat /\ hops[parent] \in Nat
          BY DEF TypeOK
        <5> QED
          BY <5>1 DEF buildEnv
      <4> QED
        BY <3>2, <4>1 DEF NestedCall
    <3> QED
      BY <1>1, <3>1, <3>2
  <2> QED
    BY <2>1 DEF Call, Goto, TypeOK, Working
<1>2. ASSUME NEW r \in Runs, Refuse(r) \/ StartFails(r)
      PROVE  TypeOK'
  <2>1. finishRefused(r, "refused")
    BY <1>2 DEF Refuse, StartFails
  <2>2. UNCHANGED <<input, ctx, process, stream, index, panicked>>
    BY <1>2 DEF Refuse, StartFails
  <2> QED
    BY <2>1, <2>2, RefusedType DEF TypeOK
<1>3. ASSUME NEW r \in Runs, StartIndex(r) PROVE TypeOK'
  <2>1. index' \in [Runs -> Seq({"start"} \cup Outcomes)]
    BY <1>3, IndexRowType DEF StartIndex
  <2> QED
    BY <1>3, <2>1 DEF StartIndex, Goto, TypeOK, Working
<1>4. ASSUME NEW r \in Runs, StartEvent(r) PROVE TypeOK'
  <2>1. events' \in [Runs -> Seq({"spawned"} \cup Outcomes)]
    BY <1>4, LogRowType DEF StartEvent
  <2> QED
    BY <1>4, <2>1 DEF StartEvent, Goto, TypeOK, Working
<1>5. ASSUME NEW r \in Runs, Start(r) PROVE TypeOK'
  BY <1>5 DEF Start, Goto, TypeOK, Working
<1>6. ASSUME NEW r \in Runs, SeeCtx(r) PROVE TypeOK'
  <2>1. ctx[r] \in Outcomes
    BY <1>6 DEF SeeCtx, TypeOK, Contexts, Outcomes
  <2>2. Outcome(ctx[r], 0) \in [outcome : Outcomes \cup {""}, code : 0..130]
    BY <2>1, OutcomeType, CodeZero, Zenon
  <2> QED
    BY <1>6, <2>2 DEF SeeCtx, TypeOK
<1>7. ASSUME NEW r \in Runs, LoopEnds(r) PROVE TypeOK'
  BY <1>7 DEF LoopEnds, Goto, TypeOK, Working
<1>8. ASSUME NEW r \in Runs, PlainEnds(r) PROVE TypeOK'
  <2>1. ctx[r] # "live" => Outcome(ctx[r], 0) \in [outcome : Outcomes \cup {""}, code : 0..130]
    <3>1. ctx[r] # "live" => ctx[r] \in Outcomes
      BY DEF TypeOK, Contexts, Outcomes
    <3> QED
      BY <3>1, OutcomeType, CodeZero, Zenon
  <2>2. result' \in [Runs -> [outcome : Outcomes \cup {""}, code : 0..130]]
    BY <1>8, <2>1 DEF PlainEnds, TypeOK
  <2>3. gotStop' \in [Runs -> BOOLEAN]
    BY <1>8 DEF PlainEnds, TypeOK
  <2> QED
    BY <1>8, <2>2, <2>3 DEF PlainEnds, Goto, TypeOK, Working
<1>9. ASSUME NEW r \in Runs, EndIndex(r) PROVE TypeOK'
  <2>1. Conclude(r) \in [outcome : Outcomes, code : 0..130]
    BY <1>9, ConcludeType DEF EndIndex, IInv, RunInv
  <2>2. result' \in [Runs -> [outcome : Outcomes \cup {""}, code : 0..130]]
    BY <1>9, <2>1 DEF EndIndex, TypeOK
  <2>3. index' \in [Runs -> Seq({"start"} \cup Outcomes)]
    BY <1>9, <2>1, IndexRowType DEF EndIndex
  <2> QED
    BY <1>9, <2>2, <2>3 DEF EndIndex, Goto, TypeOK, Working
<1>10. ASSUME NEW r \in Runs, EndEvent(r) PROVE TypeOK'
  <2>1. result[r].outcome \in Outcomes
    BY <1>10 DEF EndEvent, IInv, RunInv, ResultInv
  <2>2. events' \in [Runs -> Seq({"spawned"} \cup Outcomes)]
    BY <1>10, <2>1, LogRowType DEF EndEvent
  <2> QED
    BY <1>10, <2>2 DEF EndEvent, Goto, TypeOK, Over
<1>11. ASSUME NEW r \in Runs, KillGroup(r) \/ Reap(r) PROVE TypeOK'
  BY <1>11 DEF KillGroup, Reap, TypeOK
<1>12. ASSUME NEW r \in Runs, FinalEvent(r) \/ OversizedLine(r) PROVE TypeOK'
  BY <1>12 DEF FinalEvent, OversizedLine, TypeOK
<1>13. ASSUME NEW r \in Runs, ChildEnds(r) \/ CtxDone(r) PROVE TypeOK'
  <2>1. CASE ChildEnds(r)
    <3>1. PICK how \in Ended : child' = [child EXCEPT ![r] = how]
      BY <2>1 DEF ChildEnds
    <3>2. child' \in [Runs -> {"none", "running"} \cup Ended]
      BY <3>1 DEF TypeOK
    <3> QED BY <2>1, <3>2 DEF ChildEnds, TypeOK
  <2>2. CASE CtxDone(r)
    <3>1. PICK why \in Contexts : ctx' = [ctx EXCEPT ![r] = why]
      BY <2>2 DEF CtxDone
    <3>2. ctx' \in [Runs -> Contexts]
      BY <3>1 DEF TypeOK
    <3> QED BY <2>2, <3>2 DEF CtxDone, TypeOK
  <2> QED BY <1>13, <2>1, <2>2
<1>14. ASSUME NEW r \in Runs, Panic(r) PROVE TypeOK'
  <2>1. signalled' \in [Runs -> BOOLEAN] /\ panicked' \in [Runs -> BOOLEAN]
    BY <1>14 DEF Panic, Shield, TypeOK
  <2> QED
    BY <1>14, <2>1, RefusedType DEF Panic, TypeOK
<1>15. ASSUME NEW r \in Runs, Kill(r) PROVE TypeOK'
  BY <1>15 DEF Kill, Goto, TypeOK, Over
<1>16. CASE UNCHANGED vars
  BY <1>16 DEF vars, TypeOK
<1> QED
  BY <1>1, <1>2, <1>3, <1>4, <1>5, <1>6, <1>7, <1>8, <1>9, <1>10, <1>11, <1>12,
     <1>13, <1>14, <1>15, <1>16 DEF Next, Step, World

-----------------------------------------------------------------------------
(* The invariant of one run *)

LEMMA StepDepth ==
  ASSUME IInv, [Next]_vars, NEW k \in Runs
  PROVE  DepthInv(k)'
<1> TypeOK /\ DepthInv(k)
  BY DEF IInv, RunInv
<1> USE DEF input, process, stream, files
<1>1. ASSUME NEW r \in Runs, RootCall(r) PROVE DepthInv(k)'
  <2>1. child[r] = "none"
    BY <1>1 DEF RootCall, Call, IInv, RunInv, ProcessInv, Before
  <2>2. PICK d \in RootDepths : Call(r, d, d)
    BY <1>1 DEF RootCall
  <2> QED
    BY <2>1, <2>2 DEF Call, Goto, DepthInv, TypeOK
<1>2. ASSUME NEW r \in Runs, NEW parent \in Runs, NestedCall(r, parent) PROVE DepthInv(k)'
  <2>1. depth[parent] = hops[parent]
    BY DEF IInv, RunInv, DepthInv
  <2>2. child[r] = "none"
    BY <1>2 DEF NestedCall, Call, IInv, RunInv, ProcessInv, Before
  <2> QED
    BY <1>2, <2>1, <2>2 DEF NestedCall, buildEnv, Call, Goto, DepthInv, TypeOK
<1>3. ASSUME NEW r \in Runs, StartIndex(r) PROVE DepthInv(k)'
  <2>1. depth[r] \in Nat
    BY DEF TypeOK
  <2>2. depth[r] <= 2
    BY <1>3, <2>1 DEF StartIndex, Fuse
  <2>3. depth' = depth /\ hops' = hops /\ child' = child /\ pc' = [pc EXCEPT ![r] = "started"]
    BY <1>3 DEF StartIndex, Goto
  <2> QED
    BY <2>2, <2>3 DEF DepthInv, TypeOK
<1>4. ASSUME NEW r \in Runs, StartEvent(r) \/ Start(r) PROVE DepthInv(k)'
  BY <1>4 DEF StartEvent, Start, Goto, DepthInv, TypeOK
<1>5. ASSUME NEW r \in Runs, Refuse(r) \/ StartFails(r) \/ Panic(r) PROVE DepthInv(k)'
  BY <1>5 DEF Refuse, StartFails, Panic, finishRefused, Goto, DepthInv, TypeOK
<1>6. ASSUME NEW r \in Runs, LoopEnds(r) \/ PlainEnds(r) \/ EndIndex(r) \/ EndEvent(r) \/ Kill(r)
      PROVE  DepthInv(k)'
  BY <1>6 DEF LoopEnds, PlainEnds, EndIndex, EndEvent, Kill, Goto, DepthInv, TypeOK
<1>7. ASSUME NEW r \in Runs, ChildEnds(r) PROVE DepthInv(k)'
  BY <1>7 DEF ChildEnds, Ended, DepthInv, TypeOK
<1>8. ASSUME NEW r \in Runs,
             SeeCtx(r) \/ KillGroup(r) \/ Reap(r) \/ FinalEvent(r) \/ OversizedLine(r) \/ CtxDone(r)
      PROVE  DepthInv(k)'
  BY <1>8 DEF SeeCtx, KillGroup, Reap, FinalEvent, OversizedLine, CtxDone, DepthInv
<1>9. CASE UNCHANGED vars
  BY <1>9 DEF vars, DepthInv
<1> QED
  BY <1>1, <1>2, <1>3, <1>4, <1>5, <1>6, <1>7, <1>8, <1>9 DEF Next, Step, World

LEMMA StepProcess ==
  ASSUME IInv, [Next]_vars, NEW k \in Runs
  PROVE  ProcessInv(k)'
<1> TypeOK /\ ProcessInv(k)
  BY DEF IInv, RunInv
<1> USE DEF input, process, stream, files
<1>1. ASSUME NEW r \in Runs, RootCall(r) \/ \E parent \in Runs : NestedCall(r, parent)
      PROVE  ProcessInv(k)'
  <2>1. pc[r] = "idle" /\ pc' = [pc EXCEPT ![r] = "check"]
    BY <1>1 DEF RootCall, NestedCall, Call, Goto
  <2>2. UNCHANGED <<child, signalled, reaped, decoder, result>>
    BY <1>1 DEF RootCall, NestedCall, Call
  <2> QED
    BY <2>1, <2>2 DEF ProcessInv, Before, Over, TypeOK
<1>2. ASSUME NEW r \in Runs, Refuse(r) \/ StartFails(r) PROVE ProcessInv(k)'
  <2>1. pc[r] \in Before /\ pc' = [pc EXCEPT ![r] = "returned"]
    BY <1>2 DEF Refuse, StartFails, finishRefused, Goto, Before
  <2>2. UNCHANGED <<child, signalled, reaped, decoder>> /\ \A m \in Runs : m # r => result'[m] = result[m]
    BY <1>2 DEF Refuse, StartFails, finishRefused, TypeOK
  <2> QED
    BY <2>1, <2>2 DEF ProcessInv, Before, Over, TypeOK
<1>3. ASSUME NEW r \in Runs, StartIndex(r) \/ StartEvent(r) PROVE ProcessInv(k)'
  BY <1>3 DEF StartIndex, StartEvent, Goto, ProcessInv, Before, Over, TypeOK
<1>4. ASSUME NEW r \in Runs, Start(r) PROVE ProcessInv(k)'
  BY <1>4 DEF Start, Goto, ProcessInv, Before, Over, Ended, TypeOK
<1>5. ASSUME NEW r \in Runs, SeeCtx(r) PROVE ProcessInv(k)'
  <2>1. result' = [result EXCEPT ![r] = Outcome(ctx[r], 0)] /\ pc[r] = "pump"
    BY <1>5 DEF SeeCtx
  <2>2. result'[r].outcome \in {"timeout", "interrupted"}
    <3>1. ctx[r] \in {"timeout", "interrupted"}
      BY <1>5 DEF SeeCtx, TypeOK, Contexts
    <3> QED
      BY <2>1, <3>1 DEF Outcome, TypeOK
  <2>3. UNCHANGED <<pc, child, signalled, reaped, decoder>>
    BY <1>5 DEF SeeCtx
  <2> QED
    BY <2>1, <2>2, <2>3 DEF ProcessInv, Before, Over, TypeOK
<1>6. ASSUME NEW r \in Runs, LoopEnds(r) PROVE ProcessInv(k)'
  BY <1>6 DEF LoopEnds, Goto, ProcessInv, Before, Over, TypeOK
<1>7. ASSUME NEW r \in Runs, PlainEnds(r) PROVE ProcessInv(k)'
  <2>1. pc[r] = "wait" /\ reaped[r] /\ pc' = [pc EXCEPT ![r] = "finish"]
    BY <1>7 DEF PlainEnds, Goto
  <2>2. UNCHANGED <<child, signalled, reaped, decoder>> /\ \A m \in Runs : m # r => result'[m] = result[m]
    BY <1>7 DEF PlainEnds, TypeOK
  <2>3. result'[r] = NoResult \/ result'[r].outcome \in {"timeout", "interrupted"}
    <3>1. ctx[r] # "live" => ctx[r] \in {"timeout", "interrupted"}
      BY DEF TypeOK, Contexts
    <3>2. result'[r] = IF ctx[r] # "live" THEN Outcome(ctx[r], 0) ELSE NoResult
      BY <1>7, <2>1 DEF PlainEnds, TypeOK, ProcessInv, IInv, RunInv
    <3> QED
      BY <3>1, <3>2 DEF Outcome
  <2> QED
    BY <2>1, <2>2, <2>3 DEF ProcessInv, Before, Over, TypeOK
<1>8. ASSUME NEW r \in Runs, EndIndex(r) PROVE ProcessInv(k)'
  <2>1. pc[r] = "finish" /\ pc' = [pc EXCEPT ![r] = "finished"]
    BY <1>8 DEF EndIndex, Goto
  <2>2. UNCHANGED <<child, signalled, reaped, decoder>> /\ \A m \in Runs : m # r => result'[m] = result[m]
    BY <1>8 DEF EndIndex, TypeOK
  <2> QED
    BY <2>1, <2>2 DEF ProcessInv, Before, Over, TypeOK
<1>9. ASSUME NEW r \in Runs, EndEvent(r) PROVE ProcessInv(k)'
  BY <1>9 DEF EndEvent, Goto, ProcessInv, Before, Over, Ended, TypeOK
<1>10. ASSUME NEW r \in Runs, KillGroup(r) PROVE ProcessInv(k)'
  BY <1>10 DEF KillGroup, ProcessInv, Before, Over, TypeOK
<1>11. ASSUME NEW r \in Runs, Reap(r) PROVE ProcessInv(k)'
  BY <1>11 DEF Reap, ProcessInv, TypeOK
<1>12. ASSUME NEW r \in Runs, FinalEvent(r) \/ CtxDone(r) PROVE ProcessInv(k)'
  BY <1>12 DEF FinalEvent, CtxDone, ProcessInv
<1>13. ASSUME NEW r \in Runs, OversizedLine(r) PROVE ProcessInv(k)'
  BY <1>13 DEF OversizedLine, ProcessInv, TypeOK
<1>14. ASSUME NEW r \in Runs, ChildEnds(r) PROVE ProcessInv(k)'
  BY <1>14 DEF ChildEnds, Ended, ProcessInv, Before, TypeOK
<1>15. ASSUME NEW r \in Runs, Panic(r) PROVE ProcessInv(k)'
  <2>1. /\ pc' = [pc EXCEPT ![r] = "returned"] /\ UNCHANGED <<child, reaped, decoder>>
        /\ signalled' = [signalled EXCEPT ![r] = @ \/ child[r] = "running"]
    BY <1>15 DEF Panic, Shield, finishRefused, Goto
  <2>2. \A m \in Runs : m # r => result'[m] = result[m]
    BY <1>15 DEF Panic, finishRefused, TypeOK
  <2> QED
    BY <2>1, <2>2 DEF ProcessInv, Before, Over, TypeOK
<1>16. ASSUME NEW r \in Runs, Kill(r) PROVE ProcessInv(k)'
  BY <1>16 DEF Kill, Goto, ProcessInv, Before, Over, TypeOK
<1>17. CASE UNCHANGED vars
  BY <1>17 DEF vars, ProcessInv
<1> QED
  BY <1>1, <1>2, <1>3, <1>4, <1>5, <1>6, <1>7, <1>8, <1>9, <1>10, <1>11, <1>12,
     <1>13, <1>14, <1>15, <1>16, <1>17 DEF Next, Step, World

LEMMA StepResult ==
  ASSUME IInv, [Next]_vars, NEW k \in Runs
  PROVE  ResultInv(k)'
<1> TypeOK /\ ProcessInv(k) /\ ResultInv(k)
  BY DEF IInv, RunInv
<1> USE DEF input, process, stream, files
<1>1. ASSUME NEW r \in Runs, RootCall(r) \/ \E parent \in Runs : NestedCall(r, parent)
      PROVE  ResultInv(k)'
  <2>1. pc' = [pc EXCEPT ![r] = "check"] /\ UNCHANGED <<child, decoder, gotStop, result>>
    BY <1>1 DEF RootCall, NestedCall, Call, Goto
  <2> QED
    BY <2>1 DEF ResultInv, TypeOK
<1>2. ASSUME NEW r \in Runs, NEW o \in {"refused", "failed"}, finishRefused(r, o),
             UNCHANGED <<child, decoder, gotStop>>
      PROVE  ResultInv(k)'
  <2>1. result'[r].outcome = o /\ result'[r].code # 0
    BY <1>2, RefusedType
  <2>2. \A m \in Runs : m # r => result'[m] = result[m] /\ pc'[m] = pc[m]
    BY <1>2 DEF finishRefused, Goto, TypeOK
  <2> QED
    BY <1>2, <2>1, <2>2 DEF ResultInv, Outcomes
<1>3. ASSUME NEW r \in Runs, StartIndex(r) \/ StartEvent(r) \/ Start(r) \/ LoopEnds(r) \/ Kill(r)
      PROVE  ResultInv(k)'
  <2>1. pc'[r] \notin {"finished", "returned"} /\ \A m \in Runs : m # r => pc'[m] = pc[m] /\ child'[m] = child[m]
    BY <1>3 DEF StartIndex, StartEvent, Start, LoopEnds, Kill, Goto, TypeOK
  <2>2. UNCHANGED <<decoder, gotStop, result>>
    BY <1>3 DEF StartIndex, StartEvent, Start, LoopEnds, Kill
  <2> QED
    BY <2>1, <2>2 DEF ResultInv
<1>4. ASSUME NEW r \in Runs, SeeCtx(r) \/ PlainEnds(r) PROVE ResultInv(k)'
  <2>1. pc'[r] \notin {"finished", "returned"}
    BY <1>4 DEF SeeCtx, PlainEnds, Goto, TypeOK
  <2>2. \A m \in Runs : m # r => pc'[m] = pc[m] /\ result'[m] = result[m] /\ gotStop'[m] = gotStop[m]
    BY <1>4 DEF SeeCtx, PlainEnds, Goto, TypeOK
  <2>3. UNCHANGED <<child, decoder>>
    BY <1>4 DEF SeeCtx, PlainEnds
  <2> QED
    BY <2>1, <2>2, <2>3 DEF ResultInv
<1>5. ASSUME NEW r \in Runs, EndIndex(r) PROVE ResultInv(k)'
  <2>1. result' = [result EXCEPT ![r] = Conclude(r)] /\ pc[r] = "finish"
    BY <1>5 DEF EndIndex
  <2>2. UNCHANGED <<child, decoder, gotStop>> /\ \A m \in Runs : m # r => pc'[m] = pc[m]
    BY <1>5 DEF EndIndex, Goto, TypeOK
  <2>3. ProcessInv(r)
    BY DEF IInv, RunInv
  <2>4. result'[r] = Conclude(r) /\ \A m \in Runs : m # r => result'[m] = result[m]
    BY <2>1 DEF TypeOK
  <2>5. CASE k = r
    BY <2>1, <2>2, <2>3, <2>4, <2>5, ConcludeType DEF ResultInv
  <2> QED
    BY <2>2, <2>4, <2>5 DEF ResultInv
<1>6. ASSUME NEW r \in Runs, EndEvent(r) PROVE ResultInv(k)'
  BY <1>6 DEF EndEvent, Goto, ResultInv, TypeOK
<1>7. ASSUME NEW r \in Runs, KillGroup(r) \/ Reap(r) \/ CtxDone(r) PROVE ResultInv(k)'
  BY <1>7 DEF KillGroup, Reap, CtxDone, ResultInv
<1>8. ASSUME NEW r \in Runs, FinalEvent(r) \/ OversizedLine(r) PROVE ResultInv(k)'
  BY <1>8 DEF FinalEvent, OversizedLine, ResultInv, TypeOK
<1>9. ASSUME NEW r \in Runs, ChildEnds(r) PROVE ResultInv(k)'
  BY <1>9 DEF ChildEnds, ResultInv, TypeOK
<1>10. CASE UNCHANGED vars
  BY <1>10 DEF vars, ResultInv
<1>11. ASSUME NEW r \in Runs, Refuse(r) \/ StartFails(r) \/ Panic(r) PROVE ResultInv(k)'
  BY <1>2, <1>11 DEF Refuse, StartFails, Panic
<1> QED
  BY <1>1, <1>3, <1>4, <1>5, <1>6, <1>7, <1>8, <1>9, <1>10, <1>11 DEF Next, Step, World

LEMMA AppendLast ==
  ASSUME NEW S, NEW s \in Seq(S), NEW d \in S
  PROVE  Append(s, d) # <<>> /\ Append(s, d)[Len(Append(s, d))] = d
  OBVIOUS

LEMMA AppendToRows ==
  ASSUME NEW d
  PROVE  Append(<<>>, d) = <<d>> /\ Append(<<"start">>, d) = <<"start", d>>
<1>1. Append(<<>>, d) = <<d>>
  OBVIOUS
<1>2. Append(<<"start">>, d) = <<"start", d>>
  <2> DEFINE S == {"start", d}
             s == Append(<<"start">>, d)
             t == <<"start", d>>
  <2>1. s \in Seq(S) /\ Len(s) = 2 /\ s[1] = "start" /\ s[2] = d
    OBVIOUS
  <2>2. t \in Seq(S) /\ Len(t) = 2 /\ t[1] = "start" /\ t[2] = d
    OBVIOUS
  <2> HIDE DEF S, s, t
  <2>3. \A i \in 1..Len(s) : s[i] = t[i]
    <3>1. 1..Len(s) = {1, 2}
      BY <2>1
    <3> QED
      BY <2>1, <2>2, <3>1
  <2>4. s = t
    BY <2>1, <2>2, <2>3, SeqEqual
  <2> QED
    BY <2>4 DEF s, t
<1> QED
  BY <1>1, <1>2

(* An eventlog row is the last one, if it can be written. *)
LEMMA LastEvent ==
  ASSUME TypeOK, NEW r \in Runs, NEW d \in {"spawned"} \cup Outcomes, LogRow(r, d)
  PROVE  /\ spec[r].rows => events'[r] # <<>> /\ events'[r][Len(events'[r])] = d
         /\ \A m \in Runs : m # r => events'[m] = events[m]
<1>1. events[r] \in Seq({"spawned"} \cup Outcomes)
  BY DEF TypeOK
<1>2. spec[r].rows => events'[r] = Append(events[r], d)
  BY DEF LogRow, TypeOK
<1>3. \A m \in Runs : m # r => events'[m] = events[m]
  BY DEF LogRow, TypeOK
<1> QED
  BY <1>1, <1>2, <1>3, AppendLast

(* An index row follows the ones before it, if it can be written. *)
LEMMA NextRow ==
  ASSUME TypeOK, NEW r \in Runs, NEW d, IndexRow(r, d)
  PROVE  /\ index'[r] = IF spec[r].rows THEN Append(index[r], d) ELSE index[r]
         /\ \A m \in Runs : m # r => index'[m] = index[m]
  BY DEF IndexRow, TypeOK

(* A run that nothing of its rows' story happens to keeps it. *)
SameRows(m) ==
  /\ spec'[m] = spec[m] /\ pc'[m] = pc[m] /\ result'[m] = result[m]
  /\ index'[m] = index[m] /\ events'[m] = events[m] /\ panicked'[m] = panicked[m]
  /\ child'[m] = child[m] \/ child[m] # "none"

LEMMA RowFrame ==
  ASSUME NEW m \in Runs, RowInv(m), SameRows(m)
  PROVE  RowInv(m)'
  BY DEF RowInv, SameRows, Rows

LEMMA RefusedRows ==
  ASSUME IInv, NEW r \in Runs, NEW o \in {"refused", "failed"}, finishRefused(r, o),
         UNCHANGED <<spec, child, index>>,
         \A m \in Runs : m # r => panicked'[m] = panicked[m],
         \/ panicked'[r]
         \/ child[r] = "none" /\ index[r] \in {<<>>, <<"start">>},
         NEW k \in Runs
  PROVE  RowInv(k)'
<1> TypeOK /\ RowInv(k)
  BY DEF IInv, RunInv
<1>1. result'[r].outcome = o /\ pc'[r] = "returned"
  BY RefusedType
<1>2. o \in {"spawned"} \cup Outcomes /\ LogRow(r, o)
  BY DEF Outcomes, finishRefused
<1>3. CASE k = r
  <2>1. spec[r].rows => events'[r] # <<>> /\ events'[r][Len(events'[r])] = o
    BY <1>2, LastEvent
  <2> QED
    BY <1>1, <1>3, <2>1 DEF RowInv
<1>4. CASE k # r
  <2>1. events'[k] = events[k]
    BY <1>2, <1>4, LastEvent
  <2>2. result'[k] = result[k] /\ pc'[k] = pc[k]
    BY <1>4 DEF finishRefused, Goto, TypeOK
  <2> QED
    BY <1>4, <2>1, <2>2, RowFrame DEF SameRows
<1> QED
  BY <1>3, <1>4

LEMMA StepRow ==
  ASSUME IInv, [Next]_vars, NEW k \in Runs
  PROVE  RowInv(k)'
<1> TypeOK /\ RowInv(k)
  BY DEF IInv, RunInv
<1> USE DEF input, process, stream, files
<1>1. ASSUME NEW r \in Runs, RootCall(r) \/ \E parent \in Runs : NestedCall(r, parent)
      PROVE  RowInv(k)'
  <2>1. pc[r] = "idle" /\ pc' = [pc EXCEPT ![r] = "check"]
    BY <1>1 DEF RootCall, NestedCall, Call, Goto
  <2>2. UNCHANGED <<spec, child, result, index, events, panicked>>
    BY <1>1 DEF RootCall, NestedCall, Call
  <2>3. pc'[r] = "check" /\ \A m \in Runs : m # r => pc'[m] = pc[m]
    BY <2>1 DEF TypeOK
  <2> QED
    BY <2>1, <2>2, <2>3 DEF RowInv, Rows
<1>2. ASSUME NEW r \in Runs, Refuse(r) \/ StartFails(r) PROVE RowInv(k)'
  <2>1. child[r] = "none" /\ index[r] \in {<<>>, <<"start">>}
    BY <1>2 DEF Refuse, StartFails, IInv, RunInv, ProcessInv, Before, RowInv, Rows
  <2> QED
    BY <1>2, <2>1, RefusedRows DEF Refuse, StartFails
<1>3. ASSUME NEW r \in Runs, StartIndex(r) PROVE RowInv(k)'
  <2>1. pc[r] = "check" /\ IndexRow(r, "start") /\ UNCHANGED <<spec, child, result, events, panicked>>
    BY <1>3 DEF StartIndex
  <2>2. pc'[r] = "started" /\ \A m \in Runs : m # r => pc'[m] = pc[m]
    BY <1>3 DEF StartIndex, Goto, TypeOK
  <2>3. index[r] = <<>>
    BY <2>1 DEF IInv, RunInv, RowInv
  <2>4. /\ index'[r] = IF spec[r].rows THEN <<"start">> ELSE <<>>
        /\ \A m \in Runs : m # r => index'[m] = index[m]
    BY <2>1, <2>3, NextRow, AppendToRows
  <2>5. CASE k = r
    BY <2>1, <2>2, <2>4, <2>5 DEF RowInv, Rows
  <2>6. CASE k # r
    BY <2>1, <2>2, <2>4, <2>6, RowFrame DEF SameRows
  <2> QED
    BY <2>5, <2>6
<1>4. ASSUME NEW r \in Runs, StartEvent(r) PROVE RowInv(k)'
  <2>1. pc[r] = "started" /\ LogRow(r, "spawned") /\ UNCHANGED <<spec, child, result, index, panicked>>
    BY <1>4 DEF StartEvent
  <2>2. pc'[r] = "spawn" /\ \A m \in Runs : m # r => pc'[m] = pc[m]
    BY <1>4 DEF StartEvent, Goto, TypeOK
  <2>3. \A m \in Runs : m # r => events'[m] = events[m]
    BY <2>1, LastEvent
  <2>4. CASE k = r
    BY <2>1, <2>2, <2>4 DEF RowInv, Rows
  <2>5. CASE k # r
    BY <2>1, <2>2, <2>3, <2>5, RowFrame DEF SameRows
  <2> QED
    BY <2>4, <2>5
<1>5. ASSUME NEW r \in Runs, Start(r) PROVE RowInv(k)'
  <2>1. pc[r] = "spawn" /\ UNCHANGED <<spec, result, index, events, panicked>>
    BY <1>5 DEF Start
  <2>2. /\ pc'[r] \in {"pump", "wait"}
        /\ \A m \in Runs : m # r => pc'[m] = pc[m] /\ child'[m] = child[m]
    BY <1>5 DEF Start, Goto, TypeOK
  <2>3. CASE k = r
    BY <2>1, <2>2, <2>3 DEF RowInv, Rows
  <2>4. CASE k # r
    BY <2>1, <2>2, <2>4, RowFrame DEF SameRows
  <2> QED
    BY <2>3, <2>4
<1>6. ASSUME NEW r \in Runs, SeeCtx(r) \/ LoopEnds(r) \/ PlainEnds(r) PROVE RowInv(k)'
  <2>1. pc[r] \in {"pump", "wait"} /\ UNCHANGED <<spec, child, index, events, panicked>>
    BY <1>6 DEF SeeCtx, LoopEnds, PlainEnds
  <2>2. pc'[r] \in {"pump", "finish"}
    BY <1>6 DEF SeeCtx, LoopEnds, PlainEnds, Goto, TypeOK
  <2>3. \A m \in Runs : m # r => pc'[m] = pc[m] /\ result'[m] = result[m]
    BY <1>6 DEF SeeCtx, LoopEnds, PlainEnds, Goto, TypeOK
  <2>4. CASE k = r
    BY <2>1, <2>2, <2>4 DEF RowInv, Rows
  <2>5. CASE k # r
    BY <2>1, <2>3, <2>5, RowFrame DEF SameRows
  <2> QED
    BY <2>4, <2>5
<1>7. ASSUME NEW r \in Runs, EndIndex(r) PROVE RowInv(k)'
  <2>1. /\ pc[r] = "finish" /\ IndexRow(r, Conclude(r).outcome)
        /\ result' = [result EXCEPT ![r] = Conclude(r)] /\ UNCHANGED <<spec, child, events, panicked>>
    BY <1>7 DEF EndIndex
  <2>2. pc'[r] = "finished" /\ \A m \in Runs : m # r => pc'[m] = pc[m]
    BY <1>7 DEF EndIndex, Goto, TypeOK
  <2>3. result'[r] = Conclude(r) /\ \A m \in Runs : m # r => result'[m] = result[m]
    BY <2>1 DEF TypeOK
  <2>4. index[r] = IF spec[r].rows THEN <<"start">> ELSE <<>>
    BY <2>1 DEF IInv, RunInv, RowInv, Rows
  <2>5. /\ index'[r] = IF spec[r].rows THEN <<"start", Conclude(r).outcome>> ELSE <<>>
        /\ \A m \in Runs : m # r => index'[m] = index[m]
    BY <2>1, <2>4, NextRow, AppendToRows
  <2>6. CASE k = r
    BY <2>1, <2>2, <2>3, <2>5, <2>6 DEF RowInv, Rows
  <2>7. CASE k # r
    BY <2>1, <2>2, <2>3, <2>5, <2>7, RowFrame DEF SameRows
  <2> QED
    BY <2>6, <2>7
<1>8. ASSUME NEW r \in Runs, EndEvent(r) PROVE RowInv(k)'
  <2>1. /\ pc[r] = "finished" /\ LogRow(r, result[r].outcome)
        /\ UNCHANGED <<spec, child, result, index, panicked>>
    BY <1>8 DEF EndEvent
  <2>2. pc'[r] = "returned" /\ \A m \in Runs : m # r => pc'[m] = pc[m]
    BY <1>8 DEF EndEvent, Goto, TypeOK
  <2>3. result[r].outcome \in Outcomes
    BY <2>1 DEF IInv, RunInv, ResultInv
  <2>4. /\ spec[r].rows => events'[r] # <<>> /\ events'[r][Len(events'[r])] = result[r].outcome
        /\ \A m \in Runs : m # r => events'[m] = events[m]
    BY <2>1, <2>3, LastEvent
  <2>5. CASE k = r
    BY <2>1, <2>2, <2>4, <2>5 DEF RowInv, Rows
  <2>6. CASE k # r
    BY <2>1, <2>2, <2>4, <2>6, RowFrame DEF SameRows
  <2> QED
    BY <2>5, <2>6
<1>9. ASSUME NEW r \in Runs,
             KillGroup(r) \/ Reap(r) \/ FinalEvent(r) \/ OversizedLine(r) \/ CtxDone(r) \/ ChildEnds(r)
      PROVE  RowInv(k)'
  <2>1. UNCHANGED <<spec, pc, result, index, events, panicked>>
    BY <1>9 DEF KillGroup, Reap, FinalEvent, OversizedLine, CtxDone, ChildEnds
  <2>2. child'[k] = child[k] \/ child[k] # "none"
    BY <1>9 DEF KillGroup, Reap, FinalEvent, OversizedLine, CtxDone, ChildEnds, TypeOK
  <2> QED
    BY <2>1, <2>2, RowFrame DEF SameRows
<1>10. ASSUME NEW r \in Runs, Panic(r) PROVE RowInv(k)'
  <2>1. panicked'[r] /\ \A m \in Runs : m # r => panicked'[m] = panicked[m]
    BY <1>10 DEF Panic, TypeOK
  <2> QED
    BY <1>10, <2>1, RefusedRows DEF Panic
<1>11. ASSUME NEW r \in Runs, Kill(r) PROVE RowInv(k)'
  <2>1. pc'[r] = "killed" /\ \A m \in Runs : m # r => pc'[m] = pc[m]
    BY <1>11 DEF Kill, Goto, TypeOK
  <2>2. UNCHANGED <<spec, child, result, index, events, panicked>>
    BY <1>11 DEF Kill
  <2> QED
    BY <2>1, <2>2 DEF RowInv, Rows
<1>12. CASE UNCHANGED vars
  BY <1>12 DEF vars, RowInv, Rows
<1> QED
  BY <1>1, <1>2, <1>3, <1>4, <1>5, <1>6, <1>7, <1>8, <1>9, <1>10, <1>11, <1>12
  DEF Next, Step, World

-----------------------------------------------------------------------------
(* The theorems *)

(* IInv holds in every state of every run of the specification. *)
THEOREM Inductive == Spec => []IInv
<1>1. IInv /\ [Next]_vars => IInv'
  BY NextType, StepDepth, StepProcess, StepResult, StepRow DEF IInv, RunInv
<1> QED
  BY InitInv, <1>1, PTL DEF Spec

(* The variables of Run stay in their types, whatever the child does. *)
THEOREM TypeCorrect == Spec => []TypeOK
<1>1. IInv => TypeOK
  BY DEF IInv
<1> QED
  BY <1>1, Inductive, PTL

(* However runs are nested, no child runs more than two hops down (the     *)
(* depth check of runner.Run with buildEnv's increment).                   *)
THEOREM FuseHolds == Spec => []RecursionFuse
<1>1. IInv => RecursionFuse
  BY DEF IInv, RunInv, DepthInv, RecursionFuse
<1> QED
  BY <1>1, Inductive, PTL

(* "completed" is only returned for a child that delivered its final event *)
(* and, as far as Run could see, ended well (the outcome chain of Run).    *)
THEOREM CompletedIsDone == Spec => []CompletedMeansDone
<1>1. IInv => CompletedMeansDone
  BY DEF IInv, RunInv, ResultInv, CompletedMeansDone
<1> QED
  BY <1>1, Inductive, PTL

(* A run that did not complete returns a code other than 0, but for a      *)
(* child ended by a signal (the exit code chain of Run).                   *)
THEOREM FailureHasCode == Spec => []FailureIsNotZero
<1>1. IInv => FailureIsNotZero
  BY DEF IInv, RunInv, ResultInv, FailureIsNotZero
<1> QED
  BY <1>1, Inductive, PTL

(* Run leaves no child that was not signalled, unless its output could not *)
(* be decoded (cmd.Cancel, the panic shield and, on Linux, PDEATHSIG).     *)
THEOREM ChildrenAreTold == Spec => []ChildIsTold
<1>1. IInv => ChildIsTold
  BY DEF IInv, RunInv, ProcessInv, ChildIsTold
<1> QED
  BY <1>1, Inductive, PTL

(* runs/index.jsonl and the eventlog tell the result that Run returns.     *)
THEOREM RowsAreTruthful == Spec => []RowsTellTheResult
<1>1. IInv => RowsTellTheResult
  BY DEF IInv, RunInv, RowInv, RowsTellTheResult
<1> QED
  BY <1>1, Inductive, PTL
===============================================================================
