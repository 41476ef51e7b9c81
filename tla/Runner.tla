------------------------------- MODULE Runner -------------------------------
(***************************************************************************)
(* runner.Run (internal/runner/runner.go): `arbiter run` and the           *)
(* delegate_to tool spawn a CLI, pump its stream-json output and record    *)
(* the run in runs/index.jsonl and the eventlog.  A child may itself call  *)
(* `arbiter run`; ARBITER_RUN_DEPTH counts the hops.                       *)
(*                                                                         *)
(* Three activities share a run: Run's own goroutine (pc), the goroutine   *)
(* that waits for the child and closes its pipe (reaped), and the decoder  *)
(* (decoder).  The child, the signals and the panics are free.  A call     *)
(* whose spec cannot be resolved (no directory for the log, a negative     *)
(* timeout) returns an error before it does anything, and is left out.     *)
(***************************************************************************)
EXTENDS Naturals, Sequences

CONSTANTS
  Runs,        (* calls of Run                                              *)
  Roots,       (* those made from outside; the others are made by a child   *)
  Specs,       (* [claude, obstacle, inherit, rows], see SpecType           *)
  RootDepths   (* ARBITER_RUN_DEPTH of a call that is not nested            *)

(* claude: the CLI is claude.  obstacle: the first thing in the way of a     *)
(* spawn: the unsafe guard, an unsupported CLI, the binary's path, the log   *)
(* file, exec.  inherit: --inherit-env.  rows: the appends succeed; their    *)
(* errors are ignored.                                                       *)
Obstacles == {"none", "unsafe", "cli", "path", "log", "start"}
SpecType ==
  [claude : BOOLEAN, obstacle : Obstacles, inherit : BOOLEAN, rows : BOOLEAN]

ASSUME RunnerAssumption ==
  Roots \subseteq Runs /\ Specs \subseteq SpecType /\ RootDepths \subseteq Nat

VARIABLES
  spec, depth,   (* the RunSpec; the depth read from the environment         *)
  hops,          (* history: how many runs this one is really nested in      *)
  pc,            (* where Run is                                             *)
  ctx,           (* live, timeout or interrupted                             *)
  child,         (* none, running, zero, nonzero or signal (how it ended)    *)
  signalled,     (* SIGTERM was sent to the child's process group            *)
  reaped,        (* cmd.Wait is back: ProcessState set, the pipe closed      *)
  decoder,       (* DecodeStream: reading, or failed on an oversized line    *)
  gotStop,       (* a final event was decoded, or plain output came to its end *)
  result,        (* [outcome, code] as Run computes it                       *)
  index,         (* per run: its rows of index.jsonl                         *)
  events,        (* per run: the decisions of its eventlog rows              *)
  panicked       (* history: the panic shield caught something               *)

input == <<spec, depth, hops>>
process == <<child, signalled, reaped>>
stream == <<decoder, gotStop>>
files == <<index, events>>
vars == <<input, pc, ctx, process, stream, result, files, panicked>>

Contexts == {"live", "timeout", "interrupted"}
Ended == {"zero", "nonzero", "signal"}
Outcomes == {"completed", "failed", "timeout", "interrupted", "refused"}
Over == {"returned", "killed"}
Working == {"check", "started", "spawn", "pump", "wait", "finish", "finished"}

Goto(r, l) == pc' = [pc EXCEPT ![r] = l]

Outcome(o, code) == [outcome |-> o, code |-> code]
NoResult == Outcome("", 0)

(* Outcome.ExitCode; the code of a failed child is its own, 1 stands for any. *)
ExitCode(o) ==
  CASE o = "failed"      -> 1
    [] o = "refused"     -> 2
    [] o = "timeout"     -> 124
    [] o = "interrupted" -> 130
    [] OTHER             -> 0

LogRow(r, d) ==
  events' = [events EXCEPT ![r] = IF spec[r].rows THEN Append(@, d) ELSE @]
IndexRow(r, d) ==
  index' = [index EXCEPT ![r] = IF spec[r].rows THEN Append(@, d) ELSE @]

(* finishRefused: an eventlog row, no row in the index. *)
finishRefused(r, o) ==
  /\ result' = [result EXCEPT ![r] = Outcome(o, ExitCode(o))]
  /\ LogRow(r, o)
  /\ Goto(r, "returned")

-----------------------------------------------------------------------------
(* Calling Run *)

(* --inherit-env hands the caller's own counter on: a mutant of buildEnv. *)
InheritDepth(r) == IF spec[r].inherit /\ depth[r] > 0 THEN depth[r] ELSE depth[r] + 1

(* buildEnv: the depth the child sees. *)
buildEnv(r) == depth[r] + 1

Call(r, d, h) ==
  /\ pc[r] = "idle"
  /\ depth' = [depth EXCEPT ![r] = d]
  /\ hops' = [hops EXCEPT ![r] = h]
  /\ Goto(r, "check")
  /\ UNCHANGED <<spec, ctx, process, stream, result, files, panicked>>

RootCall(r) == r \in Roots /\ \E d \in RootDepths : Call(r, d, d)

NestedCall(r, parent) ==
  /\ r \notin Roots /\ child[parent] = "running"
  /\ Call(r, buildEnv(parent), hops[parent] + 1)

Fuse(r) == depth[r] > 2

Refuse(r) ==
  /\ pc[r] = "check"
  /\ Fuse(r) \/ spec[r].obstacle \in {"unsafe", "cli", "path", "log"}
  /\ finishRefused(r, "refused")
  /\ UNCHANGED <<input, ctx, process, stream, index, panicked>>

StartIndex(r) ==
  /\ pc[r] = "check"
  /\ ~Fuse(r) /\ spec[r].obstacle \in {"none", "start"}
  /\ IndexRow(r, "start")
  /\ Goto(r, "started")
  /\ UNCHANGED <<input, ctx, process, stream, result, events, panicked>>

StartEvent(r) ==
  /\ pc[r] = "started"
  /\ LogRow(r, "spawned")
  /\ Goto(r, "spawn")
  /\ UNCHANGED <<input, ctx, process, stream, result, index, panicked>>

(* cmd.Start fails on a dead context too; the index keeps a start row. *)
StartFails(r) ==
  /\ pc[r] = "spawn"
  /\ spec[r].obstacle = "start" \/ ctx[r] # "live"
  /\ finishRefused(r, "refused")
  /\ UNCHANGED <<input, ctx, process, stream, index, panicked>>

Start(r) ==
  /\ pc[r] = "spawn"
  /\ spec[r].obstacle = "none" /\ ctx[r] = "live"
  /\ child' = [child EXCEPT ![r] = "running"]
  /\ Goto(r, IF spec[r].claude THEN "pump" ELSE "wait")
  /\ UNCHANGED <<input, ctx, signalled, reaped, stream, result, files, panicked>>

-----------------------------------------------------------------------------
(* The child and its output *)

(* A final event ("message_stop", "result"); other lines change no control. *)
FinalEvent(r) ==
  /\ child[r] = "running" /\ spec[r].claude /\ decoder[r] = "reading"
  /\ gotStop' = [gotStop EXCEPT ![r] = TRUE]
  /\ UNCHANGED <<input, pc, ctx, process, decoder, result, files, panicked>>

(* A line of more than 1 MiB: the scanner gives up and the events are closed *)
(* while the child goes on.                                                  *)
OversizedLine(r) ==
  /\ child[r] = "running" /\ spec[r].claude /\ decoder[r] = "reading"
  /\ decoder' = [decoder EXCEPT ![r] = "failed"]
  /\ UNCHANGED <<input, pc, ctx, process, gotStop, result, files, panicked>>

ChildEnds(r) ==
  /\ child[r] = "running"
  /\ \E how \in Ended : child' = [child EXCEPT ![r] = how]
  /\ UNCHANGED <<input, pc, ctx, signalled, reaped, stream, result, files, panicked>>

(* The context of an `arbiter run` or of an MCP request. *)
CtxDone(r) ==
  /\ pc[r] # "idle" /\ ctx[r] = "live"
  /\ ctx' \in {[ctx EXCEPT ![r] = why] : why \in Contexts \ {"live"}}
  /\ UNCHANGED <<input, pc, process, stream, result, files, panicked>>

(* exec calls cmd.Cancel = killGroup; SIGKILL follows after WaitDelay. *)
KillGroup(r) ==
  /\ ctx[r] # "live" /\ pc[r] # "killed"
  /\ child[r] = "running" /\ ~signalled[r]
  /\ signalled' = [signalled EXCEPT ![r] = TRUE]
  /\ UNCHANGED <<input, pc, ctx, child, reaped, stream, result, files, panicked>>

(* The pipe is left open when the child is gone: a mutant of Reap. *)
WaitWithoutClose(r) ==
  /\ child[r] \in Ended /\ pc[r] = "wait" /\ ~reaped[r]
  /\ reaped' = [reaped EXCEPT ![r] = TRUE]
  /\ UNCHANGED <<input, pc, ctx, child, signalled, stream, result, files, panicked>>

(* cmd.Wait; WaitDelay bounds the wait for descendants that hold the pipe. *)
Reap(r) ==
  /\ child[r] \in Ended /\ pc[r] # "killed" /\ ~reaped[r]
  /\ reaped' = [reaped EXCEPT ![r] = TRUE]
  /\ UNCHANGED <<input, pc, ctx, child, signalled, stream, result, files, panicked>>

-----------------------------------------------------------------------------
(* Run's loop and its end *)

SeeCtx(r) ==
  /\ pc[r] = "pump" /\ ctx[r] # "live" /\ result[r] = NoResult
  /\ result' = [result EXCEPT ![r] = Outcome(ctx[r], 0)]
  /\ UNCHANGED <<input, pc, ctx, process, stream, files, panicked>>

(* The stream loop is over once the events are closed. *)
LoopEnds(r) ==
  /\ pc[r] = "pump"
  /\ decoder[r] = "failed" \/ reaped[r]
  /\ Goto(r, "finish")
  /\ UNCHANGED <<input, ctx, process, stream, result, files, panicked>>

(* A plain CLI: Run waits itself; an error of the output's copy is an error. *)
PlainEnds(r) ==
  /\ pc[r] = "wait" /\ reaped[r]
  /\ result' = [result EXCEPT ![r] = IF ctx[r] # "live" THEN Outcome(ctx[r], 0) ELSE @]
  /\ \E copied \in BOOLEAN :
       gotStop' = [gotStop EXCEPT ![r] = copied /\ child[r] = "zero"]
  /\ Goto(r, "finish")
  /\ UNCHANGED <<input, ctx, process, decoder, files, panicked>>

(* The final event is taken for success: a mutant of Conclude. *)
StopIsSuccess(r) ==
  IF result[r] # NoResult THEN Outcome(result[r].outcome, ExitCode(result[r].outcome))
  ELSE IF gotStop[r] THEN Outcome("completed", 0)
  ELSE Outcome("failed", 1)

(* The exit code of a cancelled run is not set: a mutant of Conclude. *)
CancelledIsZero(r) ==
  IF result[r] # NoResult THEN Outcome(result[r].outcome, 0)
  ELSE IF reaped[r] /\ child[r] # "zero" THEN Outcome("failed", 1)
  ELSE IF gotStop[r] THEN Outcome("completed", 0)
  ELSE Outcome("failed", 1)

(* The outcome of a good run is not set: a mutant of Conclude. *)
NoOutcome(r) ==
  IF result[r] = NoResult /\ gotStop[r] THEN NoResult ELSE StopIsSuccess(r)

(* A process that a signal ended has ExitCode() -1, and the code stays 0. *)
Conclude(r) ==
  IF result[r] # NoResult THEN Outcome(result[r].outcome, ExitCode(result[r].outcome))
  ELSE IF reaped[r] /\ child[r] # "zero"
  THEN Outcome("failed", IF child[r] = "signal" THEN 0 ELSE 1)
  ELSE IF gotStop[r] THEN Outcome("completed", 0)
  ELSE Outcome("failed", 1)

(* The row is written before the result is settled: a mutant of EndIndex. *)
RowBeforeResult(r) ==
  /\ pc[r] = "finish"
  /\ result' = [result EXCEPT ![r] = Conclude(r)]
  /\ IndexRow(r, IF gotStop[r] THEN "completed" ELSE "failed")
  /\ Goto(r, "finished")
  /\ UNCHANGED <<input, ctx, process, stream, events, panicked>>

(* The result is settled and the index gets its end row (finishLogs). *)
EndIndex(r) ==
  /\ pc[r] = "finish"
  /\ result' = [result EXCEPT ![r] = Conclude(r)]
  /\ IndexRow(r, Conclude(r).outcome)
  /\ Goto(r, "finished")
  /\ UNCHANGED <<input, ctx, process, stream, events, panicked>>

EndEvent(r) ==
  /\ pc[r] = "finished"
  /\ LogRow(r, result[r].outcome)
  /\ Goto(r, "returned")
  /\ UNCHANGED <<input, ctx, process, stream, result, index, panicked>>

(* The shield answers and forgets the group: a mutant of Shield. *)
ShieldOnly(r) == UNCHANGED signalled

(* killGroup in the panic shield; without a process it does nothing. *)
Shield(r) ==
  signalled' = [signalled EXCEPT ![r] = @ \/ child[r] = "running"]

Panic(r) ==
  /\ pc[r] \in Working
  /\ panicked' = [panicked EXCEPT ![r] = TRUE]
  /\ Shield(r)
  /\ finishRefused(r, "failed")
  /\ UNCHANGED <<input, ctx, child, reaped, stream, index>>

(* SIGKILL of arbiter; PR_SET_PDEATHSIG signals the child (Linux). *)
Kill(r) ==
  /\ pc[r] \in Working
  /\ Goto(r, "killed")
  /\ signalled' = [signalled EXCEPT ![r] = @ \/ child[r] = "running"]
  /\ UNCHANGED <<input, ctx, child, reaped, stream, result, files, panicked>>

-----------------------------------------------------------------------------
Init ==
  /\ spec \in [Runs -> Specs]
  /\ depth = [r \in Runs |-> 0]
  /\ hops = [r \in Runs |-> 0]
  /\ pc = [r \in Runs |-> "idle"]
  /\ ctx = [r \in Runs |-> "live"]
  /\ child = [r \in Runs |-> "none"]
  /\ signalled = [r \in Runs |-> FALSE]
  /\ reaped = [r \in Runs |-> FALSE]
  /\ decoder = [r \in Runs |-> "reading"]
  /\ gotStop = [r \in Runs |-> FALSE]
  /\ result = [r \in Runs |-> NoResult]
  /\ index = [r \in Runs |-> <<>>]
  /\ events = [r \in Runs |-> <<>>]
  /\ panicked = [r \in Runs |-> FALSE]

(* Run and the goroutines it starts. *)
Step(r) ==
  \/ Refuse(r) \/ StartIndex(r) \/ StartEvent(r) \/ StartFails(r) \/ Start(r)
  \/ SeeCtx(r) \/ LoopEnds(r) \/ PlainEnds(r) \/ EndIndex(r) \/ EndEvent(r)

World(r) ==
  \/ RootCall(r)
  \/ \E parent \in Runs : NestedCall(r, parent)
  \/ FinalEvent(r) \/ OversizedLine(r) \/ ChildEnds(r)
  \/ CtxDone(r) \/ Panic(r) \/ Kill(r)

Next == \E r \in Runs : Step(r) \/ KillGroup(r) \/ Reap(r) \/ World(r)

(* The runtime schedules Run, the waiting goroutine and exec's watcher; a    *)
(* child whose group was signalled ends, at the latest by the SIGKILL that   *)
(* follows WaitDelay.  Nothing is assumed of a child that was not signalled. *)
Fairness ==
  \A r \in Runs :
    /\ WF_vars(Step(r)) /\ WF_vars(Reap(r)) /\ WF_vars(KillGroup(r))
    /\ WF_vars(signalled[r] /\ ChildEnds(r))

Spec == Init /\ [][Next]_vars /\ Fairness

-----------------------------------------------------------------------------
(* Properties *)

(* The values each variable takes. *)
TypeOK ==
  /\ spec \in [Runs -> Specs]
  /\ depth \in [Runs -> Nat] /\ hops \in [Runs -> Nat]
  /\ pc \in [Runs -> {"idle"} \cup Working \cup Over]
  /\ ctx \in [Runs -> Contexts]
  /\ child \in [Runs -> {"none", "running"} \cup Ended]
  /\ signalled \in [Runs -> BOOLEAN] /\ reaped \in [Runs -> BOOLEAN]
  /\ decoder \in [Runs -> {"reading", "failed"}] /\ gotStop \in [Runs -> BOOLEAN]
  /\ result \in [Runs -> [outcome : Outcomes \cup {""}, code : 0..130]]
  /\ index \in [Runs -> Seq({"start"} \cup Outcomes)]
  /\ events \in [Runs -> Seq({"spawned"} \cup Outcomes)]
  /\ panicked \in [Runs -> BOOLEAN]

(* No child runs more than two hops below a run that was not nested, so     *)
(* that a delegated task cannot fork without end, with --inherit-env or not. *)
RecursionFuse == \A r \in Runs : child[r] # "none" => hops[r] <= 2

(* "completed" is only said of a child that delivered its final event (a    *)
(* plain one: all its output) and, unless its output could not be decoded   *)
(* to the end, ended well.                                                  *)
CompletedMeansDone ==
  \A r \in Runs : pc[r] = "returned" /\ result[r].outcome = "completed" =>
    /\ gotStop[r]
    /\ child[r] = "zero" \/ decoder[r] = "failed"

(* A run that did not complete does not look like success to the shell,     *)
(* unless a signal ended its child.                                         *)
FailureIsNotZero ==
  \A r \in Runs :
    pc[r] = "returned" /\ result[r].outcome # "completed" /\ child[r] # "signal"
    => result[r].code # 0

(* Run does not leave a child behind that nobody has told to stop, unless   *)
(* the child's output could not be decoded.  When arbiter itself is killed, *)
(* it is the kernel that tells it, by PR_SET_PDEATHSIG: on Linux only.      *)
ChildIsTold ==
  \A r \in Runs :
    pc[r] \in Over /\ child[r] = "running" => signalled[r] \/ decoder[r] = "failed"

(* The index and the eventlog tell one story, the result's: a run has a     *)
(* start row first and at most one end row, the end rows of both files say  *)
(* what Run returned, and a run that came to its end in its own time is in  *)
(* both.                                                                    *)
RowsTellTheResult ==
  \A r \in Runs :
    /\ index[r] \in {<<>>, <<"start">>, <<"start", result[r].outcome>>} \/ panicked[r]
    /\ pc[r] = "returned" /\ spec[r].rows =>
         /\ events[r] # <<>> /\ events[r][Len(events[r])] = result[r].outcome
         /\ child[r] # "none" /\ ~panicked[r] => index[r] = <<"start", result[r].outcome>>

(* A run whose context is done, and one whose child has ended, comes back   *)
(* to its caller: neither the pipe, nor the decoder, nor a child that does  *)
(* not stop by itself holds it up.                                          *)
RunReturns ==
  \A r \in Runs : ctx[r] # "live" \/ child[r] \in Ended ~> pc[r] \in Over

(* Disagreements with the documentation *)

(* runner.go, Run: arbiter "must not orphan a child process under any       *)
(* failure mode".                                                           *)
NoOrphan ==
  \A r \in Runs : pc[r] \in Over /\ child[r] = "running" => signalled[r]
=============================================================================
