---------------------------- MODULE DecisionGate ----------------------------
(***************************************************************************)
(* What `arbiter hook pretool` promises the calling CLI, seen from outside *)
(* (docs/CLI.md, "arbiter hook"): every call that is not cut short gets an *)
(* answer, the answer is never revised, and the eventlog gets at most one  *)
(* row for the call, after the answer and saying the same.                 *)
(***************************************************************************)
CONSTANTS Hooks      (* the hook processes, one per tool call of a CLI *)

VARIABLES
  answer,    (* per hook: "none", "allow" or "deny"                   *)
  recorded,  (* per hook: the decision of its eventlog row, or "none" *)
  cut        (* the hooks the operating system or the CLI has killed  *)

gateVars == <<answer, recorded, cut>>

Init ==
  /\ answer = [h \in Hooks |-> "none"]
  /\ recorded = [h \in Hooks |-> "none"]
  /\ cut = {}

Answer(h) ==
  /\ h \notin cut
  /\ answer[h] = "none"
  /\ \E d \in {"allow", "deny"} : answer' = [answer EXCEPT ![h] = d]
  /\ UNCHANGED <<recorded, cut>>

Record(h) ==
  /\ h \notin cut
  /\ answer[h] # "none"
  /\ recorded[h] = "none"
  /\ recorded' = [recorded EXCEPT ![h] = answer[h]]
  /\ UNCHANGED <<answer, cut>>

Cut(h) ==
  /\ cut' = cut \cup {h}
  /\ UNCHANGED <<answer, recorded>>

Next == \E h \in Hooks : Answer(h) \/ Record(h) \/ Cut(h)

(* A call left alone is answered; its row may fail to be written. *)
Fairness == \A h \in Hooks : WF_gateVars(Answer(h))

Spec == Init /\ [][Next]_gateVars /\ Fairness

SafeSpec == Init /\ [][Next]_gateVars
=============================================================================
