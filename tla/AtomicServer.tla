---------------------------- MODULE AtomicServer ----------------------------
(***************************************************************************)
(* What a client of `arbiter mcp` can rely on (internal/mcp/server.go): as *)
(* far as it can see, its lines are carried out one at a time and in their *)
(* order, each in one instant, at which check_rule sees rules.md as it is, *)
(* a cache of it or not; and after SIGINT or SIGTERM at most one more line *)
(* gets its response.  Only a change that gives rules.md a modification    *)
(* time it had before lifts the promise about check_rule.                  *)
(***************************************************************************)
EXTENDS Naturals, Sequences

CONSTANTS
  Lines, Files,     (* the client's lines, and the states of rules.md       *)
  Contents, Broken, (* of rules.md; Broken does not parse                   *)
  None              (* no rules.md                                          *)

VARIABLES
  sent,             (* the lines the client wrote                           *)
  closed, deaf,     (* it closed stdin; it no longer reads the responses    *)
  done,             (* lines that are over and done with                    *)
  settled,          (* {} or the answer to the next line, as a singleton    *)
  out,              (* the responses, [to, answer]                          *)
  quota,            (* lines that may be finished: "any", "one" or "none"   *)
  file,             (* rules.md                                             *)
  seen, reused      (* times it has had; one of them came back              *)

client == <<sent, closed, deaf>>
rules == <<file, seen, reused>>
serverVars == <<client, done, settled, out, quota, rules>>

Owed(line) == line.id \/ line.call = "garbage"

(* What check_rule says of rules.md. *)
Verdict(f) == IF f = None \/ f.content = Broken THEN "tool error" ELSE f.content

Outcomes(line) ==
  CASE line.call = "garbage" -> {"parse error"}
    [] line.call = "plain"   -> {"result"}
    [] line.call = "failing" -> {"tool error"}
    [] line.call = "refused" -> {"protocol error"}
    [] line.call = "check"   -> IF reused THEN {"tool error"} \cup (Contents \ {Broken})
                                ELSE {Verdict(file)}
    [] OTHER                 -> {"result", "tool error"}

Init ==
  /\ sent = <<>> /\ closed = FALSE /\ deaf = FALSE
  /\ done = 0 /\ settled = {} /\ out = <<>> /\ quota = "any"
  /\ file \in Files
  /\ seen = IF file = None THEN {} ELSE {file.mtime}
  /\ reused = FALSE

Ask ==
  /\ ~closed /\ \E line \in Lines : sent' = Append(sent, line)
  /\ UNCHANGED <<closed, deaf, done, settled, out, quota, rules>>

Leave ==
  /\ closed' = TRUE /\ deaf' \in {deaf, TRUE}
  /\ UNCHANGED <<sent, done, settled, out, quota, rules>>

Edit ==
  /\ file' \in Files
  /\ seen' = IF file' = None THEN seen ELSE seen \cup {file'.mtime}
  /\ reused' = (reused \/ (file' # None /\ file'.mtime \in seen))
  /\ UNCHANGED <<client, done, settled, out, quota>>

(* The instant at which the next line is carried out. *)
CarryOut ==
  /\ quota # "none" /\ settled = {} /\ done < Len(sent)
  /\ \E answer \in Outcomes(sent[done + 1]) : settled' = {answer}
  /\ UNCHANGED <<client, done, out, quota, rules>>

Finish ==
  /\ quota # "none" /\ settled # {}
  /\ done' = done + 1
  /\ settled' = {}
  /\ IF Owed(sent[done']) THEN \E answer \in settled :
                                  out' = Append(out, [to |-> done', answer |-> answer])
     ELSE out' = out
  /\ quota' = IF quota = "one" THEN "none" ELSE quota
  /\ UNCHANGED <<client, rules>>

Signal ==
  /\ quota = "any" /\ quota' \in {"one", "none"}
  /\ quota' = "none" => settled = {}
  /\ UNCHANGED <<client, done, settled, out, rules>>

(* All is done, or nobody is there to be told the rest. *)
End ==
  /\ deaf \/ (closed /\ done = Len(sent))
  /\ quota' = "none" /\ settled' = {}
  /\ UNCHANGED <<client, done, out, rules>>

Next == Ask \/ Leave \/ Edit \/ CarryOut \/ Finish \/ Signal \/ End

(* A line is carried out in the end; delegate_to may wait for its child for  *)
(* as long as nobody cancels it.                                            *)
Prompt == quota = "one" \/ sent[done + 1].call # "delegate"

SafeSpec == Init /\ [][Next]_serverVars

Spec == SafeSpec /\ WF_serverVars(CarryOut /\ Prompt) /\ WF_serverVars(Finish)
=============================================================================
