----------------------------- MODULE McpServer -----------------------------
(***************************************************************************)
(* `arbiter mcp`: the JSON-RPC loop over stdin and stdout                  *)
(* (internal/mcp/server.go), the tool registry behind it, and the one tool *)
(* that keeps state from call to call, check_rule with its cache of        *)
(* rules.md (internal/config/cache.go), while the client writes ahead,     *)
(* closes either pipe or sends a signal, and the user edits rules.md.      *)
(*                                                                         *)
(* Abstraction.  A line is what the loop tells apart: garbage, or a call   *)
(* with an id or without one.  The calls are named after what they do:     *)
(* "plain" for initialize, ping, tools/list and the tools that keep no     *)
(* state; "failing" for a tool that returns an error, or that nobody knows;*)
(* "refused" for an unknown method or parameters that do not parse;        *)
(* "check" for check_rule; "escalate" and "delegate" for the tools that wait,  *)
(* for a human with a deadline and for a child without one.  A last line   *)
(* without its newline is read like any other.  A content of rules.md      *)
(* stands for what check_rule finds in it.  Once the server has ended      *)
(* nothing is followed any more.                                           *)
(***************************************************************************)
EXTENDS Naturals, Sequences, FiniteSets

CONSTANTS
  Calls,        (* the calls the client makes, of those above               *)
  Notified,     (* bound: those of them it makes without an id as well      *)
  Contents,     (* of rules.md, among them Broken                           *)
  Broken,       (* front matter that does not parse                         *)
  Times,        (* modification times                                       *)
  Start,        (* bound: rules.md when the server starts, [mtime, content] *)
                (* or None                                                  *)
  None,
  MaxSent,      (* bound: lines the client writes                           *)
  MaxEdits      (* bound: changes to rules.md                               *)

ASSUME McpAssumption ==
  /\ Calls \subseteq {"plain", "failing", "refused", "check", "escalate", "delegate"}
  /\ Notified \subseteq Calls
  /\ Broken \in Contents /\ None \notin Contents /\ None \notin Times
  /\ Contents \cap {"parse error", "result", "protocol error", "tool error"} = {}
  /\ IsFiniteSet(Times) /\ Start \subseteq [mtime: Times, content: Contents] \cup {None}
  /\ MaxSent \in Nat /\ MaxEdits \in Nat

Garbage == [call |-> "garbage", id |-> FALSE]
Lines == [call: Calls, id: {TRUE}] \cup [call: Notified, id: {FALSE}] \cup {Garbage}
Files == [mtime: Times, content: Contents] \cup {None}

VARIABLES
  sent,        (* the lines the client wrote                                *)
  closed,      (* it closed stdin                                           *)
  deaf,        (* it closed its end of stdout, or died                      *)
  cancelled,   (* SIGINT or SIGTERM                                         *)
  pc,
  taken,       (* lines read                                                *)
  late,        (* history: lines read after the signal                      *)
  reply,       (* what the handler returned                                 *)
  out,         (* the responses, [to, answer], `to` the number of the line  *)
  file,        (* rules.md: [mtime, content], or None                       *)
  cache,       (* its cache entry: [mtime, content], or None                *)
  mtime,       (* what LoadRules' own stat said                             *)
  edits,
  seen,        (* history: modification times rules.md has had              *)
  reused,      (* history: a change gave it one of them again               *)
  during       (* history: what it was since the call at hand began, {} when *)
               (* there is none                                              *)

client == <<sent, closed, deaf, cancelled>>
rules == <<file, edits, seen, reused>>
vars == <<client, pc, taken, late, reply, out, rules, cache, mtime, during>>

-----------------------------------------------------------------------------
(* The client and the user *)

Send(line) ==
  /\ pc # "ended" /\ ~closed /\ Len(sent) < MaxSent
  /\ sent' = Append(sent, line)
  /\ UNCHANGED <<closed, deaf, cancelled, pc, taken, late, reply, out, rules, cache, mtime, during>>

CloseStdin ==
  /\ pc # "ended" /\ ~closed /\ closed' = TRUE
  /\ UNCHANGED <<sent, deaf, cancelled, pc, taken, late, reply, out, rules, cache, mtime, during>>

Die ==
  /\ pc # "ended" /\ ~deaf /\ deaf' = TRUE /\ closed' = TRUE
  /\ UNCHANGED <<sent, cancelled, pc, taken, late, reply, out, rules, cache, mtime, during>>

Cancel ==
  /\ pc # "ended" /\ ~cancelled /\ cancelled' = TRUE
  /\ UNCHANGED <<sent, closed, deaf, pc, taken, late, reply, out, rules, cache, mtime, during>>

(* An edit, a copy with its old time, a deletion; an editor that truncates  *)
(* the file and then writes it makes two of them.                           *)
Edit(new) ==
  /\ pc # "ended" /\ edits < MaxEdits /\ new # file
  /\ file' = new
  /\ edits' = edits + 1
  /\ seen' = IF new = None THEN seen ELSE seen \cup {new.mtime}
  /\ reused' = (reused \/ (new # None /\ new.mtime \in seen))
  /\ during' = IF during = {} THEN {} ELSE during \cup {new}
  /\ UNCHANGED <<client, pc, taken, late, reply, out, cache, mtime>>

-----------------------------------------------------------------------------
(* The loop (ServeStdio) *)

Line == sent[taken]
Go(label) == pc' = label

(* A loop that never looks: a mutant. *)
NeverLook ==
  /\ pc = "loop" /\ Go("read")
  /\ UNCHANGED <<client, taken, late, reply, out, rules, cache, mtime, during>>

(* The context is looked at between two lines only. *)
CheckContext ==
  /\ pc = "loop"
  /\ Go(IF cancelled THEN "ended" ELSE "read")
  /\ UNCHANGED <<client, taken, late, reply, out, rules, cache, mtime, during>>

Take ==
  /\ taken < Len(sent)
  /\ taken' = taken + 1
  /\ late' = IF cancelled THEN late + 1 ELSE late
  /\ during' = {file}
  /\ UNCHANGED <<client, reply, out, rules, cache, mtime>>

Read == pc = "read" /\ Take /\ Go("handle")

EndOfInput ==
  /\ pc = "read" /\ taken = Len(sent) /\ closed
  /\ Go("ended")
  /\ UNCHANGED <<client, taken, late, reply, out, rules, cache, mtime, during>>

Answer(answer) ==
  /\ reply' = answer
  /\ mtime' = None
  /\ Go("reply")
  /\ UNCHANGED <<client, taken, late, out, rules, cache, during>>

(* handle, handleToolCall and Registry.Execute, with an id or without. *)
AnswerTo(call) ==
  CASE call = "garbage" -> "parse error"
    [] call = "plain"   -> "result"
    [] call = "failing" -> "tool error"
    [] call = "refused" -> "protocol error"

Handle ==
  /\ pc = "handle" /\ Line.call \in {"garbage", "plain", "failing", "refused"}
  /\ Answer(AnswerTo(Line.call))

(* escalate_to_user and delegate_to hold the loop until they are through.   *)
Wait ==
  /\ pc = "handle" /\ Line.call \in {"escalate", "delegate"}
  /\ Go("wait")
  /\ UNCHANGED <<client, taken, late, reply, out, rules, cache, mtime, during>>

ToolEnds == pc = "wait" /\ \E answer \in {"result", "tool error"} : Answer(answer)

(* A parse error is answered with no id, and its write error is ignored: the *)
(* next write has it again, or SIGPIPE ends the process at once.             *)
WriteOut ==
  IF deaf THEN Go("ended") /\ out' = out
  ELSE Go("loop") /\ out' = Append(out, [to |-> taken, answer |-> reply])

(* The handler's answer to a notification goes out as well: a mutant. *)
ReplyToAll ==
  /\ pc = "reply"
  /\ WriteOut
  /\ reply' = None /\ during' = {}
  /\ UNCHANGED <<client, taken, late, rules, cache, mtime>>

Reply ==
  /\ pc = "reply"
  /\ IF Line.id \/ Line = Garbage THEN WriteOut ELSE Go("loop") /\ out' = out
  /\ reply' = None /\ during' = {}
  /\ UNCHANGED <<client, taken, late, rules, cache, mtime>>

-----------------------------------------------------------------------------
(* check_rule: CachedLoadRules *)

(* The cache is stale only if the file is newer: a mutant of Hit. *)
HitUnlessNewer == cache # None /\ cache.mtime >= file.mtime

Hit == cache # None /\ cache.mtime = file.mtime

(* The cache answers for a file that is gone: a mutant of GetCached. *)
ServeDeleted ==
  /\ pc = "handle" /\ Line.call = "check"
  /\ IF cache # None /\ (file = None \/ cache.mtime = file.mtime)
     THEN Answer(cache.content)
     ELSE Go("load") /\ UNCHANGED <<client, taken, late, reply, out, rules, cache, mtime, during>>

GetCached ==
  /\ pc = "handle" /\ Line.call = "check"
  /\ CASE file = None -> Answer("tool error")
       [] file # None /\ Hit -> Answer(cache.content)
       [] OTHER -> Go("load")
                     /\ UNCHANGED <<client, taken, late, reply, out, rules, cache, mtime, during>>

(* LoadRules looks at the file again before it reads it. *)
StatAgain ==
  /\ pc = "load"
  /\ IF file = None THEN Answer("tool error")
     ELSE /\ mtime' = file.mtime
          /\ Go("content")
          /\ UNCHANGED <<client, taken, late, reply, out, rules, cache, during>>

(* What was read is stored before it is known to parse: a mutant. *)
StoreUnparsed ==
  /\ pc = "content"
  /\ IF file = None THEN Answer("tool error")
     ELSE /\ cache' = [mtime |-> mtime, content |-> file.content]
          /\ reply' = IF file.content = Broken THEN "tool error" ELSE file.content
          /\ mtime' = None
          /\ Go("reply")
          /\ UNCHANGED <<client, taken, late, out, rules, during>>

ReadAndStore ==
  /\ pc = "content"
  /\ IF file = None \/ file.content = Broken THEN Answer("tool error")
     ELSE /\ cache' = [mtime |-> mtime, content |-> file.content]
          /\ reply' = file.content
          /\ mtime' = None
          /\ Go("reply")
          /\ UNCHANGED <<client, taken, late, out, rules, during>>

-----------------------------------------------------------------------------
Init ==
  /\ sent = <<>>
  /\ closed = FALSE /\ deaf = FALSE /\ cancelled = FALSE
  /\ pc = "loop"
  /\ taken = 0 /\ late = 0
  /\ reply = None
  /\ out = <<>>
  /\ file \in Start
  /\ cache = None /\ mtime = None
  /\ edits = 0
  /\ seen = IF file = None THEN {} ELSE {file.mtime}
  /\ reused = FALSE
  /\ during = {}

Serve ==
  \/ CheckContext \/ Read \/ EndOfInput \/ Handle \/ Wait \/ Reply
  \/ GetCached \/ StatAgain \/ ReadAndStore

Next ==
  \/ Serve \/ ToolEnds
  \/ \E line \in Lines : Send(line)
  \/ CloseStdin \/ Die \/ Cancel
  \/ \E new \in Files : Edit(new)

(* A question to the human has its deadline, and both tools stop when the   *)
(* context is done; a child that nobody cancels may run for ever.           *)
Spec ==
  /\ Init /\ [][Next]_vars
  /\ WF_vars(Serve)
  /\ WF_vars(ToolEnds /\ (cancelled \/ Line.call = "escalate"))

-----------------------------------------------------------------------------
(* Properties *)

Answers == {"parse error", "result", "protocol error", "tool error"} \cup Contents

TypeOK ==
  /\ sent \in Seq(Lines) /\ Len(sent) <= MaxSent
  /\ closed \in BOOLEAN /\ deaf \in BOOLEAN /\ cancelled \in BOOLEAN
  /\ pc \in {"loop", "read", "handle", "wait", "load", "content", "reply", "ended"}
  /\ taken \in 0..Len(sent)
  /\ pc \in {"handle", "wait", "load", "content", "reply"} => taken > 0
  /\ late \in 0..taken
  /\ reply \in Answers \cup {None}
  /\ out \in Seq([to: 1..taken, answer: Answers])
  /\ file \in Files
  /\ cache \in Files /\ (cache # None => cache.content # Broken)
  /\ mtime \in Times \cup {None}
  /\ edits \in 0..MaxEdits
  /\ seen \subseteq Times
  /\ reused \in BOOLEAN
  /\ during \subseteq Files

(* The responses are the answers to the lines read, one each and in their    *)
(* order: none to a notification, though it was carried out, and one to a    *)
(* line that did not parse, after which the server goes on.  Only the last   *)
(* line read may lack its answer, while it is at work or because the client  *)
(* stopped listening.                                                        *)
Owed(line) == line.id \/ line = Garbage
Answered(i) == \E k \in DOMAIN out : out[k].to = i
AtWork == pc \in {"handle", "wait", "load", "content", "reply"}

MayAnswer(line) ==
  IF line.call \in {"garbage", "plain", "failing", "refused"} THEN {AnswerTo(line.call)}
  ELSE IF line.call = "check" THEN {"tool error"} \cup (Contents \ {Broken})
  ELSE {"result", "tool error"}

AnsweredInOrder ==
  /\ \A k, l \in DOMAIN out : k < l => out[k].to < out[l].to
  /\ \A k \in DOMAIN out :
       Owed(sent[out[k].to]) /\ out[k].answer \in MayAnswer(sent[out[k].to])
  /\ \A i \in 1..taken :
       Owed(sent[i]) /\ ~Answered(i) => i = taken /\ (AtWork \/ (pc = "ended" /\ deaf))

(* After the signal the server carries out one more line at most.           *)
StopsAfterOne == late <= 1

(* What check_rule answers is what rules.md said at some moment of the call, *)
(* a failure only if it was missing or broken then, however it was edited    *)
(* between the looks at it, unless a change gave it a time it had before.    *)
FreshUnlessTimesCollide ==
  pc = "reply" /\ Line.call = "check" /\ ~reused =>
    IF reply = "tool error"
    THEN \E f \in during : f = None \/ f.content = Broken
    ELSE \E f \in during : f # None /\ f.content = reply

(* The mapping to AtomicServer: a line is done when it was carried out and   *)
(* answered; the one whose response nobody took is not.                     *)
Unanswered == taken > 0 /\ Owed(Line) /\ ~Answered(taken)

Done == IF AtWork \/ (pc = "ended" /\ Unanswered) THEN taken - 1 ELSE taken

Settled == IF pc = "reply" THEN {reply} ELSE {}

Quota ==
  IF pc = "ended" \/ (pc = "loop" /\ cancelled) THEN "none"
  ELSE IF cancelled THEN "one" ELSE "any"

Atomic == INSTANCE AtomicServer WITH done <- Done, settled <- Settled, quota <- Quota

(* To its client the server carries out one line after the other, each in one *)
(* instant, with check_rule seeing rules.md of that instant; and a request   *)
(* is answered in the end unless the server ended, or delegate_to holds it,  *)
(* whose child has no deadline.                                             *)
ServerIsAtomic == Atomic!Spec
=============================================================================
