----------------------------- MODULE StreamGate -----------------------------
(***************************************************************************)
(* The proxy's gate on streamed answers (internal/proxy/sse.go and         *)
(* sse_openai.go).  Server-sent events go from the LLM's API to the CLI;   *)
(* the events of a tool call are held back until the call can be decided   *)
(* by policy.yaml, then written, or replaced by a refusal.                 *)
(*                                                                         *)
(* An event is known by its number in the upstream's stream: `out` and     *)
(* `held` hold numbers, `sent` what they stand for.  One action reads one  *)
(* event and does all that the loop does with it.                          *)
(*                                                                         *)
(* External part: the upstream.  Anthropic's blocks follow each other, as  *)
(* that protocol has it; OpenAI's chunks may come in any order and be      *)
(* mixed with others.                                                      *)
(***************************************************************************)
EXTENDS FastPath, FiniteSets

CONSTANTS
  Providers,     (* of "anthropic", "openai", "gemini"                       *)
  Policies,      (* compiled policies, or Absent                             *)
  ToolNames,
  Pieces,        (* fragments of a call's JSON arguments                     *)
  Json(_),       (* the fields a sequence of pieces makes, or Broken         *)
  Text(_),       (* the text it makes                                        *)
  EmptyObject,   (* the text {}                                              *)
  MaxEvents,     (* bound: events of a stream                                *)
  MaxBlocks,     (* bound: content blocks, respectively tool calls           *)
  MaxOthers      (* bound: pings, comments and events without data           *)

ASSUME StreamAssumption ==
  /\ Providers \subseteq {"anthropic", "openai", "gemini"}
  /\ "" \notin ToolNames
  /\ MaxEvents \in Nat /\ MaxBlocks \in Nat /\ MaxOthers \in Nat

VARIABLES
  provider, policy,
  source,   (* the upstream: the open block or call, how many there were, finish sent *)
  sent,     (* history: what the gate has read                               *)
  calls,    (* the tool calls being put together: index -> [name, args]      *)
  held,     (* pendingEvents                                                 *)
  out,      (* what the client gets: [refused, ids]                          *)
  pc        (* streaming, closed (EOF or [DONE]) or failed                   *)

gate == <<calls, held, out>>
vars == <<provider, policy, source, sent, gate, pc>>

BlockStart(i, tool, name) == [kind |-> "start", index |-> i, tool |-> tool, name |-> name]
BlockDelta(i, p) == [kind |-> "delta", index |-> i, piece |-> p]
BlockStop(i) == [kind |-> "stop", index |-> i]
Chunk(delta, finish) == [kind |-> "chunk", delta |-> delta, finish |-> finish]
Other == [kind |-> "other"]       \* ping, message_start, usage, ...
Comment == [kind |-> "comment"]   \* a line that starts with a colon
Bare == [kind |-> "bare"]         \* no data, but id, event or retry; or with a comment inside

NoCalls == [i \in {} |-> 0]
NoDelta == [i \in {} |-> 0]
NewCall(name) == [name |-> name, args |-> <<>>]

-----------------------------------------------------------------------------
(* Deciding *)

InputOf(args) ==
  IF args = <<>> \/ (provider = "openai" /\ Json(args) = Broken)
  THEN [raw |-> EmptyObject, fields |-> Absent]
  ELSE [raw |-> Text(args), fields |-> Json(args)]

Denied(c) ==
  Eval(policy, [tool |-> c.name, input |-> InputOf(c.args)]).outcome = "deny"

Written(n) == [refused |-> FALSE, ids |-> {n}]
Refusal(h) == [refused |-> TRUE, ids |-> {h[i] : i \in DOMAIN h}]
AsTheyCame(h) == [i \in DOMAIN h |-> Written(h[i])]

(* Only the first call is looked at: a mutant of Decided. *)
FirstCallOnly(cs, h) ==
  IF 1 \in DOMAIN cs /\ Denied(cs[1]) THEN <<Refusal(h)>> ELSE AsTheyCame(h)

(* What becomes of the held events h of the calls cs. *)
Decided(cs, h) ==
  IF \E i \in DOMAIN cs : Denied(cs[i]) THEN <<Refusal(h)>> ELSE AsTheyCame(h)

-----------------------------------------------------------------------------
(* The loops *)

(* streamTransform and Run choose the loop. *)
Gated == policy # Absent /\ provider # "gemini"

This == Len(sent) + 1

WriteThrough == out' = Append(out, Written(This)) /\ UNCHANGED <<calls, held>>

Hold == held' = Append(held, This) /\ UNCHANGED out

(* The pending events are not reset: a mutant of Clear. *)
ClearCalls == calls' = NoCalls /\ UNCHANGED held

(* After a refusal runAnthropic leaves pendingEvents as it is until the next *)
(* tool_use starts; bufferingToolUse keeps anyone from looking at it.        *)
Clear == calls' = NoCalls /\ held' = <<>>

runAnthropic(e) ==
  \/ /\ e.kind = "start" /\ e.tool
     /\ calls' = [i \in {e.index} |-> NewCall(e.name)]
     /\ held' = <<This>> /\ UNCHANGED out
  \/ /\ e.kind = "delta" /\ e.index \in DOMAIN calls
     /\ calls' = [calls EXCEPT ![e.index].args = Append(@, e.piece)]
     /\ Hold
  \/ /\ e.kind = "stop" /\ e.index \in DOMAIN calls
     /\ out' = out \o Decided(calls, Append(held, This))
     /\ Clear
  \/ /\ e.kind \in {"delta", "stop"} /\ e.index \notin DOMAIN calls
     /\ WriteThrough
  \/ /\ (e.kind = "start" /\ ~e.tool) \/ e.kind = "other"
     /\ IF calls # NoCalls THEN Hold /\ UNCHANGED calls ELSE WriteThrough

(* Later chunks, which carry no name, take it away: a mutant of absorbOpenAIChunk. *)
LastName(cs, d) ==
  [i \in DOMAIN cs \cup DOMAIN d |->
     IF i \notin DOMAIN d THEN cs[i]
     ELSE [name |-> d[i].name,
           args |-> IF i \in DOMAIN cs THEN cs[i].args \o d[i].args ELSE d[i].args]]

absorbOpenAIChunk(cs, d) ==
  [i \in DOMAIN cs \cup DOMAIN d |->
     LET old == IF i \in DOMAIN cs THEN cs[i] ELSE NewCall("") IN
     IF i \notin DOMAIN d THEN old
     ELSE [name |-> IF d[i].name # "" THEN d[i].name ELSE old.name,
           args |-> old.args \o d[i].args]]

IsCallChunk(e) == e.kind = "chunk" /\ e.delta # NoDelta

runOpenAI(e) ==
  \/ /\ IsCallChunk(e) /\ ~e.finish
     /\ calls' = absorbOpenAIChunk(calls, e.delta)
     /\ Hold
  \/ /\ IsCallChunk(e) /\ e.finish
     /\ out' = out \o Decided(absorbOpenAIChunk(calls, e.delta), Append(held, This))
     /\ Clear
  \/ /\ ~IsCallChunk(e)
     /\ out' = Append(out \o Decided(calls, held), Written(This))
     /\ Clear

(* A comment overtakes what is held, and an event that comes to the loops   *)
(* without data is dropped by both.                                         *)
Handle(e) ==
  /\ pc = "streaming" /\ Len(sent) < MaxEvents
  /\ \/ (~Gated \/ e = Comment) /\ WriteThrough
     \/ Gated /\ e = Bare /\ UNCHANGED gate
     \/ Gated /\ e \notin {Comment, Bare} /\ provider = "anthropic" /\ runAnthropic(e)
     \/ Gated /\ e \notin {Comment, Bare} /\ provider = "openai" /\ runOpenAI(e)
  /\ sent' = Append(sent, e)
  /\ UNCHANGED <<provider, policy, pc>>

(* The stream ends and the held events go with it: a mutant of AtEnd. *)
DropAtEnd == UNCHANGED out

AtEnd == out' = out \o AsTheyCame(held)

(* EOF, or OpenAI's [DONE]: what was not decided is written. *)
End ==
  /\ pc = "streaming"
  /\ AtEnd /\ Clear
  /\ pc' = "closed"
  /\ UNCHANGED <<provider, policy, source, sent>>

(* Reading or writing fails; the client's connection is closed. *)
Fail ==
  /\ pc = "streaming"
  /\ pc' = "failed"
  /\ UNCHANGED <<provider, policy, source, sent, gate>>

-----------------------------------------------------------------------------
(* The upstream *)

StartBlock ==
  /\ provider = "anthropic" /\ source.open = 0 /\ source.blocks < MaxBlocks
  /\ LET i == source.blocks + 1 IN
       /\ \/ \E name \in ToolNames : Handle(BlockStart(i, TRUE, name))
          \/ Handle(BlockStart(i, FALSE, ""))
       /\ source' = [source EXCEPT !.open = i, !.blocks = i]

DeltaOfBlock ==
  /\ provider = "anthropic" /\ source.open # 0
  /\ \E p \in Pieces : Handle(BlockDelta(source.open, p))
  /\ UNCHANGED source

StopBlock ==
  /\ provider = "anthropic" /\ source.open # 0
  /\ Handle(BlockStop(source.open))
  /\ source' = [source EXCEPT !.open = 0]

(* More of the last call. *)
MoreOfCall ==
  /\ provider = "openai" /\ source.open # 0 /\ ~source.done
  /\ \E p \in Pieces, finish \in BOOLEAN :
       /\ Handle(Chunk([i \in {source.open} |-> [name |-> "", args |-> <<p>>]], finish))
       /\ source' = [source EXCEPT !.done = finish]

(* The first chunk of one call, or of several at once. *)
NewCalls ==
  /\ provider = "openai" /\ ~source.done
  /\ \E last \in source.blocks + 1 .. MaxBlocks, name \in ToolNames, finish \in BOOLEAN :
       \E args \in {<<>>} \cup {<<p>> : p \in Pieces} :
         /\ Handle(Chunk([i \in source.blocks + 1 .. last |-> [name |-> name, args |-> args]],
                         finish))
         /\ source' = [open |-> last, blocks |-> last, done |-> finish]

(* A chunk of text, or the finish_reason alone. *)
OtherChunk ==
  /\ provider = "openai" /\ ~source.done
  /\ \E finish \in BOOLEAN :
       /\ Handle(Chunk(NoDelta, finish))
       /\ source' = [source EXCEPT !.done = finish]

OtherEvent ==
  /\ Cardinality({n \in DOMAIN sent : sent[n] \in {Other, Comment, Bare}}) < MaxOthers
  /\ \E e \in {Other, Comment, Bare} : Handle(e)
  /\ UNCHANGED source

-----------------------------------------------------------------------------
Init ==
  /\ provider \in Providers
  /\ policy \in Policies
  /\ source = [open |-> 0, blocks |-> 0, done |-> FALSE]
  /\ sent = <<>>
  /\ calls = NoCalls
  /\ held = <<>>
  /\ out = <<>>
  /\ pc = "streaming"

Upstream ==
  \/ StartBlock \/ DeltaOfBlock \/ StopBlock
  \/ MoreOfCall \/ NewCalls \/ OtherChunk
  \/ OtherEvent

Next == Upstream \/ End \/ Fail

Spec == Init /\ [][Next]_vars

-----------------------------------------------------------------------------
(* Properties *)

(* The values each variable takes; something is held only for the sake of a *)
(* call that is not decided yet.                                            *)
TypeOK ==
  /\ provider \in Providers /\ policy \in Policies
  /\ source \in [open : 0..MaxBlocks, blocks : 0..MaxBlocks, done : BOOLEAN]
  /\ Len(sent) <= MaxEvents
  /\ DOMAIN calls \subseteq 1..MaxBlocks
  /\ \A i \in DOMAIN calls : calls[i] \in [name : ToolNames \cup {""}, args : Seq(Pieces)]
  /\ held \in Seq(DOMAIN sent)
  /\ out \in Seq([refused : BOOLEAN, ids : SUBSET DOMAIN sent])
  /\ pc \in {"streaming", "closed", "failed"}
  /\ held # <<>> => calls # NoCalls

IsComment(n) == sent[n] = Comment

(* What the loops drop: events without data. *)
Dropped == {n \in DOMAIN sent : Gated /\ sent[n] = Bare}

(* Every event read that has data is at any time written, held or replaced  *)
(* by a refusal, exactly one of the three, in the order of the upstream but *)
(* for comments; and a stream that ends leaves nothing behind.  An event    *)
(* without data, or with a comment line inside its block, is none of the    *)
(* three: a gated stream loses it, though the comment on streamingTransform *)
(* has everything but denied calls "passed through unchanged".              *)
NothingLostOrReordered ==
  /\ (UNION {out[k].ids : k \in DOMAIN out}) \cup {held[k] : k \in DOMAIN held}
       = DOMAIN sent \ Dropped
  /\ \A k, l \in DOMAIN out : k < l =>
       \A m \in out[k].ids, n \in out[l].ids : m < n \/ (m # n /\ (IsComment(m) \/ IsComment(n)))
  /\ \A k \in DOMAIN out, l \in DOMAIN held :
       \A m \in out[k].ids : m < held[l] \/ (m # held[l] /\ IsComment(m))
  /\ pc = "closed" => held = <<>>

(* The tool calls of the upstream, as the whole of `sent` shows them. *)
BelongsTo(n, i) ==
  \/ sent[n].kind \in {"start", "delta", "stop"} /\ sent[n].index = i
  \/ sent[n].kind = "chunk" /\ i \in DOMAIN sent[n].delta

EventsOf(i) == {n \in DOMAIN sent : BelongsTo(n, i)}

IsToolCall(i) ==
  \E n \in EventsOf(i) : sent[n].kind = "chunk" \/ (sent[n].kind = "start" /\ sent[n].tool)

PieceIn(n, i) ==
  IF n \notin EventsOf(i) THEN <<>>
  ELSE CASE sent[n].kind = "chunk" -> sent[n].delta[i].args
         [] sent[n].kind = "delta" -> <<sent[n].piece>>
         [] OTHER                  -> <<>>

ArgsOf(i) ==
  LET upTo[n \in 0..Len(sent)] == IF n = 0 THEN <<>> ELSE upTo[n - 1] \o PieceIn(n, i)
  IN  upTo[Len(sent)]

NameOf(i) ==
  LET first == CHOOSE n \in EventsOf(i) : \A m \in EventsOf(i) : n <= m
  IN  IF sent[first].kind = "chunk" THEN sent[first].delta[i].name ELSE sent[first].name

WholeCall(i) == [name |-> NameOf(i), args |-> ArgsOf(i)]

(* OpenAI's calls, when no other chunk comes between their chunks. *)
Contiguous ==
  \A m, n \in DOMAIN sent : \A k \in m..n :
    IsCallChunk(sent[m]) /\ IsCallChunk(sent[n]) => (IsCallChunk(sent[k]) \/ sent[k] \in {Comment, Bare})

Complete(i) ==
  /\ IsToolCall(i)
  /\ \/ \E n \in EventsOf(i) : sent[n].kind = "stop"
     \/ provider = "openai" /\ source.done /\ Contiguous

Delivered(i) == \A n \in EventsOf(i) : \E k \in DOMAIN out : out[k] = Written(n)

(* A tool call that the policy denies on its whole arguments does not reach *)
(* the client as a whole, however its arguments were cut into pieces and    *)
(* whatever came in between.  An OpenAI call interrupted by other chunks is *)
(* decided on less than the whole (see the README).                         *)
DenyHolds ==
  \A i \in 1..MaxBlocks : (Gated /\ Complete(i) /\ Denied(WholeCall(i))) => ~Delivered(i)

(* A refusal takes nothing but the events of tool calls and the pings       *)
(* between them, and no call is refused, or held any longer, once it is     *)
(* complete and nothing it was sent with is denied.                         *)
NothingElseIsRefused ==
  /\ \A k \in DOMAIN out : out[k].refused =>
       \A n \in out[k].ids : sent[n] = Other \/ (\E i \in 1..MaxBlocks : BelongsTo(n, i) /\ IsToolCall(i))
  /\ \A i \in 1..MaxBlocks :
       Complete(i) /\ ~Denied(WholeCall(i)) =>
         \/ Delivered(i)
         \/ (provider = "openai" /\ \E j \in 1..MaxBlocks : Complete(j) /\ Denied(WholeCall(j)))
=============================================================================
