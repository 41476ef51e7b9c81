-------------------------- MODULE McpServerProofs --------------------------
(***************************************************************************)
(* Proofs about McpServer, for any client, any edits of rules.md and any   *)
(* bounds: the types, that every line is answered in order and once, that  *)
(* the server stops after one more line, and that check_rule's answer was  *)
(* true at some moment of its call.                                        *)
(***************************************************************************)
EXTENDS McpServer, SequenceTheorems, TLAPS

-----------------------------------------------------------------------------
(* The inductive invariant *)

(* A line is late when it was read after the signal, and none is read once  *)
(* the loop has looked at the context again.                                *)
LateInv ==
  /\ ~cancelled => late = 0
  /\ pc = "read" => late = 0
  /\ late <= 1

(* Only the tools that wait wait, only check_rule loads, and what is written *)
(* is an answer.                                                            *)
WaitInv ==
  /\ pc = "wait" => Line.call \in {"escalate", "delegate"}
  /\ pc \in {"load", "content"} => Line.call = "check"
  /\ pc = "reply" => reply \in Answers

(* rules.md, the cache entry and the stat at hand have times that were seen, *)
(* and the call at hand has seen the present rules.md.                       *)
SeenInv ==
  /\ file # None => file.mtime \in seen
  /\ cache # None => cache.mtime \in seen
  /\ mtime # None => mtime \in seen
  /\ pc = "content" => mtime # None
  /\ pc \in {"handle", "wait", "load", "content", "reply"} => file \in during

(* The entry is what the file says that has the entry's time, though it may  *)
(* be the content of a later file under the time of an earlier one.         *)
CacheInv ==
  ~reused /\ cache # None /\ file # None /\ cache.mtime = file.mtime =>
    cache.content = file.content

IInv == TypeOK /\ LateInv /\ WaitInv /\ SeenInv /\ CacheInv /\ FreshUnlessTimesCollide

(* At the start nothing is read, and nothing is cached. *)
LEMMA InitIInv == Init => IInv
<1> SUFFICES ASSUME Init PROVE IInv
  OBVIOUS
<1>1. file \in Files /\ (file # None => file.mtime \in Times) /\ edits = 0
  BY McpAssumption DEF Init, Files
<1>2. sent = <<>> /\ out = <<>> /\ taken = 0 /\ late = 0 /\ cache = None /\ mtime = None
  BY DEF Init
<1>3. /\ sent \in Seq(Lines) /\ Len(sent) = 0
      /\ out \in Seq([to: 1..taken, answer: Answers])
  BY <1>2, EmptySeq
<1>4. TypeOK
  <2>1. taken \in 0..Len(sent) /\ late \in 0..taken
    BY <1>2, <1>3
  <2>5. Len(sent) <= MaxSent /\ edits \in 0..MaxEdits
    <3>1. MaxSent \in Nat /\ MaxEdits \in Nat
      BY McpAssumption
    <3> QED BY <1>1, <1>3, <3>1
  <2>2. cache \in Files /\ mtime \in Times \cup {None} /\ reply \in Answers \cup {None}
    BY <1>2 DEF Init, Files
  <2>3. seen \subseteq Times /\ during \subseteq Files
    BY <1>1 DEF Init
  <2> QED BY <1>1, <1>2, <1>3, <2>1, <2>2, <2>3, <2>5 DEF Init, TypeOK
<1>5. LateInv /\ WaitInv /\ CacheInv /\ FreshUnlessTimesCollide
  <2>1. pc = "loop"
    BY DEF Init
  <2>2. LateInv
    BY <1>2, <2>1 DEF LateInv
  <2>3. WaitInv /\ FreshUnlessTimesCollide
    BY <2>1 DEF WaitInv, FreshUnlessTimesCollide
  <2>4. CacheInv
    BY <1>2 DEF CacheInv
  <2> QED BY <2>2, <2>3, <2>4
<1>6. SeenInv
  BY <1>2 DEF Init, SeenInv
<1> QED BY <1>4, <1>5, <1>6 DEF IInv

(* A line that was taken is a line. *)
LEMMA LineType ==
  ASSUME TypeOK, taken > 0
  PROVE  Line \in Lines
BY DEF TypeOK, Line

-----------------------------------------------------------------------------
(* The client and the user *)

(* What the client does leaves the lines that were read as they are. *)
LEMMA ClientStep ==
  ASSUME IInv, (\E line \in Lines : Send(line)) \/ CloseStdin \/ Die \/ Cancel
  PROVE  IInv'
<1>1. UNCHANGED <<pc, taken, late, reply, out, rules, cache, mtime, during>>
  BY DEF Send, CloseStdin, Die, Cancel
<1>2. /\ sent' \in Seq(Lines) /\ Len(sent') <= MaxSent /\ Len(sent') >= Len(sent)
      /\ \A i \in 1..Len(sent) : sent'[i] = sent[i]
  <2>1. CASE \E line \in Lines : Send(line)
    <3>1. PICK line \in Lines : Len(sent) < MaxSent /\ sent' = Append(sent, line)
      BY <2>1 DEF Send
    <3>2. sent \in Seq(Lines) /\ Len(sent) \in Nat
      BY DEF IInv, TypeOK
    <3>3. /\ sent' \in Seq(Lines) /\ Len(sent') = Len(sent) + 1
          /\ \A i \in 1..Len(sent) : sent'[i] = sent[i]
      BY <3>1, <3>2, AppendProperties
    <3>4. MaxSent \in Nat
      BY McpAssumption
    <3> QED BY <3>1, <3>2, <3>3, <3>4
  <2>2. CASE CloseStdin \/ Die \/ Cancel
    BY <2>2 DEF IInv, TypeOK, CloseStdin, Die, Cancel
  <2> QED BY <2>1, <2>2
<1>3. closed' \in BOOLEAN /\ deaf' \in BOOLEAN /\ cancelled' \in BOOLEAN
  BY DEF IInv, TypeOK, Send, CloseStdin, Die, Cancel
<1>4. cancelled => cancelled'
  BY DEF Send, CloseStdin, Die, Cancel
<1>5. TypeOK'
  BY <1>1, <1>2, <1>3 DEF IInv, TypeOK, rules
<1>6. taken > 0 => Line' = Line
  BY <1>1, <1>2 DEF IInv, TypeOK, Line
<1>7. LateInv'
  BY <1>1, <1>4 DEF IInv, LateInv
<1>8. WaitInv'
  BY <1>1, <1>6 DEF IInv, TypeOK, WaitInv
<1>9. SeenInv' /\ CacheInv'
  BY <1>1 DEF IInv, SeenInv, CacheInv, rules
<1>10. FreshUnlessTimesCollide'
  BY <1>1, <1>6 DEF IInv, TypeOK, FreshUnlessTimesCollide, rules
<1> QED BY <1>5, <1>7, <1>8, <1>9, <1>10 DEF IInv

(* An edit under a new time makes no entry look fresh. *)
LEMMA EditStep ==
  ASSUME IInv, NEW new \in Files, Edit(new)
  PROVE  IInv'
<1>1. /\ file' = new /\ edits' = edits + 1 /\ edits < MaxEdits
      /\ seen' = (IF new = None THEN seen ELSE seen \cup {new.mtime})
      /\ reused' = (reused \/ (new # None /\ new.mtime \in seen))
      /\ during' = (IF during = {} THEN {} ELSE during \cup {new})
      /\ UNCHANGED <<client, pc, taken, late, reply, out, cache, mtime>>
  BY DEF Edit
<1>2. Line' = Line
  BY <1>1 DEF Line, client
<1>3. TypeOK'
  <2>1. new # None => new.mtime \in Times
    BY DEF Files
  <2>2. edits' \in 0..MaxEdits
    <3>1. MaxEdits \in Nat
      BY McpAssumption
    <3>2. edits \in 0..MaxEdits
      BY DEF IInv, TypeOK
    <3> QED BY <1>1, <3>1, <3>2
  <2>3. seen' \subseteq Times /\ reused' \in BOOLEAN /\ during' \subseteq Files
    <3>1. seen' \subseteq Times
      BY <1>1, <2>1 DEF IInv, TypeOK
    <3>2. reused' \in BOOLEAN
      BY <1>1 DEF IInv, TypeOK
    <3>3. during' \subseteq Files
      BY <1>1 DEF IInv, TypeOK
    <3> QED BY <3>1, <3>2, <3>3
  <2> QED BY <1>1, <2>2, <2>3 DEF IInv, TypeOK, client
<1>4. LateInv' /\ WaitInv'
  BY <1>1, <1>2 DEF IInv, LateInv, WaitInv, client
<1>5. SeenInv'
  BY <1>1 DEF IInv, SeenInv
<1>6. CacheInv'
  BY <1>1 DEF IInv, SeenInv, CacheInv
<1>7. FreshUnlessTimesCollide'
  <2>1. during \subseteq during'
    BY <1>1
  <2> QED BY <1>1, <1>2, <2>1 DEF IInv, FreshUnlessTimesCollide
<1> QED BY <1>3, <1>4, <1>5, <1>6, <1>7 DEF IInv

-----------------------------------------------------------------------------
(* The loop *)

(* The server looks, takes a line, or starts to wait; nothing it answers is *)
(* settled by that.                                                         *)
LEMMA LoopStep ==
  ASSUME IInv, CheckContext \/ EndOfInput \/ Wait
  PROVE  IInv'
<1>1. /\ UNCHANGED <<client, taken, late, reply, out, rules, cache, mtime, during>>
      /\ pc' \in {"ended", "read", "wait"}
      /\ pc' = "read" => ~cancelled
      /\ pc' = "wait" => pc = "handle" /\ Line.call \in {"escalate", "delegate"}
  BY DEF CheckContext, EndOfInput, Wait, Go
<1>2. TypeOK'
  BY <1>1 DEF IInv, TypeOK, client, rules
<1>3. LateInv'
  BY <1>1 DEF IInv, LateInv, client
<1>4. WaitInv'
  BY <1>1 DEF IInv, WaitInv, Line, client
<1>5. SeenInv' /\ CacheInv' /\ FreshUnlessTimesCollide'
  BY <1>1 DEF IInv, SeenInv, CacheInv, FreshUnlessTimesCollide, rules
<1> QED BY <1>2, <1>3, <1>4, <1>5 DEF IInv

(* A line is taken only after a look at the context that found no signal. *)
LEMMA ReadStep ==
  ASSUME IInv, Read
  PROVE  IInv'
<1>1. /\ pc = "read" /\ pc' = "handle" /\ taken < Len(sent) /\ taken' = taken + 1
      /\ late' = IF cancelled THEN late + 1 ELSE late
      /\ during' = {file}
      /\ UNCHANGED <<client, reply, out, rules, cache, mtime>>
  BY DEF Read, Take, Go
<1>2. late = 0 /\ late' \in 0..1
  BY <1>1 DEF IInv, LateInv
<1>3. TypeOK'
  <2>1. taken \in Nat /\ Len(sent) \in Nat /\ out \in Seq([to: 1..taken, answer: Answers])
    BY DEF IInv, TypeOK
  <2>2. [to: 1..taken, answer: Answers] \subseteq [to: 1..taken', answer: Answers]
    BY <1>1, <2>1
  <2>3. out' \in Seq([to: 1..taken', answer: Answers])
    <3>1. out' = out
      BY <1>1
    <3> QED BY <2>1, <2>2, <3>1, SeqMonotonic
  <2> QED BY <1>1, <1>2, <2>1, <2>3 DEF IInv, TypeOK, client, rules
<1>4. LateInv'
  BY <1>1, <1>2 DEF IInv, LateInv, client
<1>5. WaitInv' /\ FreshUnlessTimesCollide'
  BY <1>1 DEF WaitInv, FreshUnlessTimesCollide
<1>6. SeenInv' /\ CacheInv'
  BY <1>1 DEF IInv, SeenInv, CacheInv, rules
<1> QED BY <1>3, <1>4, <1>5, <1>6 DEF IInv

(* The response is out, or the server ends; the next call has seen nothing. *)
LEMMA ReplyStep ==
  ASSUME IInv, Reply
  PROVE  IInv'
<1>1. /\ pc = "reply" /\ pc' \in {"loop", "ended"}
      /\ reply' = None /\ during' = {}
      /\ out' \in {out, Append(out, [to |-> taken, answer |-> reply])}
      /\ UNCHANGED <<client, taken, late, rules, cache, mtime>>
  BY DEF Reply, WriteOut, Go
<1>2. TypeOK'
  <2>1. [to |-> taken, answer |-> reply] \in [to: 1..taken, answer: Answers]
    BY <1>1 DEF IInv, TypeOK, WaitInv
  <2>2. out' \in Seq([to: 1..taken, answer: Answers])
    <3> PICK R, r : R = [to: 1..taken, answer: Answers] /\ r = [to |-> taken, answer |-> reply]
      OBVIOUS
    <3>1. out \in Seq(R) /\ r \in R
      BY <2>1 DEF IInv, TypeOK
    <3>2. out' = out \/ out' = Append(out, r)
      BY <1>1
    <3>3. out' \in Seq(R)
      <4>1. Append(out, r) \in Seq(R)
        BY <3>1, AppendProperties
      <4> QED BY <3>1, <3>2, <4>1
    <3> QED BY <3>3
  <2> QED BY <1>1, <2>2 DEF IInv, TypeOK, client, rules
<1>3. LateInv'
  BY <1>1 DEF IInv, LateInv, client
<1>4. WaitInv' /\ FreshUnlessTimesCollide'
  BY <1>1 DEF WaitInv, FreshUnlessTimesCollide
<1>5. SeenInv' /\ CacheInv'
  BY <1>1 DEF IInv, SeenInv, CacheInv, rules
<1> QED BY <1>2, <1>3, <1>4, <1>5 DEF IInv

-----------------------------------------------------------------------------
(* Answers *)

FreshAnswer(answer) ==
  IF answer = "tool error"
  THEN \E f \in during : f = None \/ f.content = Broken
  ELSE \E f \in during : f # None /\ f.content = answer

(* A settled answer is fresh if it is check_rule's. *)
LEMMA AnswerStep ==
  ASSUME IInv, NEW answer \in Answers,
         /\ reply' = answer /\ mtime' = None /\ pc' = "reply"
         /\ UNCHANGED <<client, taken, late, out, rules, during>>,
         pc \in {"handle", "wait", "load", "content"},
         cache' \in Files, cache' # None => cache'.content # Broken,
         cache' # None => cache'.mtime \in seen, CacheInv',
         Line.call = "check" /\ ~reused => FreshAnswer(answer)
  PROVE  IInv'
<1>1. TypeOK'
  BY DEF IInv, TypeOK, client, rules
<1>2. LateInv' /\ WaitInv'
  BY DEF IInv, LateInv, WaitInv, client
<1>3. SeenInv'
  BY DEF IInv, SeenInv, rules
<1>4. FreshUnlessTimesCollide'
  <2>1. Line' = Line
    BY DEF Line, client
  <2> QED BY <2>1 DEF FreshUnlessTimesCollide, FreshAnswer, rules
<1> QED BY <1>1, <1>2, <1>3, <1>4 DEF IInv

(* What the loop itself answers, and the tools that wait, is no check. *)
LEMMA HandleStep ==
  ASSUME IInv, Handle \/ ToolEnds
  PROVE  IInv'
<1>1. PICK answer \in Answers :
        /\ Answer(answer) /\ pc \in {"handle", "wait"} /\ Line.call # "check"
  BY DEF Handle, ToolEnds, AnswerTo, Answers, IInv, WaitInv
<1>2. /\ reply' = answer /\ mtime' = None /\ pc' = "reply"
      /\ UNCHANGED <<client, taken, late, out, rules, cache, during>>
  BY <1>1 DEF Answer, Go
<1>3. /\ cache' \in Files /\ (cache' # None => cache'.content # Broken)
      /\ (cache' # None => cache'.mtime \in seen) /\ CacheInv'
  BY <1>2 DEF IInv, TypeOK, SeenInv, CacheInv, rules
<1> QED BY <1>1, <1>2, <1>3, AnswerStep

(* check_rule may fail when rules.md is missing or broken now. *)
LEMMA RefusedStep ==
  ASSUME IInv, Answer("tool error"), pc \in {"handle", "load", "content"},
         file = None \/ file.content = Broken
  PROVE  IInv'
<1>1. /\ reply' = "tool error" /\ mtime' = None /\ pc' = "reply"
      /\ UNCHANGED <<client, taken, late, out, rules, cache, during>>
  BY DEF Answer, Go
<1>2. /\ cache' \in Files /\ (cache' # None => cache'.content # Broken)
      /\ (cache' # None => cache'.mtime \in seen) /\ CacheInv'
  BY <1>1 DEF IInv, TypeOK, SeenInv, CacheInv, rules
<1>3. FreshAnswer("tool error")
  BY DEF IInv, SeenInv, FreshAnswer
<1>4. "tool error" \in Answers
  BY DEF Answers
<1> QED BY <1>1, <1>2, <1>3, <1>4, AnswerStep

(* A miss looks at the file, and nothing is answered yet. *)
LEMMA LoadingStep ==
  ASSUME IInv, pc \in {"handle", "load"}, Line.call = "check",
         \/ pc' = "load" /\ mtime' = mtime
         \/ pc' = "content" /\ file # None /\ mtime' = file.mtime,
         UNCHANGED <<client, taken, late, reply, out, rules, cache, during>>
  PROVE  IInv'
<1>1. file # None => file.mtime \in Times
  BY DEF IInv, TypeOK, Files
<1>2. TypeOK'
  BY <1>1 DEF IInv, TypeOK, client, rules
<1>3. LateInv' /\ WaitInv' /\ CacheInv' /\ FreshUnlessTimesCollide'
  <2>1. Line' = Line
    BY DEF Line, client
  <2>2. WaitInv'
    BY <2>1 DEF WaitInv
  <2> QED BY <2>2 DEF IInv, LateInv, CacheInv, FreshUnlessTimesCollide, client, rules
<1>4. SeenInv'
  BY <1>1, McpAssumption DEF IInv, SeenInv, rules
<1> QED BY <1>2, <1>3, <1>4 DEF IInv

(* A hit answers what rules.md says now; a miss goes on to load it. *)
LEMMA GetCachedStep ==
  ASSUME IInv, GetCached
  PROVE  IInv'
<1>1. pc = "handle" /\ file \in during
  BY DEF GetCached, IInv, SeenInv
<1>2. CASE file = None
  <2>1. Answer("tool error")
    BY <1>2 DEF GetCached
  <2> QED BY <1>1, <1>2, <2>1, RefusedStep
<1>3. CASE file # None /\ Hit
  <2>1. Answer(cache.content)
    BY <1>3 DEF GetCached
  <2>2. /\ reply' = cache.content /\ mtime' = None /\ pc' = "reply"
        /\ UNCHANGED <<client, taken, late, out, rules, cache, during>>
    BY <2>1 DEF Answer, Go
  <2>3. cache # None /\ cache.content \in Contents /\ cache.content # "tool error"
    BY <1>3, McpAssumption DEF Hit, IInv, TypeOK, Files
  <2>4. /\ cache' \in Files /\ (cache' # None => cache'.content # Broken)
        /\ (cache' # None => cache'.mtime \in seen) /\ CacheInv'
    BY <2>2 DEF IInv, TypeOK, SeenInv, CacheInv, rules
  <2>5. ~reused => FreshAnswer(cache.content)
    BY <1>1, <1>3, <2>3 DEF IInv, CacheInv, Hit, FreshAnswer
  <2>6. cache.content \in Answers
    BY <2>3 DEF Answers
  <2> QED BY <1>1, <2>2, <2>4, <2>5, <2>6, AnswerStep
<1>4. CASE file # None /\ ~Hit
  <2>1. pc' = "load" /\ UNCHANGED <<client, taken, late, reply, out, rules, cache, mtime, during>>
    BY <1>4 DEF GetCached, Go
  <2>2. Line.call = "check"
    BY DEF GetCached
  <2> QED BY <1>1, <2>1, <2>2, LoadingStep
<1> QED BY <1>2, <1>3, <1>4

(* LoadRules' own look at the file. *)
LEMMA StatAgainStep ==
  ASSUME IInv, StatAgain
  PROVE  IInv'
<1>1. CASE file = None
  BY <1>1, RefusedStep DEF StatAgain
<1>2. CASE file # None
  <2>1. /\ pc = "load" /\ pc' = "content" /\ mtime' = file.mtime
        /\ UNCHANGED <<client, taken, late, reply, out, rules, cache, during>>
    BY <1>2 DEF StatAgain, Go
  <2>2. Line.call = "check"
    BY <2>1 DEF IInv, WaitInv
  <2> QED BY <1>2, <2>1, <2>2, LoadingStep
<1> QED BY <1>1, <1>2

(* The new entry has the present content, and the file no longer has the     *)
(* entry's time if it was edited in between.                                *)
LEMMA ReadAndStoreStep ==
  ASSUME IInv, ReadAndStore
  PROVE  IInv'
<1>1. CASE file = None \/ file.content = Broken
  BY <1>1, RefusedStep DEF ReadAndStore
<1>2. CASE ~(file = None \/ file.content = Broken)
  <2>1. /\ cache' = [mtime |-> mtime, content |-> file.content]
        /\ reply' = file.content /\ mtime' = None /\ pc' = "reply" /\ pc = "content"
        /\ UNCHANGED <<client, taken, late, out, rules, during>>
    BY <1>2 DEF ReadAndStore, Go
  <2>2. file.content \in Contents /\ file.content # "tool error"
    BY <1>2, McpAssumption DEF IInv, TypeOK, Files
  <2>3. mtime \in Times /\ mtime \in seen
    BY <2>1 DEF IInv, TypeOK, SeenInv
  <2>4. cache' \in Files /\ (cache' # None => cache'.content # Broken)
    BY <1>2, <2>1, <2>2, <2>3 DEF Files
  <2>5. cache' # None => cache'.mtime \in seen
    BY <2>1, <2>3
  <2>6. CacheInv'
    BY <2>1 DEF CacheInv, rules
  <2>7. FreshAnswer(file.content)
    BY <1>2, <2>1, <2>2 DEF IInv, SeenInv, FreshAnswer
  <2>8. file.content \in Answers
    BY <2>2 DEF Answers
  <2> QED BY <2>1, <2>4, <2>5, <2>6, <2>7, <2>8, AnswerStep
<1> QED BY <1>1, <1>2

(* Nothing moves. *)
LEMMA StutterStep ==
  ASSUME IInv, UNCHANGED vars
  PROVE  IInv'
<1>1. UNCHANGED <<client, pc, taken, late, reply, out, rules, cache, mtime, during>> /\ Line' = Line
  BY DEF vars, Line, client
<1>2. TypeOK' /\ LateInv' /\ WaitInv'
  BY <1>1 DEF IInv, TypeOK, LateInv, WaitInv, client, rules
<1>3. SeenInv' /\ CacheInv' /\ FreshUnlessTimesCollide'
  BY <1>1 DEF IInv, SeenInv, CacheInv, FreshUnlessTimesCollide, rules
<1> QED BY <1>2, <1>3 DEF IInv

-----------------------------------------------------------------------------
(* The order of the answers *)

(* The line at work is newer than every answered one, and what is about to  *)
(* be written answers it.                                                   *)
OrderInv ==
  /\ AnsweredInOrder
  /\ AtWork => \A k \in DOMAIN out : out[k].to < taken
  /\ pc = "reply" => reply \in MayAnswer(Line)

(* At the start nothing is read and nothing is answered. *)
LEMMA InitOrderInv == Init => OrderInv
BY DEF Init, OrderInv, AnsweredInOrder, AtWork

(* A step that neither takes a line nor answers one keeps the order, if it   *)
(* leaves a line at work only in Reply, and settles an answer that fits.     *)
LEMMA QuietStep ==
  ASSUME TypeOK, OrderInv, UNCHANGED <<sent, deaf, taken, out>>,
         AtWork' <=> AtWork, pc # "ended",
         pc' = "reply" => reply' \in MayAnswer(Line)
  PROVE  OrderInv'
<1>1. Line' = Line
  BY DEF Line
<1>2. AnsweredInOrder'
  BY DEF OrderInv, AnsweredInOrder, Answered
<1>3. AtWork' => \A k \in DOMAIN out' : out'[k].to < taken'
  BY DEF OrderInv
<1>4. pc' = "reply" => reply' \in MayAnswer(Line')
  BY <1>1
<1> QED BY <1>2, <1>3, <1>4 DEF OrderInv

(* A response is to a line that was read. *)
LEMMA ToLines ==
  ASSUME TypeOK
  PROVE  taken \in Nat /\ \A k \in DOMAIN out : out[k].to \in 1..taken
<1> PICK R : R = [to: 1..taken, answer: Answers]
  OBVIOUS
<1>1. out \in Seq(R) /\ taken \in Nat
  BY DEF TypeOK
<1>2. \A k \in DOMAIN out : out[k] \in R
  <2>1. DOMAIN out = 1..Len(out) /\ out \in [1..Len(out) -> R]
    BY <1>1, LenProperties
  <2> QED BY <2>1
<1> QED BY <1>1, <1>2

(* The client changes no line that was read. *)
LEMMA ClientKeepsOrder ==
  ASSUME TypeOK, OrderInv, (\E line \in Lines : Send(line)) \/ CloseStdin \/ Die \/ Cancel
  PROVE  OrderInv'
<1>1. UNCHANGED <<pc, taken, reply, out>> /\ (deaf => deaf')
  BY DEF Send, CloseStdin, Die, Cancel
<1>2. \A i \in 1..taken : sent'[i] = sent[i]
  <2>1. sent \in Seq(Lines) /\ taken \in 0..Len(sent)
    BY DEF TypeOK
  <2>2. CASE \E line \in Lines : Send(line)
    <3>1. PICK line \in Lines : sent' = Append(sent, line)
      BY <2>2 DEF Send
    <3>2. \A i \in 1..Len(sent) : sent'[i] = sent[i]
      BY <2>1, <3>1, AppendProperties
    <3> QED BY <2>1, <3>2
  <2>3. CASE CloseStdin \/ Die \/ Cancel
    BY <2>3 DEF CloseStdin, Die, Cancel
  <2> QED BY <2>2, <2>3
<1>3. \A k \in DOMAIN out : out[k].to \in 1..taken
  BY ToLines
<1>4. AnsweredInOrder'
  BY <1>1, <1>2, <1>3 DEF OrderInv, AnsweredInOrder, Answered, AtWork
<1>5. AtWork' => \A k \in DOMAIN out' : out'[k].to < taken'
  BY <1>1 DEF OrderInv, AtWork
<1>6. pc' = "reply" => reply' \in MayAnswer(Line')
  <2>1. pc = "reply" => Line' = Line
    BY <1>1, <1>2 DEF TypeOK, Line
  <2> QED BY <1>1, <2>1 DEF OrderInv
<1> QED BY <1>4, <1>5, <1>6 DEF OrderInv

(* A line is taken once every line before it has its answer. *)
LEMMA ReadKeepsOrder ==
  ASSUME TypeOK, OrderInv, Read
  PROVE  OrderInv'
<1>1. /\ pc = "read" /\ pc' = "handle" /\ taken' = taken + 1
      /\ UNCHANGED <<sent, deaf, out>>
  BY DEF Read, Take, Go, client
<1>2. taken \in Nat /\ \A k \in DOMAIN out : out[k].to \in 1..taken
  BY ToLines
<1>3. \A i \in 1..taken : Owed(sent[i]) => Answered(i)
  BY <1>1 DEF OrderInv, AnsweredInOrder, AtWork
<1>4. \A i \in 1..taken' : Owed(sent'[i]) /\ ~Answered(i)' => i = taken'
  BY <1>1, <1>2, <1>3 DEF Answered
<1>5. AnsweredInOrder'
  BY <1>1, <1>2, <1>4 DEF OrderInv, AnsweredInOrder, AtWork
<1>6. \A k \in DOMAIN out' : out'[k].to < taken'
  BY <1>1, <1>2
<1> QED BY <1>1, <1>5, <1>6 DEF OrderInv

(* The answer that is written is the newest one, and the one that was owed. *)
LEMMA WriteKeepsOrder ==
  ASSUME TypeOK, OrderInv, pc = "reply", pc' = "loop", Owed(Line),
         out' = Append(out, [to |-> taken, answer |-> reply]),
         UNCHANGED <<sent, deaf, taken>>
  PROVE  AnsweredInOrder'
<1> PICK N, r : N = Len(out) /\ r = [to |-> taken, answer |-> reply]
  OBVIOUS
<1>1. N \in Nat /\ DOMAIN out = 1..N /\ out \in Seq([to: 1..taken, answer: Answers])
  BY DEF TypeOK
<1>2. /\ DOMAIN out' = 1..(N + 1) /\ out'[N + 1] = r
      /\ \A k \in 1..N : out'[k] = out[k]
  BY <1>1
<1>3. r.to = taken /\ r.answer = reply
  OBVIOUS
<1>4. \A k \in 1..N : out[k].to < taken
  BY <1>1 DEF OrderInv, AtWork
<1>5. \A k, l \in 1..(N + 1) : k < l => out'[k].to < out'[l].to
  <2> SUFFICES ASSUME NEW k \in 1..(N + 1), NEW l \in 1..(N + 1), k < l
               PROVE  out'[k].to < out'[l].to
    OBVIOUS
  <2>1. k \in 1..N
    BY <1>1
  <2>2. CASE l \in 1..N
    BY <1>1, <1>2, <2>1, <2>2 DEF OrderInv, AnsweredInOrder
  <2>3. CASE l = N + 1
    BY <1>2, <1>3, <1>4, <2>1, <2>3
  <2>4. l \in 1..N \/ l = N + 1
    BY ONLY l \in 1..(N + 1), <1>1
  <2> QED BY <2>2, <2>3, <2>4
<1>6. \A k \in 1..(N + 1) :
        Owed(sent[out'[k].to]) /\ out'[k].answer \in MayAnswer(sent[out'[k].to])
  <2>1. Owed(sent[r.to]) /\ r.answer \in MayAnswer(sent[r.to])
    BY <1>3 DEF OrderInv, Line
  <2>2. \A k \in 1..N :
          Owed(sent[out[k].to]) /\ out[k].answer \in MayAnswer(sent[out[k].to])
    BY <1>1 DEF OrderInv, AnsweredInOrder
  <2> QED BY <1>1, <1>2, <2>1, <2>2
<1>7. \A i \in 1..taken : Owed(sent[i]) => Answered(i)'
  <2> SUFFICES ASSUME NEW i \in 1..taken, Owed(sent[i]) PROVE Answered(i)'
    OBVIOUS
  <2>1. CASE i = taken
    BY <1>1, <1>2, <1>3, <2>1 DEF Answered
  <2>2. CASE i # taken
    <3>1. Answered(i)
      BY <2>2 DEF OrderInv, AnsweredInOrder
    <3>2. PICK k \in 1..N : out[k].to = i
      BY <1>1, <3>1 DEF Answered
    <3>3. k \in 1..(N + 1) /\ out'[k].to = i
      BY <1>1, <1>2, <3>2
    <3> QED BY <1>2, <3>3 DEF Answered
  <2> QED BY <2>1, <2>2
<1> QED BY <1>2, <1>5, <1>6, <1>7 DEF AnsweredInOrder

(* A notification is answered by nobody, and a client that is gone ends the  *)
(* server.                                                                   *)
LEMMA ReplyKeepsOrder ==
  ASSUME TypeOK, OrderInv, Reply
  PROVE  OrderInv'
<1>1. /\ pc = "reply" /\ pc' \in {"loop", "ended"}
      /\ UNCHANGED <<sent, deaf, taken>>
      /\ \/ Owed(Line) /\ deaf /\ pc' = "ended" /\ out' = out
         \/ Owed(Line) /\ pc' = "loop" /\ out' = Append(out, [to |-> taken, answer |-> reply])
         \/ ~Owed(Line) /\ out' = out
  BY DEF Reply, WriteOut, Go, Owed, client
<1>2. AnsweredInOrder'
  <2>1. CASE Owed(Line) /\ deaf /\ pc' = "ended" /\ out' = out
    BY <1>1, <2>1 DEF OrderInv, AnsweredInOrder, Answered
  <2>2. CASE Owed(Line) /\ pc' = "loop" /\ out' = Append(out, [to |-> taken, answer |-> reply])
    BY <1>1, <2>2, WriteKeepsOrder
  <2>3. CASE ~Owed(Line) /\ out' = out
    BY <1>1, <2>3 DEF OrderInv, AnsweredInOrder, Answered, Line
  <2> QED BY <1>1, <2>1, <2>2, <2>3
<1> QED BY <1>1, <1>2 DEF OrderInv, AtWork

(* Whatever answer the handlers settle on fits the line at work. *)
LEMMA HandlersAnswer ==
  ASSUME IInv, Handle \/ ToolEnds \/ GetCached \/ StatAgain \/ ReadAndStore,
         pc \in {"load", "content"} => Line.call = "check"
  PROVE  /\ UNCHANGED <<sent, deaf, taken, out>> /\ AtWork /\ AtWork'
         /\ pc' = "reply" => reply' \in MayAnswer(Line)
<1>1. CASE Handle
  BY <1>1 DEF Handle, Answer, Go, MayAnswer, AtWork, client
<1>2. CASE ToolEnds
  BY <1>2 DEF ToolEnds, Answer, Go, MayAnswer, AtWork, client, IInv, WaitInv
<1>3. ASSUME Answer("tool error"), AtWork, Line.call = "check"
      PROVE  /\ UNCHANGED <<sent, deaf, taken, out>> /\ AtWork /\ AtWork'
             /\ pc' = "reply" => reply' \in MayAnswer(Line)
  BY <1>3 DEF Answer, Go, MayAnswer, AtWork, client
<1>4. CASE GetCached
  <2>1. pc = "handle" /\ Line.call = "check" /\ AtWork
    BY <1>4 DEF GetCached, AtWork
  <2>2. CASE file = None
    BY <1>3, <1>4, <2>1, <2>2 DEF GetCached
  <2>3. CASE file # None /\ Hit
    <3>1. Answer(cache.content)
      BY <1>4, <2>3 DEF GetCached
    <3>2. cache.content \in Contents \ {Broken}
      BY <2>3 DEF Hit, IInv, TypeOK, Files
    <3> QED BY <2>1, <3>1, <3>2 DEF Answer, Go, MayAnswer, AtWork, client
  <2>4. CASE file # None /\ ~Hit
    BY <1>4, <2>1, <2>4 DEF GetCached, Go, AtWork, client
  <2> QED BY <2>2, <2>3, <2>4
<1>5. CASE StatAgain
  <2>1. pc = "load" /\ Line.call = "check" /\ AtWork
    BY <1>5 DEF StatAgain, AtWork
  <2>2. CASE file = None
    BY <1>3, <1>5, <2>1, <2>2 DEF StatAgain
  <2>3. CASE file # None
    BY <1>5, <2>1, <2>3 DEF StatAgain, Go, AtWork, client
  <2> QED BY <2>2, <2>3
<1>6. CASE ReadAndStore
  <2>1. pc = "content" /\ Line.call = "check" /\ AtWork
    BY <1>6 DEF ReadAndStore, AtWork
  <2>2. CASE file = None \/ file.content = Broken
    BY <1>3, <1>6, <2>1, <2>2 DEF ReadAndStore
  <2>3. CASE ~(file = None \/ file.content = Broken)
    <3>1. file.content \in Contents \ {Broken}
      BY <2>3 DEF IInv, TypeOK, Files
    <3> QED BY <1>6, <2>1, <2>3, <3>1 DEF ReadAndStore, Go, MayAnswer, AtWork, client
  <2> QED BY <2>2, <2>3
<1> QED BY <1>1, <1>2, <1>4, <1>5, <1>6

(* Every step keeps the answers in order. *)
LEMMA StepOrderInv == IInv /\ OrderInv /\ [Next]_vars => OrderInv'
<1> SUFFICES ASSUME IInv, OrderInv, [Next]_vars PROVE OrderInv'
  OBVIOUS
<1>0. TypeOK /\ (pc \in {"load", "content"} => Line.call = "check")
  BY DEF IInv, WaitInv
<1>1. CASE (\E line \in Lines : Send(line)) \/ CloseStdin \/ Die \/ Cancel
  BY <1>0, <1>1, ClientKeepsOrder
<1>2. CASE Read
  BY <1>0, <1>2, ReadKeepsOrder
<1>3. CASE Reply
  BY <1>0, <1>3, ReplyKeepsOrder
<1>4. CASE Handle \/ ToolEnds \/ GetCached \/ StatAgain \/ ReadAndStore
  <2>1. /\ UNCHANGED <<sent, deaf, taken, out>> /\ AtWork /\ AtWork'
        /\ pc' = "reply" => reply' \in MayAnswer(Line)
    BY <1>0, <1>4, HandlersAnswer
  <2>2. pc # "ended"
    BY <2>1 DEF AtWork
  <2> QED BY <1>0, <2>1, <2>2, QuietStep
<1>5. CASE CheckContext \/ EndOfInput \/ Wait \/ \E new \in Files : Edit(new)
  <2>1. /\ UNCHANGED <<sent, deaf, taken, out, reply>> /\ pc # "ended"
        /\ pc' = "reply" => pc = "reply"
    BY <1>5 DEF CheckContext, EndOfInput, Wait, Edit, Go, client
  <2>2. AtWork' <=> AtWork
    BY <1>5 DEF CheckContext, EndOfInput, Wait, Edit, Go, AtWork
  <2>3. pc' = "reply" => reply' \in MayAnswer(Line)
    BY <2>1 DEF OrderInv
  <2> QED BY <1>0, <2>1, <2>2, <2>3, QuietStep
<1>6. CASE UNCHANGED vars
  <2>1. UNCHANGED <<pc, sent, deaf, taken, out, reply>>
    BY <1>6 DEF vars, client
  <2> QED BY <2>1 DEF OrderInv, AnsweredInOrder, Answered, AtWork, Line
<1> QED BY <1>1, <1>2, <1>3, <1>4, <1>5, <1>6 DEF Next, Serve

-----------------------------------------------------------------------------
(* Theorems *)

(* Every step of the server, the client and the user preserves the invariant. *)
LEMMA StepIInv == IInv /\ [Next]_vars => IInv'
<1> SUFFICES ASSUME IInv, [Next]_vars PROVE IInv'
  OBVIOUS
<1>1. CASE CheckContext \/ EndOfInput \/ Wait
  BY <1>1, LoopStep
<1>2. CASE Read
  BY <1>2, ReadStep
<1>3. CASE Handle \/ ToolEnds
  BY <1>3, HandleStep
<1>4. CASE Reply
  BY <1>4, ReplyStep
<1>5. CASE GetCached
  BY <1>5, GetCachedStep
<1>6. CASE StatAgain
  BY <1>6, StatAgainStep
<1>7. CASE ReadAndStore
  BY <1>7, ReadAndStoreStep
<1>8. CASE (\E line \in Lines : Send(line)) \/ CloseStdin \/ Die \/ Cancel
  BY <1>8, ClientStep
<1>9. ASSUME NEW new \in Files, Edit(new) PROVE IInv'
  BY <1>9, EditStep
<1>10. CASE UNCHANGED vars
  BY <1>10, StutterStep
<1> QED BY <1>1, <1>2, <1>3, <1>4, <1>5, <1>6, <1>7, <1>8, <1>9, <1>10 DEF Next, Serve

(* The strengthened invariant holds throughout. *)
THEOREM InductiveInvariant == Spec => []IInv
<1> QED BY InitIInv, StepIInv, PTL DEF Spec

(* The loop's variables keep their types, and every response is to a line    *)
(* that was read.                                                           *)
THEOREM TypeCorrect == Spec => []TypeOK
<1>1. IInv => TypeOK
  BY DEF IInv
<1> QED BY <1>1, InductiveInvariant, PTL

(* After a signal the loop of ServeStdio carries out one more line at most.  *)
THEOREM StopsSoon == Spec => []StopsAfterOne
<1>1. IInv => StopsAfterOne
  BY DEF IInv, LateInv, StopsAfterOne
<1> QED BY <1>1, InductiveInvariant, PTL

(* CachedLoadRules answers with a content, or a failure, that rules.md had   *)
(* during the call, however it was edited meanwhile, as long as no change    *)
(* gives it a modification time it had before.                              *)
THEOREM CacheIsFresh == Spec => []FreshUnlessTimesCollide
<1>1. IInv => FreshUnlessTimesCollide
  BY DEF IInv
<1> QED BY <1>1, InductiveInvariant, PTL

(* Each line that ServeStdio reads is answered once, in order, with an       *)
(* answer to that line, and a notification never, however the client writes  *)
(* ahead and whatever the tools do; only the last one may lack its answer.   *)
THEOREM ResponsesInOrder == Spec => []AnsweredInOrder
<1>1. OrderInv => AnsweredInOrder
  BY DEF OrderInv
<1> QED BY <1>1, InitOrderInv, StepOrderInv, InductiveInvariant, PTL DEF Spec

-----------------------------------------------------------------------------
(* The server is an atomic one to its client *)

(* What the abstraction and the model owe an answer to is the same.          *)
LEMMA OwedTheSame ==
  ASSUME NEW line \in Lines
  PROVE  Owed(line) <=> Atomic!Owed(line)
<1>1. line = Garbage => Owed(line) /\ Atomic!Owed(line)
  BY DEF Owed, Atomic!Owed, Garbage
<1>2. line # Garbage => line.call \in Calls
  <2>1. CASE line \in [call: Calls, id: {TRUE}]
    BY <2>1
  <2>2. CASE line \in [call: Notified, id: {FALSE}]
    BY <2>2, McpAssumption
  <2>3. CASE line = Garbage
    BY <2>3
  <2> QED BY <2>1, <2>2, <2>3 DEF Lines
<1>3. "garbage" \notin Calls
  BY McpAssumption
<1>4. line # Garbage => line.call # "garbage"
  BY <1>2, <1>3
<1>5. CASE line = Garbage
  BY <1>1, <1>5
<1>6. CASE line # Garbage
  BY <1>4, <1>6 DEF Owed, Atomic!Owed
<1> QED BY <1>5, <1>6

(* The rest of what the abstraction keeps is the model's own. *)
LEMMA InitIsAtomic == Init => Atomic!Init
<1> SUFFICES ASSUME Init PROVE Atomic!Init
  OBVIOUS
<1>1. file \in Files
  BY McpAssumption DEF Init, Files
<1>2. Done = 0 /\ Settled = {} /\ Quota = "any"
  BY DEF Init, Done, Settled, Quota, AtWork
<1> QED BY <1>1, <1>2 DEF Init, Atomic!Init

(* A step that leaves the client, rules.md and the mapped part alone. *)
LEMMA Invisible ==
  ASSUME UNCHANGED <<sent, closed, deaf, out, rules>>,
         Done' = Done, Settled' = Settled, Quota' = Quota
  PROVE  UNCHANGED Atomic!serverVars
BY DEF Atomic!serverVars, Atomic!client, Atomic!rules, rules

(* As long as the loop goes on, what is done depends on the line at hand only. *)
LEMMA SameDone ==
  ASSUME UNCHANGED taken, pc # "ended", pc' # "ended", AtWork' <=> AtWork
  PROVE  Done' = Done
BY DEF Done

(* The lines of the client are asked, and it may leave. *)
LEMMA ClientIsAtomic ==
  ASSUME (\E line \in Lines : Send(line)) \/ CloseStdin \/ Die
  PROVE  Atomic!Next
<1>1. /\ UNCHANGED <<cancelled, pc, taken, late, reply, out, rules, cache, mtime, during>>
      /\ pc # "ended"
  BY DEF Send, CloseStdin, Die
<1>2. Done' = Done /\ Settled' = Settled /\ Quota' = Quota
  <2>1. AtWork' <=> AtWork
    BY <1>1 DEF AtWork
  <2> QED BY <1>1, <2>1, SameDone DEF Settled, Quota
<1>3. UNCHANGED Atomic!rules
  BY <1>1 DEF Atomic!rules, rules
<1>4. CASE \E line \in Lines : Send(line)
  <2>1. Atomic!Ask
    BY <1>1, <1>2, <1>3, <1>4 DEF Send, Atomic!Ask
  <2> QED BY <2>1 DEF Atomic!Next
<1>5. CASE CloseStdin \/ Die
  <2>1. Atomic!Leave
    BY <1>1, <1>2, <1>3, <1>5 DEF CloseStdin, Die, Atomic!Leave
  <2> QED BY <2>1 DEF Atomic!Next
<1> QED BY <1>4, <1>5

(* A signal leaves room for the line at hand, or for the one that is being   *)
(* read; between two lines, for none.                                       *)
LEMMA CancelIsAtomic ==
  ASSUME TypeOK, Cancel
  PROVE  Atomic!Next
<1>1. /\ UNCHANGED <<sent, closed, deaf, pc, taken, reply, out, rules>>
      /\ pc # "ended" /\ ~cancelled /\ cancelled'
  BY DEF Cancel
<1>2. Done' = Done /\ Settled' = Settled
  <2>1. AtWork' <=> AtWork
    BY <1>1 DEF AtWork
  <2> QED BY <1>1, <2>1, SameDone DEF Settled
<1>3. Quota = "any" /\ Quota' \in {"one", "none"} /\ (Quota' = "none" => Settled' = {})
  BY <1>1 DEF Quota, Settled
<1>4. Atomic!Signal
  BY <1>1, <1>2, <1>3 DEF Atomic!Signal, Atomic!client, Atomic!rules, rules
<1> QED BY <1>4 DEF Atomic!Next

(* The user's change is one of rules.md in the abstraction as well. *)
LEMMA EditIsAtomic ==
  ASSUME NEW new \in Files, Edit(new)
  PROVE  Atomic!Next
<1>1. /\ UNCHANGED <<sent, closed, deaf, cancelled, pc, taken, reply, out>> /\ pc # "ended"
      /\ file' = new
      /\ seen' = (IF new = None THEN seen ELSE seen \cup {new.mtime})
      /\ reused' = (reused \/ (new # None /\ new.mtime \in seen))
  BY DEF Edit, client
<1>2. Done' = Done /\ Settled' = Settled /\ Quota' = Quota
  <2>1. AtWork' <=> AtWork
    BY <1>1 DEF AtWork
  <2> QED BY <1>1, <2>1, SameDone DEF Settled, Quota
<1>3. Atomic!Edit
  BY <1>1, <1>2 DEF Atomic!Edit, Atomic!client
<1> QED BY <1>3 DEF Atomic!Next

(* Nothing is owed between two lines. *)
LEMMA BetweenLines ==
  ASSUME TypeOK, OrderInv, pc \in {"loop", "read"}
  PROVE  Done = taken /\ ~Unanswered
<1>1. taken \in Nat
  BY DEF TypeOK
<1>2. ~AtWork
  BY DEF AtWork
<1>3. taken > 0 => taken \in 1..taken
  BY <1>1
<1>4. ~Unanswered
  BY <1>2, <1>3 DEF OrderInv, AnsweredInOrder, Unanswered, Line
<1> QED BY <1>2, <1>4 DEF Done

(* The loop's looks are not seen, and its end is the end. *)
LEMMA LoopIsAtomic ==
  ASSUME TypeOK, OrderInv, CheckContext \/ EndOfInput \/ Wait \/ Read
  PROVE  [Atomic!Next]_Atomic!serverVars
<1>1. UNCHANGED <<sent, closed, deaf, cancelled, reply, out, rules>>
  BY DEF CheckContext, EndOfInput, Wait, Read, Take, client
<1>2. CASE CheckContext
  <2>1. /\ pc = "loop" /\ pc' = (IF cancelled THEN "ended" ELSE "read") /\ taken' = taken
    BY <1>2 DEF CheckContext, Go
  <2>2. Done = taken /\ ~Unanswered
    BY <2>1, BetweenLines
  <2>3. Done' = Done
    BY <1>1, <2>1, <2>2 DEF Done, AtWork, Unanswered, Answered, Line
  <2>4. Settled' = Settled /\ Quota' = Quota
    BY <1>1, <2>1 DEF Settled, Quota
  <2> QED BY <1>1, <2>3, <2>4, Invisible
<1>3. CASE EndOfInput
  <2>1. pc = "read" /\ pc' = "ended" /\ taken' = taken /\ taken = Len(sent) /\ closed
    BY <1>3 DEF EndOfInput, Go
  <2>2. Done = taken /\ ~Unanswered
    BY <2>1, BetweenLines
  <2>3. Done' = Done /\ Settled' = {} /\ Quota' = "none"
    BY <1>1, <2>1, <2>2 DEF Done, AtWork, Unanswered, Answered, Line, Settled, Quota
  <2>4. Atomic!End
    BY <1>1, <2>1, <2>2, <2>3 DEF Atomic!End, Atomic!client, Atomic!rules, rules
  <2> QED BY <2>4 DEF Atomic!Next
<1>4. CASE Wait
  <2>1. pc = "handle" /\ pc' = "wait" /\ taken' = taken
    BY <1>4 DEF Wait, Go
  <2>2. Done' = Done /\ Settled' = Settled /\ Quota' = Quota
    BY <1>1, <2>1 DEF Done, AtWork, Settled, Quota
  <2> QED BY <1>1, <2>2, Invisible
<1>5. CASE Read
  <2>1. pc = "read" /\ pc' = "handle" /\ taken' = taken + 1 /\ taken \in Nat
    BY <1>5 DEF Read, Take, Go, TypeOK
  <2>2. Done = taken /\ Done' = taken' - 1
    BY <2>1 DEF Done, AtWork
  <2>3. Settled' = Settled /\ Quota' = Quota
    BY <1>1, <2>1 DEF Settled, Quota
  <2>4. Done' = Done
    BY <2>1, <2>2
  <2> QED BY <1>1, <2>3, <2>4, Invisible
<1> QED BY <1>2, <1>3, <1>4, <1>5

(* The line at hand is carried out when its answer is settled. *)
LEMMA SettledAtomically ==
  ASSUME TypeOK, NEW answer, Answer(answer), pc \in {"handle", "wait", "load", "content"},
         answer \in Atomic!Outcomes(Line)
  PROVE  Atomic!Next
<1>1. /\ reply' = answer /\ pc' = "reply"
      /\ UNCHANGED <<sent, closed, deaf, cancelled, taken, out, rules>>
  BY DEF Answer, Go, client
<1>2. taken \in 1..Len(sent) /\ Len(sent) \in Nat
  BY DEF TypeOK
<1>3. Done = taken - 1 /\ Done' = Done
  BY <1>1 DEF Done, AtWork
<1>4. Settled = {} /\ Settled' = {answer} /\ Quota' = Quota /\ Quota # "none"
  BY <1>1 DEF Settled, Quota
<1>5. Done < Len(sent) /\ sent[Done + 1] = Line
  BY <1>2, <1>3 DEF Line
<1>6. Atomic!CarryOut
  BY <1>1, <1>3, <1>4, <1>5 DEF Atomic!CarryOut, Atomic!client, Atomic!rules, rules
<1> QED BY <1>6 DEF Atomic!Next

(* check_rule's failure is settled at an instant at which rules.md was       *)
(* missing or broken.                                                       *)
LEMMA FailsAtomically ==
  ASSUME TypeOK, Answer("tool error"), pc \in {"handle", "load", "content"},
         Line.call = "check", file = None \/ file.content = Broken
  PROVE  Atomic!Next
<1>1. "tool error" \in Atomic!Outcomes(Line)
  BY DEF Atomic!Outcomes, Atomic!Verdict
<1> QED BY <1>1, SettledAtomically

(* The steps of the tools and of the handlers that are no check. *)
LEMMA HandleIsAtomic ==
  ASSUME IInv, Handle \/ ToolEnds
  PROVE  Atomic!Next
<1>1. TypeOK
  BY DEF IInv
<1>2. CASE Handle
  <2>1. /\ pc = "handle" /\ Line.call \in {"garbage", "plain", "failing", "refused"}
        /\ Answer(AnswerTo(Line.call))
    BY <1>2 DEF Handle
  <2>2. AnswerTo(Line.call) \in Atomic!Outcomes(Line)
    BY <2>1 DEF AnswerTo, Atomic!Outcomes
  <2> QED BY <1>1, <2>1, <2>2, SettledAtomically
<1>3. CASE ToolEnds
  <2>1. PICK answer \in {"result", "tool error"} : Answer(answer)
    BY <1>3 DEF ToolEnds
  <2>2. pc = "wait" /\ Line.call \in {"escalate", "delegate"}
    BY <1>3 DEF ToolEnds, IInv, WaitInv
  <2>3. answer \in Atomic!Outcomes(Line)
    BY <2>2 DEF Atomic!Outcomes
  <2> QED BY <1>1, <2>1, <2>2, <2>3, SettledAtomically
<1> QED BY <1>2, <1>3

(* check_rule answers from the cache at an instant at which rules.md says    *)
(* the same, and otherwise in the instant in which it reads it.             *)
LEMMA CheckIsAtomic ==
  ASSUME IInv, GetCached \/ StatAgain \/ ReadAndStore
  PROVE  [Atomic!Next]_Atomic!serverVars
<1>1. TypeOK /\ Line.call = "check" /\ pc \in {"handle", "load", "content"}
  BY DEF GetCached, StatAgain, ReadAndStore, IInv, WaitInv
<1>2. ASSUME UNCHANGED <<sent, closed, deaf, cancelled, taken, reply, out, rules>>,
             pc' \in {"load", "content"}
      PROVE  UNCHANGED Atomic!serverVars
  <2>1. Done' = Done /\ Settled' = Settled /\ Quota' = Quota
    BY <1>1, <1>2 DEF Done, AtWork, Settled, Quota
  <2> QED BY <1>2, <2>1, Invisible
<1>3. CASE GetCached
  <2>1. CASE file = None
    <3>1. Answer("tool error")
      BY <1>3, <2>1 DEF GetCached
    <3> QED BY <1>1, <2>1, <3>1, FailsAtomically
  <2>2. CASE file # None /\ Hit
    <3>1. Answer(cache.content)
      BY <1>3, <2>2 DEF GetCached
    <3>2. cache # None /\ cache.mtime = file.mtime /\ cache.content \in Contents \ {Broken}
      BY <2>2 DEF Hit, IInv, TypeOK, Files
    <3>3. ~reused => cache.content = file.content
      BY <2>2, <3>2 DEF IInv, CacheInv
    <3>4. ~reused => cache.content = Atomic!Verdict(file)
      BY <2>2, <3>2, <3>3 DEF Atomic!Verdict
    <3>5. cache.content \in Atomic!Outcomes(Line)
      BY <1>1, <3>2, <3>4 DEF Atomic!Outcomes
    <3> QED BY <1>1, <3>1, <3>5, SettledAtomically
  <2>3. CASE file # None /\ ~Hit
    BY <1>2, <1>3, <2>3 DEF GetCached, Go, client
  <2> QED BY <2>1, <2>2, <2>3
<1>4. CASE StatAgain
  <2>1. CASE file = None
    <3>1. Answer("tool error")
      BY <1>4, <2>1 DEF StatAgain
    <3> QED BY <1>1, <2>1, <3>1, FailsAtomically
  <2>2. CASE file # None
    BY <1>2, <1>4, <2>2 DEF StatAgain, Go, client
  <2> QED BY <2>1, <2>2
<1>5. CASE ReadAndStore
  <2>1. CASE file = None \/ file.content = Broken
    <3>1. Answer("tool error")
      BY <1>5, <2>1 DEF ReadAndStore
    <3> QED BY <1>1, <2>1, <3>1, FailsAtomically
  <2>2. CASE ~(file = None \/ file.content = Broken)
    <3>1. /\ pc' = "reply" /\ reply' = file.content /\ taken' = taken
          /\ UNCHANGED <<sent, closed, deaf, cancelled, out, rules>>
      BY <1>5, <2>2 DEF ReadAndStore, Go, client
    <3>2. file.content \in Atomic!Outcomes(Line)
      <4>1. file.content \in Contents \ {Broken}
        BY <1>1, <2>2 DEF TypeOK, Files
      <4>2. Atomic!Verdict(file) = file.content
        BY <2>2 DEF Atomic!Verdict
      <4> QED BY <1>1, <4>1, <4>2 DEF Atomic!Outcomes
    <3>3. taken \in 1..Len(sent) /\ Len(sent) \in Nat
      BY <1>1 DEF TypeOK
    <3>4. Done = taken - 1 /\ Done' = Done
      BY <1>1, <3>1 DEF Done, AtWork
    <3>5. Settled = {} /\ Settled' = {file.content} /\ Quota' = Quota /\ Quota # "none"
      BY <1>1, <3>1 DEF Settled, Quota
    <3>6. Done < Len(sent) /\ sent[Done + 1] = Line
      BY <3>3, <3>4 DEF Line
    <3>7. Atomic!CarryOut
      BY <3>1, <3>2, <3>4, <3>5, <3>6 DEF Atomic!CarryOut, Atomic!client, Atomic!rules, rules
    <3> QED BY <3>7 DEF Atomic!Next
  <2> QED BY <2>1, <2>2
<1> QED BY <1>3, <1>4, <1>5

(* The response is written, or not owed, or lost with the client. *)
LEMMA ReplyIsAtomic ==
  ASSUME TypeOK, OrderInv, Reply
  PROVE  Atomic!Next
<1>1. /\ pc = "reply" /\ pc' \in {"loop", "ended"}
      /\ UNCHANGED <<sent, closed, deaf, cancelled, taken, rules>>
      /\ \/ Owed(Line) /\ deaf /\ pc' = "ended" /\ out' = out
         \/ /\ Owed(Line) /\ pc' = "loop"
            /\ out' = Append(out, [to |-> taken, answer |-> reply])
         \/ ~Owed(Line) /\ pc' = "loop" /\ out' = out
  BY DEF Reply, WriteOut, Go, Owed, client
<1>2. taken \in Nat /\ taken > 0 /\ Line' = Line
  BY <1>1 DEF TypeOK, Line
<1>3. Owed(Line) <=> Atomic!Owed(Line)
  BY <1>2, LineType, OwedTheSame
<1>4. Done = taken - 1 /\ Settled = {reply} /\ Settled' = {} /\ Quota = (IF cancelled THEN "one" ELSE "any")
  BY <1>1 DEF Done, AtWork, Settled, Quota
<1>5. CASE pc' = "ended"
  <2>1. Owed(Line) /\ deaf /\ out' = out
    BY <1>1, <1>5
  <2>2. ~Answered(taken)
    BY <1>1, <1>2 DEF OrderInv, AtWork, Answered
  <2>3. Unanswered'
    BY <1>1, <1>2, <2>1, <2>2 DEF Unanswered, Answered, Owed
  <2>4. Done' = Done /\ Quota' = "none"
    BY <1>1, <1>4, <1>5, <2>3 DEF Done, Quota
  <2>5. Atomic!End
    BY <1>1, <1>4, <2>1, <2>4 DEF Atomic!End, Atomic!client, Atomic!rules, rules
  <2> QED BY <2>5 DEF Atomic!Next
<1>6. CASE pc' = "loop"
  <2>1. Done' = taken /\ Done' = Done + 1
    BY <1>1, <1>2, <1>4, <1>6 DEF Done, AtWork
  <2>2. Quota' = (IF cancelled THEN "none" ELSE "any")
    BY <1>1, <1>6 DEF Quota
  <2>3. Quota # "none" /\ Quota' = (IF Quota = "one" THEN "none" ELSE Quota)
    BY <1>4, <2>2
  <2>4. Settled # {} /\ sent[Done'] = Line
    BY <1>4, <2>1 DEF Line
  <2>5. IF Atomic!Owed(sent[Done'])
        THEN \E answer \in Settled : out' = Append(out, [to |-> Done', answer |-> answer])
        ELSE out' = out
    <3>1. CASE Owed(Line)
      <4>1. out' = Append(out, [to |-> Done', answer |-> reply])
        BY <1>1, <1>6, <2>1, <3>1
      <4> QED BY <1>3, <1>4, <2>4, <3>1, <4>1
    <3>2. CASE ~Owed(Line)
      BY <1>1, <1>3, <2>4, <3>2
    <3> QED BY <3>1, <3>2
  <2>6. Atomic!Finish
    BY <1>1, <1>4, <2>1, <2>3, <2>4, <2>5
       DEF Atomic!Finish, Atomic!client, Atomic!rules, rules
  <2> QED BY <2>6 DEF Atomic!Next
<1> QED BY <1>1, <1>5, <1>6

(* Every step of the server, the client and the user is one of the abstract  *)
(* server, or cannot be seen.                                               *)
LEMMA NextIsAtomic ==
  ASSUME IInv, OrderInv, [Next]_vars
  PROVE  [Atomic!Next]_Atomic!serverVars
<1>0. TypeOK
  BY DEF IInv
<1>1. CASE (\E line \in Lines : Send(line)) \/ CloseStdin \/ Die
  BY <1>1, ClientIsAtomic
<1>2. CASE Cancel
  BY <1>0, <1>2, CancelIsAtomic
<1>3. ASSUME NEW new \in Files, Edit(new) PROVE Atomic!Next
  BY <1>3, EditIsAtomic
<1>4. CASE CheckContext \/ EndOfInput \/ Wait \/ Read
  BY <1>0, <1>4, LoopIsAtomic
<1>5. CASE Handle \/ ToolEnds
  BY <1>5, HandleIsAtomic
<1>6. CASE GetCached \/ StatAgain \/ ReadAndStore
  BY <1>6, CheckIsAtomic
<1>7. CASE Reply
  BY <1>0, <1>7, ReplyIsAtomic
<1>8. CASE UNCHANGED vars
  <2>1. UNCHANGED <<sent, closed, deaf, cancelled, pc, taken, reply, out, rules>>
    BY <1>8 DEF vars, client
  <2>2. Done' = Done /\ Settled' = Settled /\ Quota' = Quota
    BY <2>1 DEF Done, AtWork, Unanswered, Answered, Line, Settled, Quota
  <2> QED BY <2>1, <2>2, Invisible
<1> QED BY <1>1, <1>2, <1>3, <1>4, <1>5, <1>6, <1>7, <1>8 DEF Next, Serve

(* ServeStdio and CachedLoadRules implement the safety part of AtomicServer: *)
(* lines are carried out one at a time, check_rule in an instant at which    *)
(* rules.md says what it answers, and at most one more line after a signal.  *)
THEOREM ServerImplementsAtomic == Spec => Atomic!SafeSpec
<1>1. ASSUME IInv, OrderInv, [Next]_vars
      PROVE  [Atomic!Next]_Atomic!serverVars
  BY <1>1, NextIsAtomic
<1>2. Spec => []OrderInv
  BY InitOrderInv, StepOrderInv, InductiveInvariant, PTL DEF Spec
<1> QED
  BY <1>1, <1>2, InitIsAtomic, InductiveInvariant, PTL DEF Spec, Atomic!SafeSpec
=============================================================================
