------------------------------ MODULE Telegram ------------------------------
(***************************************************************************)
(* The Telegram channel of the escalation (internal/notify/telegram.go):   *)
(* several arbiter processes put questions with an inline keyboard into    *)
(* one chat and long-poll the Bot API for the answer.  Each process starts *)
(* with lastUpdate = 0 and keeps it over all its questions; the update     *)
(* queue belongs to the bot and so to all of them.                         *)
(*                                                                         *)
(* External parts, modelled from how the code uses them: the Bot API keeps *)
(* an update until some getUpdates names a higher offset; people tap the   *)
(* keyboards on the screen, old ones too, and type.                        *)
(***************************************************************************)
EXTENDS Naturals, FiniteSets

CONSTANTS
  Processes,   (* arbiter processes that share the bot token                *)
  OptionSets,  (* what a question may offer (escalate_to_user chooses)      *)
  OtherText,   (* text that is nobody's option                              *)
  MaxAsks,     (* bound: questions per process                              *)
  MaxUpdates   (* bound: updates the chat produces                          *)

DefaultOptions == {"approve", "deny"}

ASSUME TelegramAssumption ==
  /\ DefaultOptions \in OptionSets
  /\ OtherText \notin UNION OptionSets
  /\ MaxAsks \in Nat /\ MaxUpdates \in Nat

VARIABLES
  updates,     (* history: every update there ever was; ids are 1, 2, ...   *)
  queue,       (* the ids the Bot API still keeps                           *)
  keyboards,   (* questions whose keyboard is on the screen                 *)
  pc,          (* per process: idle, poll, ack or gone                      *)
  lastUpdate,  (* per process: the highest update id it has handled         *)
  question,    (* per process: the question it asks, or asked last          *)
  took,        (* per process: the update its poll returned, 0 if none      *)
  replies      (* history: what Ask returned                                *)

service == <<updates, queue, keyboards>>
client == <<pc, lastUpdate, question, took, replies>>
vars == <<service, client>>

Questions == [by : Processes, n : 1..MaxAsks, options : OptionSets]
NoQuestion == [n |-> 0]
Texts == UNION OptionSets \cup {OtherText}

-----------------------------------------------------------------------------
(* The chat *)

NewUpdate(u) ==
  /\ Cardinality(DOMAIN updates) < MaxUpdates
  /\ LET id == Cardinality(DOMAIN updates) + 1
     IN  /\ updates' = [i \in DOMAIN updates \cup {id} |-> IF i = id THEN u ELSE updates[i]]
         /\ queue' = queue \cup {id}
  /\ UNCHANGED <<keyboards, client>>

(* A button of any keyboard still on the screen. *)
Tap ==
  \E q \in keyboards : \E opt \in q.options :
    NewUpdate([ours |-> TRUE, text |-> opt, tapped |-> q])

(* A typed message, in the configured chat or in another one. *)
Type ==
  \E ours \in BOOLEAN, t \in Texts :
    NewUpdate([ours |-> ours, text |-> t, tapped |-> NoQuestion])

-----------------------------------------------------------------------------
(* Ask *)

SendQuestion(p, options) ==
  LET q == [by |-> p, n |-> question[p].n + 1, options |-> options] IN
  /\ pc[p] = "idle" /\ question[p].n < MaxAsks
  /\ question' = [question EXCEPT ![p] = q]
  /\ took' = [took EXCEPT ![p] = 0]
  /\ \/ /\ keyboards' = keyboards \cup {q}
        /\ pc' = [pc EXCEPT ![p] = "poll"]
     \/ (* sendMessage fails, or its answer is lost: Ask returns the error *)
        /\ keyboards' \in {keyboards, keyboards \cup {q}}
        /\ UNCHANGED pc
  /\ UNCHANGED <<updates, queue, lastUpdate, replies>>

matchChat(u) == u.ours

normalizeOption(u, p) == u.text \in question[p].options

(* poll looks for the default options whatever was offered: a mutant of Matches. *)
DefaultOption(u, p) == matchChat(u) /\ u.text \in DefaultOptions

(* No option check: a mutant of Matches. *)
AnyText(u, p) == matchChat(u)

Matches(u, p) == matchChat(u) /\ normalizeOption(u, p)

(* getUpdates drops what lies below the offset and returns the rest. *)
Kept(p) == {i \in queue : i > lastUpdate[p]}

Matching(p) == {i \in Kept(p) : Matches(updates[i], p)}

Highest(S) == CHOOSE i \in S : \A j \in S : j <= i
Lowest(S) == CHOOSE i \in S : \A j \in S : i <= j

(* lastUpdate stops before the update that is returned: a mutant of Handled. *)
UpToTheReply(p) ==
  Highest({lastUpdate[p]} \cup
    IF Matching(p) = {} THEN Kept(p) ELSE {i \in Kept(p) : i < Lowest(Matching(p))})

(* How far poll comes through its results: to the first that is an answer. *)
Handled(p) ==
  Highest({lastUpdate[p]} \cup
    IF Matching(p) = {} THEN Kept(p) ELSE {Lowest(Matching(p))})

Poll(p) ==
  /\ pc[p] = "poll"
  /\ queue' = Kept(p)
  /\ lastUpdate' = [lastUpdate EXCEPT ![p] = Handled(p)]
  /\ IF Matching(p) = {}
     THEN UNCHANGED <<pc, took>>
     ELSE /\ took' = [took EXCEPT ![p] = Lowest(Matching(p))]
          /\ pc' = [pc EXCEPT ![p] = "ack"]
  /\ UNCHANGED <<updates, keyboards, question, replies>>

(* The deadline, a network error, a 409 of two polls at once: Ask returns   *)
(* without a reply.  The server may have dropped the old updates all the    *)
(* same.                                                                    *)
PollFails(p) ==
  /\ pc[p] = "poll"
  /\ queue' \in {queue, Kept(p)}
  /\ pc' = [pc EXCEPT ![p] = "idle"]
  /\ UNCHANGED <<updates, keyboards, lastUpdate, question, took, replies>>

(* editMessageText takes the keyboard away; its error is ignored. *)
Acknowledge(p) ==
  /\ pc[p] = "ack"
  /\ keyboards' \in {keyboards, keyboards \ {question[p]}}
  /\ replies' = replies \cup
       {[question |-> question[p], reply |-> updates[took[p]].text, update |-> took[p]]}
  /\ pc' = [pc EXCEPT ![p] = "idle"]
  /\ UNCHANGED <<updates, queue, lastUpdate, question, took>>

(* The process has its decision, or is killed. *)
Exit(p) ==
  /\ pc[p] # "gone"
  /\ pc' = [pc EXCEPT ![p] = "gone"]
  /\ UNCHANGED <<service, lastUpdate, question, took, replies>>

-----------------------------------------------------------------------------
Init ==
  /\ updates = [i \in {} |-> 0]
  /\ queue = {}
  /\ keyboards = {}
  /\ pc = [p \in Processes |-> "idle"]
  /\ lastUpdate = [p \in Processes |-> 0]
  /\ question = [p \in Processes |-> NoQuestion]
  /\ took = [p \in Processes |-> 0]
  /\ replies = {}

Next ==
  \/ Tap \/ Type
  \/ \E p \in Processes : \E options \in OptionSets : SendQuestion(p, options)
  \/ \E p \in Processes : Poll(p) \/ PollFails(p) \/ Acknowledge(p) \/ Exit(p)

Spec == Init /\ [][Next]_vars

-----------------------------------------------------------------------------
(* Properties *)

Updates == [ours : BOOLEAN, text : Texts, tapped : Questions \cup {NoQuestion}]

(* The values each variable takes; the queue holds updates that happened. *)
TypeOK ==
  /\ DOMAIN updates \subseteq 1..MaxUpdates
  /\ \A i \in DOMAIN updates : updates[i] \in Updates
  /\ queue \subseteq DOMAIN updates
  /\ keyboards \subseteq Questions
  /\ pc \in [Processes -> {"idle", "poll", "ack", "gone"}]
  /\ lastUpdate \in [Processes -> 0..MaxUpdates]
  /\ question \in [Processes -> Questions \cup {NoQuestion}]
  /\ took \in [Processes -> 0..MaxUpdates]
  /\ replies \subseteq [question : Questions, reply : UNION OptionSets, update : 1..MaxUpdates]

(* A reply is an option of the question it is returned for, given in the    *)
(* configured chat, and within one process a tap answers one question at    *)
(* most: the answer to a question of escalate_to_user is not taken again    *)
(* for the final question the same hook asks after it.                      *)
OneQuestionPerTap ==
  /\ \A r \in replies : r.reply \in r.question.options /\ updates[r.update].ours
  /\ \A r, s \in replies :
       r.update = s.update /\ r.question.by = s.question.by => r = s

(* A process that waits has not passed over a tap on its own question that  *)
(* the Bot API still keeps: only another process of the same bot, whose     *)
(* offset drops the tap, can make it miss one.                              *)
NoTapPassedOver ==
  \A p \in Processes : pc[p] = "poll" =>
    \A i \in queue : updates[i].tapped = question[p] => i > lastUpdate[p]

(* Disagreements with the documentation *)

(* docs/DECISION_FLOW.md, "Escalation": "On reply -> returns user's choice  *)
(* to the agent".  A choice made by tapping a button is the choice on the   *)
(* question that button belongs to.                                         *)
ReplyIsForTheQuestion ==
  \A r \in replies : updates[r.update].tapped \in {r.question, NoQuestion}
=============================================================================
