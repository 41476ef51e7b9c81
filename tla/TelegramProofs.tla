--------------------------- MODULE TelegramProofs ---------------------------
(***************************************************************************)
(* Proofs about Telegram, for any number of processes, questions and       *)
(* updates: the types, that a tap answers one question of a process, and   *)
(* that no process passes over a tap on its own question.                  *)
(***************************************************************************)
EXTENDS Telegram, FiniteSetTheorems, WellFoundedInduction, TLAPS

-----------------------------------------------------------------------------
(* Highest and Lowest *)

Initials == {0..n : n \in Nat}

(* Of intervals that begin at 0, some set has a smallest one: what stands in *)
(* for an induction over the numbers.                                       *)
LEMMA SmallestInitial ==
  ASSUME NEW T \in SUBSET Initials, T # {}
  PROVE  \E I \in T : \A J \in T : ~(J \subseteq I /\ J # I)
<1>1. IsWellFoundedOn(StrictSubsetOrdering(Nat), FiniteSubsetsOf(Nat))
  BY FS_StrictSubsetOrderingWellFounded
<1>2. T \subseteq FiniteSubsetsOf(Nat)
  <2> SUFFICES ASSUME NEW n \in Nat PROVE 0..n \in FiniteSubsetsOf(Nat)
    BY DEF Initials
  <2>1. IsFiniteSet(0..n)
    BY FS_Interval
  <2> QED BY <2>1 DEF FiniteSubsetsOf
<1>3. PICK I \in T : \A J \in T : ~(<<J, I>> \in StrictSubsetOrdering(Nat))
  BY <1>1, <1>2, WFMin
<1>4. ASSUME NEW J \in T, J \subseteq I, J # I
      PROVE  FALSE
  <2>1. J \in SUBSET Nat /\ I \in SUBSET Nat
    BY DEF Initials
  <2>2. <<J, I>> \in StrictSubsetOrdering(Nat)
    BY <2>1, <1>4 DEF StrictSubsetOrdering
  <2> QED BY <2>2, <1>3
<1> QED BY <1>4

(* Lowest is the least element of a set of ids. *)
LEMMA LowestIsLeast ==
  ASSUME NEW S \in SUBSET Nat, S # {}
  PROVE  Lowest(S) \in S /\ \A j \in S : Lowest(S) <= j
<1> DEFINE T == {0..n : n \in S}
<1>1. T \in SUBSET Initials /\ T # {}
  BY DEF Initials
<1>2. PICK I \in T : \A J \in T : ~(J \subseteq I /\ J # I)
  BY <1>1, SmallestInitial
<1>3. PICK i \in S : I = 0..i
  BY <1>2
<1>4. ASSUME NEW j \in S PROVE i <= j
  <2> SUFFICES ASSUME j < i PROVE FALSE
    OBVIOUS
  <2>1. 0..j \in T
    OBVIOUS
  <2>2. 0..j \subseteq 0..i /\ i \in 0..i /\ i \notin 0..j
    OBVIOUS
  <2> QED BY <2>1, <2>2, <1>2, <1>3
<1> QED BY <1>4 DEF Lowest

(* Highest is the greatest element of a bounded set of ids. *)
LEMMA HighestIsGreatest ==
  ASSUME NEW S \in SUBSET Nat, S # {}, NEW b \in Nat, \A i \in S : i <= b
  PROVE  Highest(S) \in S /\ \A j \in S : j <= Highest(S)
<1> DEFINE B == {n \in Nat : \A i \in S : i <= n}
<1>1. B \in SUBSET Nat /\ B # {}
  OBVIOUS
<1> DEFINE m == Lowest(B)
<1>2. m \in B /\ \A j \in B : m <= j
  BY <1>1, LowestIsLeast
<1> HIDE DEF m
<1>3. m \in S
  <2> SUFFICES ASSUME m \notin S PROVE FALSE
    OBVIOUS
  <2>1. \A i \in S : i < m
    BY <1>2
  <2>2. m > 0
    <3>1. PICK i \in S : i < m
      BY <2>1
    <3> QED BY <3>1, <1>2
  <2>3. m - 1 \in B
    BY <2>1, <2>2, <1>2
  <2> QED BY <2>3, <1>2
<1>4. \A j \in S : j <= m
  BY <1>2
<1> QED BY <1>3, <1>4 DEF Highest

-----------------------------------------------------------------------------
(* The inductive invariant *)

(* Ids are given out one after the other, and a process has handled none    *)
(* that was not given out.                                                  *)
IdInv ==
  /\ \E n \in 0..MaxUpdates : DOMAIN updates = 1..n
  /\ \A p \in Processes : lastUpdate[p] \in DOMAIN updates \cup {0}

(* A keyboard, and a tap on one, belong to a question that was asked; a tap *)
(* is an option of its keyboard's.                                          *)
Asked(q) == q.n <= question[q.by].n
ChatInv ==
  /\ \A q \in keyboards : Asked(q)
  /\ \A i \in DOMAIN updates : updates[i].tapped \in Questions =>
       /\ Asked(updates[i].tapped)
       /\ updates[i].ours /\ updates[i].text \in updates[i].tapped.options

(* Who waits or acknowledges has a question of its own; what it took is     *)
(* handled, and an answer to that question.                                 *)
AskInv ==
  /\ \A p \in Processes : question[p] # NoQuestion => question[p].by = p
  /\ \A p \in Processes : pc[p] \in {"poll", "ack"} => question[p] # NoQuestion
  /\ \A p \in Processes : pc[p] = "ack" =>
       /\ took[p] \in DOMAIN updates /\ took[p] <= lastUpdate[p]
       /\ Matches(updates[took[p]], p)

(* An update that was a reply is handled, and is older than the one at hand. *)
ReplyInv ==
  /\ \A r \in replies : r.update \in DOMAIN updates /\ r.update <= lastUpdate[r.question.by]
  /\ \A r \in replies : pc[r.question.by] = "ack" => r.update < took[r.question.by]

IInv == TypeOK /\ IdInv /\ ChatInv /\ AskInv /\ ReplyInv /\ OneQuestionPerTap /\ NoTapPassedOver

(* What a question is made of, and that NoQuestion is none. *)
LEMMA QuestionFacts ==
  /\ NoQuestion \notin Questions
  /\ \A q \in Questions : q.by \in Processes /\ q.n \in 1..MaxAsks /\ q.options \in OptionSets
BY DEF NoQuestion, Questions

(* Nothing has been asked at the start. *)
LEMMA InitIInv == Init => IInv
<1> SUFFICES ASSUME Init PROVE IInv
  OBVIOUS
<1> USE TelegramAssumption
<1>1. TypeOK
  BY DEF Init, TypeOK
<1>2. IdInv
  <2>1. DOMAIN updates = 1..0
    BY DEF Init
  <2> QED BY <2>1 DEF Init, IdInv
<1>3. ChatInv /\ AskInv /\ ReplyInv /\ OneQuestionPerTap /\ NoTapPassedOver
  BY DEF Init, ChatInv, AskInv, ReplyInv, OneQuestionPerTap, NoTapPassedOver
<1> QED BY <1>1, <1>2, <1>3 DEF IInv

-----------------------------------------------------------------------------
(* The chat *)

Legal(u) ==
  /\ u \in Updates
  /\ u.tapped # NoQuestion => u.tapped \in keyboards /\ u.ours /\ u.text \in u.tapped.options

(* A new update is a tap on a keyboard that is there, or typed. *)
LEMMA UpdatesAreLegal ==
  ASSUME TypeOK, Tap \/ Type
  PROVE  \E u : Legal(u) /\ NewUpdate(u)
<1>1. CASE Tap
  <2>1. PICK q \in keyboards : \E opt \in q.options :
          NewUpdate([ours |-> TRUE, text |-> opt, tapped |-> q])
    BY <1>1 DEF Tap
  <2> PICK opt \in q.options : NewUpdate([ours |-> TRUE, text |-> opt, tapped |-> q])
    BY <2>1
  <2>2. q \in Questions /\ q.options \in OptionSets
    BY QuestionFacts DEF TypeOK
  <2>3. Legal([ours |-> TRUE, text |-> opt, tapped |-> q])
    BY <2>2 DEF Legal, Updates, Texts
  <2> QED BY <2>3
<1>2. CASE Type
  <2>1. PICK ours \in BOOLEAN, t \in Texts :
          NewUpdate([ours |-> ours, text |-> t, tapped |-> NoQuestion])
    BY <1>2 DEF Type
  <2>2. Legal([ours |-> ours, text |-> t, tapped |-> NoQuestion])
    BY DEF Legal, Updates
  <2> QED BY <2>1, <2>2
<1> QED BY <1>1, <1>2

(* It gets the id after the highest, which no process has handled. *)
LEMMA NewUpdateStep ==
  ASSUME IInv, NEW u, Legal(u), NewUpdate(u)
  PROVE  IInv'
<1> USE TelegramAssumption
<1> PICK n \in 0..MaxUpdates : DOMAIN updates = 1..n
  BY DEF IInv, IdInv
<1>1. Cardinality(DOMAIN updates) = n
  BY FS_Interval
<1>2. /\ n + 1 \in 1..MaxUpdates
      /\ updates' = [i \in 1..(n+1) |-> IF i = n + 1 THEN u ELSE updates[i]]
      /\ queue' = queue \cup {n + 1}
      /\ UNCHANGED <<keyboards, client>>
  <2>1. 1..n \cup {n + 1} = 1..(n + 1)
    OBVIOUS
  <2> QED BY <1>1, <2>1 DEF NewUpdate
<1>3. DOMAIN updates' = 1..(n+1) /\ \A i \in 1..n : updates'[i] = updates[i]
  BY <1>2
<1>4. \A p \in Processes : lastUpdate[p] \in 0..n
  BY DEF IInv, IdInv
<1>5. TypeOK'
  BY <1>2 DEF IInv, TypeOK, Legal, client
<1>6. IdInv'
  BY <1>2, <1>3 DEF IInv, IdInv, client
<1>7. ChatInv'
  BY <1>2, <1>3, QuestionFacts DEF IInv, ChatInv, Legal, client, Asked
<1>8. AskInv'
  BY <1>2, <1>3 DEF IInv, AskInv, Matches, matchChat, normalizeOption, client
<1>9. ReplyInv' /\ OneQuestionPerTap'
  BY <1>2, <1>3 DEF IInv, ReplyInv, OneQuestionPerTap, client
<1>10. NoTapPassedOver'
  BY <1>2, <1>3, <1>4 DEF IInv, TypeOK, NoTapPassedOver, client
<1> QED BY <1>5, <1>6, <1>7, <1>8, <1>9, <1>10 DEF IInv

-----------------------------------------------------------------------------
(* Ask *)

(* Nobody can have tapped on a question before it is asked. *)
LEMMA SendQuestionStep ==
  ASSUME IInv, NEW p \in Processes, NEW options \in OptionSets, SendQuestion(p, options)
  PROVE  IInv'
<1> USE TelegramAssumption
<1> PICK q : q = [by |-> p, n |-> question[p].n + 1, options |-> options]
  OBVIOUS
<1>1. /\ question[p].n \in Nat /\ q \in Questions /\ q # NoQuestion
      /\ \A r \in Processes : question[r].n \in Nat
  BY QuestionFacts DEF IInv, TypeOK, SendQuestion, NoQuestion, Questions
<1>2. /\ question' = [question EXCEPT ![p] = q]
      /\ took' = [took EXCEPT ![p] = 0]
      /\ keyboards' \in {keyboards, keyboards \cup {q}}
      /\ pc' \in {pc, [pc EXCEPT ![p] = "poll"]}
      /\ pc[p] = "idle"
      /\ UNCHANGED <<updates, queue, lastUpdate, replies>>
  BY DEF SendQuestion
<1>3. \A r \in Questions : Asked(r) => Asked(r)' /\ r # q
  BY <1>1, <1>2, QuestionFacts DEF Asked, IInv, TypeOK
<1>4. TypeOK'
  BY <1>1, <1>2 DEF IInv, TypeOK
<1>5. IdInv'
  BY <1>2 DEF IInv, IdInv
<1>6. ChatInv'
  <2>1. Asked(q)'
    BY <1>1, <1>2 DEF Asked, IInv, TypeOK
  <2> QED BY <1>2, <1>3, <2>1 DEF IInv, TypeOK, ChatInv
<1>7. AskInv'
  BY <1>1, <1>2 DEF IInv, TypeOK, AskInv, Matches, matchChat, normalizeOption
<1>8. ReplyInv' /\ OneQuestionPerTap'
  <2>1. \A r \in replies : r.question.by \in Processes
    BY QuestionFacts DEF IInv, TypeOK
  <2>2. pc'[p] # "ack" /\ \A r \in Processes \ {p} : pc'[r] = pc[r] /\ took'[r] = took[r]
    BY <1>2 DEF IInv, TypeOK
  <2> QED BY <1>2, <2>1, <2>2 DEF IInv, ReplyInv, OneQuestionPerTap
<1>9. NoTapPassedOver'
  BY <1>1, <1>2, <1>3 DEF IInv, TypeOK, NoTapPassedOver, ChatInv
<1> QED BY <1>4, <1>5, <1>6, <1>7, <1>8, <1>9 DEF IInv

(* Poll hands back an update above every one it handled, and stops there.   *)
LEMMA PollStep ==
  ASSUME IInv, NEW p \in Processes, Poll(p)
  PROVE  IInv'
<1> USE TelegramAssumption
<1> PICK n \in 0..MaxUpdates : DOMAIN updates = 1..n
  BY DEF IInv, IdInv
<1>1. /\ pc[p] = "poll" /\ lastUpdate[p] \in 0..n
      /\ Kept(p) \subseteq queue /\ Kept(p) \subseteq 1..n
      /\ Matching(p) \subseteq Kept(p)
      /\ \A i \in Kept(p) : i > lastUpdate[p]
  BY DEF Poll, IInv, TypeOK, IdInv, Kept, Matching
<1>2. /\ queue' = Kept(p) /\ lastUpdate' = [lastUpdate EXCEPT ![p] = Handled(p)]
      /\ UNCHANGED <<updates, keyboards, question, replies>>
  BY DEF Poll
<1>3. Handled(p) \in 0..n /\ lastUpdate[p] <= Handled(p)
  <2> PICK S : S = {lastUpdate[p]} \cup
                 IF Matching(p) = {} THEN Kept(p) ELSE {Lowest(Matching(p))}
    OBVIOUS
  <2>1. Matching(p) # {} => Lowest(Matching(p)) \in Matching(p)
    BY <1>1, LowestIsLeast
  <2>2. S \in SUBSET (0..n) /\ S # {}
    BY <1>1, <2>1
  <2>3. S \in SUBSET Nat /\ n \in Nat /\ \A j \in S : j <= n
    BY <2>2
  <2>4. Highest(S) \in S /\ \A j \in S : j <= Highest(S)
    BY <2>2, <2>3, HighestIsGreatest
  <2> QED BY <2>2, <2>4 DEF Handled
<1>4. CASE Matching(p) = {}
  <2>1. UNCHANGED <<pc, took>>
    BY <1>4 DEF Poll
  <2>2. \A i \in Kept(p) : updates[i].tapped # question[p]
    <3> SUFFICES ASSUME NEW i \in Kept(p), updates[i].tapped = question[p] PROVE FALSE
      OBVIOUS
    <3>1. question[p] \in Questions
      BY <1>1 DEF IInv, AskInv, TypeOK
    <3>2. Matches(updates[i], p)
      BY <3>1, <1>1 DEF IInv, ChatInv, Matches, matchChat, normalizeOption
    <3> QED BY <3>2, <1>4 DEF Matching
  <2>3. TypeOK' /\ IdInv'
    <3>1. TypeOK'
      BY <1>1, <1>2, <1>3, <2>1 DEF IInv, TypeOK
    <3>2. IdInv'
      BY <1>2, <1>3 DEF IInv, TypeOK, IdInv
    <3> QED BY <3>1, <3>2
  <2>4. ChatInv' /\ OneQuestionPerTap'
    BY <1>2 DEF IInv, ChatInv, OneQuestionPerTap, Asked
  <2>5. AskInv'
    BY <1>1, <1>2, <2>1 DEF IInv, TypeOK, AskInv, Matches, matchChat, normalizeOption
  <2>6. ReplyInv'
    BY <1>1, <1>2, <1>3, <2>1, QuestionFacts DEF IInv, TypeOK, ReplyInv
  <2>7. NoTapPassedOver'
    BY <1>1, <1>2, <2>1, <2>2 DEF IInv, TypeOK, NoTapPassedOver
  <2> QED BY <2>3, <2>4, <2>5, <2>6, <2>7 DEF IInv
<1>5. CASE Matching(p) # {}
  <2> PICK i : i = Lowest(Matching(p))
    OBVIOUS
  <2>1. i \in Matching(p)
    BY <1>1, <1>5, LowestIsLeast
  <2>2. i \in 1..n /\ i > lastUpdate[p] /\ Matches(updates[i], p)
    BY <1>1, <2>1 DEF Matching
  <2>3. took' = [took EXCEPT ![p] = i] /\ pc' = [pc EXCEPT ![p] = "ack"]
    BY <1>5 DEF Poll
  <2>4. i <= Handled(p)
    <3>1. Handled(p) = Highest({lastUpdate[p], i})
      BY <1>5 DEF Handled
    <3>2. /\ {lastUpdate[p], i} \in SUBSET Nat /\ n \in Nat
          /\ \A j \in {lastUpdate[p], i} : j <= n
      BY <1>1, <2>2
    <3>3. \A j \in {lastUpdate[p], i} : j <= Highest({lastUpdate[p], i})
      BY <3>2, HighestIsGreatest
    <3> QED BY <3>1, <3>3
  <2>5. TypeOK' /\ IdInv'
    <3>1. TypeOK'
      BY <1>1, <1>2, <1>3, <2>2, <2>3 DEF IInv, TypeOK
    <3>2. IdInv'
      BY <1>2, <1>3 DEF IInv, TypeOK, IdInv
    <3> QED BY <3>1, <3>2
  <2>6. ChatInv' /\ OneQuestionPerTap'
    BY <1>2 DEF IInv, ChatInv, OneQuestionPerTap, Asked
  <2>7. AskInv'
    BY <1>1, <1>2, <1>3, <2>2, <2>3, <2>4
       DEF IInv, TypeOK, AskInv, Matches, matchChat, normalizeOption
  <2>8. ReplyInv'
    <3>1. \A r \in replies : r.question.by \in Processes /\ r.update \in 1..n
      BY QuestionFacts DEF IInv, TypeOK, ReplyInv
    <3>2. \A r \in replies : r.update <= lastUpdate'[r.question.by]
      BY <1>1, <1>2, <1>3, <3>1 DEF IInv, TypeOK, ReplyInv
    <3>3. ASSUME NEW r \in replies, pc'[r.question.by] = "ack"
          PROVE  r.update < took'[r.question.by]
      BY <1>1, <2>2, <2>3, <3>1, <3>3 DEF IInv, TypeOK, ReplyInv
    <3> QED BY <1>2, <3>1, <3>2, <3>3 DEF IInv, ReplyInv
  <2>9. NoTapPassedOver'
    BY <1>1, <1>2, <2>3 DEF IInv, TypeOK, NoTapPassedOver
  <2> QED BY <2>5, <2>6, <2>7, <2>8, <2>9 DEF IInv
<1> QED BY <1>4, <1>5

(* A failed or timed out poll takes nothing and may lose updates of the queue. *)
LEMMA PollFailsStep ==
  ASSUME IInv, NEW p \in Processes, PollFails(p)
  PROVE  IInv'
<1>1. /\ queue' \subseteq queue /\ pc' = [pc EXCEPT ![p] = "idle"]
      /\ UNCHANGED <<updates, keyboards, lastUpdate, question, took, replies>>
  BY DEF PollFails, Kept
<1>2. TypeOK' /\ IdInv'
  BY <1>1 DEF IInv, TypeOK, IdInv
<1>3. ChatInv' /\ OneQuestionPerTap'
  BY <1>1 DEF IInv, ChatInv, OneQuestionPerTap, Asked
<1>4. AskInv'
  BY <1>1 DEF IInv, TypeOK, AskInv, Matches, matchChat, normalizeOption
<1>5. ReplyInv'
  BY <1>1, QuestionFacts DEF IInv, TypeOK, ReplyInv
<1>6. NoTapPassedOver'
  BY <1>1 DEF IInv, TypeOK, NoTapPassedOver
<1> QED BY <1>2, <1>3, <1>4, <1>5, <1>6 DEF IInv

(* The new reply is by the update at hand, which no earlier one is by. *)
LEMMA AcknowledgeStep ==
  ASSUME IInv, NEW p \in Processes, Acknowledge(p)
  PROVE  IInv'
<1> PICK r : r = [question |-> question[p], reply |-> updates[took[p]].text, update |-> took[p]]
  OBVIOUS
<1>1. /\ keyboards' \subseteq keyboards /\ replies' = replies \cup {r}
      /\ pc[p] = "ack" /\ pc' = [pc EXCEPT ![p] = "idle"]
      /\ UNCHANGED <<updates, queue, lastUpdate, question, took>>
  BY DEF Acknowledge
<1>2. /\ question[p] \in Questions /\ question[p].by = p
      /\ took[p] \in DOMAIN updates /\ took[p] <= lastUpdate[p]
      /\ updates[took[p]].ours /\ updates[took[p]].text \in question[p].options
  BY <1>1 DEF IInv, TypeOK, AskInv, Matches, matchChat, normalizeOption
<1>3. /\ r \in [question : Questions, reply : UNION OptionSets, update : 1..MaxUpdates]
      /\ r.question.by = p /\ r.update = took[p] /\ r.reply \in r.question.options
  BY <1>2, QuestionFacts DEF IInv, TypeOK
<1>4. TypeOK' /\ IdInv'
  BY <1>1, <1>3 DEF IInv, TypeOK, IdInv
<1>5. ChatInv'
  BY <1>1 DEF IInv, ChatInv, Asked
<1>6. AskInv'
  BY <1>1 DEF IInv, TypeOK, AskInv, Matches, matchChat, normalizeOption
<1>7. ReplyInv'
  BY <1>1, <1>2, <1>3, QuestionFacts DEF IInv, TypeOK, ReplyInv
<1>8. OneQuestionPerTap'
  <2>1. \A s \in replies : s.question.by = p => s.update # r.update
    BY <1>1, <1>3 DEF IInv, TypeOK, ReplyInv
  <2> QED BY <1>1, <1>2, <1>3, <2>1 DEF IInv, OneQuestionPerTap
<1>9. NoTapPassedOver'
  BY <1>1 DEF IInv, TypeOK, NoTapPassedOver
<1> QED BY <1>4, <1>5, <1>6, <1>7, <1>8, <1>9 DEF IInv

(* A process that is gone waits for nothing. *)
LEMMA ExitStep ==
  ASSUME IInv, NEW p \in Processes, Exit(p)
  PROVE  IInv'
<1>1. /\ pc' = [pc EXCEPT ![p] = "gone"]
      /\ UNCHANGED <<updates, queue, keyboards, lastUpdate, question, took, replies>>
  BY DEF Exit, service
<1>2. TypeOK' /\ IdInv'
  BY <1>1 DEF IInv, TypeOK, IdInv
<1>3. ChatInv' /\ OneQuestionPerTap'
  BY <1>1 DEF IInv, ChatInv, OneQuestionPerTap, Asked
<1>4. AskInv'
  BY <1>1 DEF IInv, TypeOK, AskInv, Matches, matchChat, normalizeOption
<1>5. ReplyInv'
  BY <1>1, QuestionFacts DEF IInv, TypeOK, ReplyInv
<1>6. NoTapPassedOver'
  BY <1>1 DEF IInv, TypeOK, NoTapPassedOver
<1> QED BY <1>2, <1>3, <1>4, <1>5, <1>6 DEF IInv

(* A step that changes nothing. *)
LEMMA StutterStep ==
  ASSUME IInv, UNCHANGED vars
  PROVE  IInv'
<1>1. UNCHANGED <<updates, queue, keyboards, pc, lastUpdate, question, took, replies>>
  BY DEF vars, service, client
<1>2. TypeOK' /\ IdInv' /\ ChatInv'
  BY <1>1 DEF IInv, TypeOK, IdInv, ChatInv, Asked
<1>3. AskInv' /\ ReplyInv' /\ OneQuestionPerTap' /\ NoTapPassedOver'
  BY <1>1 DEF IInv, AskInv, Matches, matchChat, normalizeOption, ReplyInv, OneQuestionPerTap,
              NoTapPassedOver
<1> QED BY <1>2, <1>3 DEF IInv

-----------------------------------------------------------------------------
(* Theorems *)

(* Every step of the chat and of the processes preserves the invariant. *)
LEMMA StepIInv == IInv /\ [Next]_vars => IInv'
<1> SUFFICES ASSUME IInv, [Next]_vars PROVE IInv'
  OBVIOUS
<1>1. CASE Tap \/ Type
  <2>1. PICK u : Legal(u) /\ NewUpdate(u)
    BY <1>1, UpdatesAreLegal DEF IInv
  <2> QED BY <2>1, NewUpdateStep
<1>2. ASSUME NEW p \in Processes, NEW options \in OptionSets, SendQuestion(p, options)
      PROVE  IInv'
  BY <1>2, SendQuestionStep
<1>3. ASSUME NEW p \in Processes, Poll(p) PROVE IInv'
  BY <1>3, PollStep
<1>4. ASSUME NEW p \in Processes, PollFails(p) PROVE IInv'
  BY <1>4, PollFailsStep
<1>5. ASSUME NEW p \in Processes, Acknowledge(p) PROVE IInv'
  BY <1>5, AcknowledgeStep
<1>6. ASSUME NEW p \in Processes, Exit(p) PROVE IInv'
  BY <1>6, ExitStep
<1>7. CASE UNCHANGED vars
  BY <1>7, StutterStep
<1> QED BY <1>1, <1>2, <1>3, <1>4, <1>5, <1>6, <1>7 DEF Next

(* Every state of every conversation satisfies the invariant. *)
THEOREM InductiveInvariant == Spec => []IInv
<1> QED BY InitIInv, StepIInv, PTL DEF Spec

(* The variables of the processes, the chat and the Bot API keep their types, *)
(* and the queue holds updates that happened.                               *)
THEOREM TypeCorrect == Spec => []TypeOK
<1>1. IInv => TypeOK
  BY DEF IInv
<1> QED BY <1>1, InductiveInvariant, PTL

(* Whatever Ask returns was offered with the question and said in the        *)
(* configured chat, and one tap never answers two questions of a process.   *)
THEOREM TapsAnswerOnce == Spec => []OneQuestionPerTap
<1>1. IInv => OneQuestionPerTap
  BY DEF IInv
<1> QED BY <1>1, InductiveInvariant, PTL

(* A process never moves its offset past a tap on the question it waits for. *)
THEOREM TapsAreSeen == Spec => []NoTapPassedOver
<1>1. IInv => NoTapPassedOver
  BY DEF IInv
<1> QED BY <1>1, InductiveInvariant, PTL
=============================================================================
