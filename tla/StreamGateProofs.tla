-------------------------- MODULE StreamGateProofs --------------------------
(***************************************************************************)
(* Proofs about StreamGate, for streams of any length, any policies, tools *)
(* and pieces: the types; that nothing of a stream is lost, doubled or     *)
(* reordered; that a denied call does not reach the client; and that       *)
(* nothing else is refused.                                                *)
(***************************************************************************)
EXTENDS StreamGate, SequenceTheorems, WellFoundedInduction, TLAPS

-----------------------------------------------------------------------------
(* Writing and holding keep the order                                      *)
(*                                                                         *)
(* o is what the client has, h what is held, N how many events were read,  *)
(* E those that were not dropped and C those that are comments.            *)

Outputs(N) == [refused : BOOLEAN, ids : SUBSET (1..N)]

Sorted(h) == \A k, l \in DOMAIN h : k < l => h[k] < h[l]

InOrder(o, h, C, E, N) ==
  /\ o \in Seq(Outputs(N)) /\ h \in Seq(1..N)
  /\ (UNION {o[k].ids : k \in DOMAIN o}) \cup {h[k] : k \in DOMAIN h} = E
  /\ \A k, l \in DOMAIN o : k < l =>
       \A m \in o[k].ids, n \in o[l].ids : m < n \/ (m # n /\ (m \in C \/ n \in C))
  /\ \A k \in DOMAIN o, l \in DOMAIN h :
       \A m \in o[k].ids : m < h[l] \/ (m # h[l] /\ m \in C)
  /\ Sorted(h)

(* What is written is events that were read. *)
LEMMA OutputsAreRead ==
  ASSUME NEW N \in Nat, NEW o \in Seq(Outputs(N))
  PROVE  DOMAIN o = 1..Len(o) /\ \A k \in DOMAIN o : o[k].ids \subseteq 1..N
<1>1. DOMAIN o = 1..Len(o)
  OBVIOUS
<1>2. ASSUME NEW k \in DOMAIN o PROVE o[k].ids \subseteq 1..N
  <2>1. o[k] \in Outputs(N)
    BY <1>1, ElementOfSeq
  <2> QED BY <2>1 DEF Outputs
<1> QED BY <1>1, <1>2

(* A new event is written past what is held only if it is a comment. *)
LEMMA ThroughKeepsOrder ==
  ASSUME NEW N \in Nat, NEW C, NEW D, NEW E, NEW o, NEW h, InOrder(o, h, C, E, N),
         C \subseteq D, h = <<>> \/ N + 1 \in D
  PROVE  InOrder(Append(o, Written(N + 1)), h, D, E \cup {N + 1}, N + 1)
<1>0. PICK p : p = Append(o, Written(N + 1))
  OBVIOUS
<1> USE <1>0
<1>1. Outputs(N) \subseteq Outputs(N + 1) /\ Written(N + 1) \in Outputs(N + 1)
  BY DEF Outputs, Written
<1>2. o \in Seq(Outputs(N + 1)) /\ h \in Seq(1..(N + 1))
  <2>1. 1..N \subseteq 1..(N + 1)
    OBVIOUS
  <2> QED BY <1>1, <2>1, SeqMonotonic DEF InOrder
<1>3. /\ p \in Seq(Outputs(N + 1)) /\ Len(p) = Len(o) + 1 /\ Len(o) \in Nat
      /\ DOMAIN p = 1..(Len(o) + 1) /\ DOMAIN o = 1..Len(o)
      /\ \A k \in 1..Len(o) : p[k] = o[k]
      /\ p[Len(o) + 1].ids = {N + 1}
  <2>1. /\ p \in Seq(Outputs(N + 1)) /\ Len(p) = Len(o) + 1
        /\ \A k \in 1..Len(o) : p[k] = o[k]
        /\ p[Len(o) + 1] = Written(N + 1)
    BY <1>1, <1>2, AppendProperties
  <2>2. Len(o) \in Nat /\ DOMAIN o = 1..Len(o) /\ DOMAIN p = 1..Len(p)
    BY <1>2, <2>1, LenProperties
  <2> QED BY <2>1, <2>2 DEF Written
<1>4. \A k \in DOMAIN o : o[k].ids \subseteq 1..N
  <2>1. o \in Seq(Outputs(N))
    BY DEF InOrder
  <2> QED BY ONLY <2>1, N \in Nat, OutputsAreRead
<1>5. DOMAIN h = 1..Len(h) /\ \A l \in DOMAIN h : h[l] \in 1..N
  BY DEF InOrder
<1>6. (UNION {p[k].ids : k \in DOMAIN p}) \cup {h[k] : k \in DOMAIN h} = E \cup {N + 1}
  <2>1. UNION {p[k].ids : k \in DOMAIN p} = (UNION {o[k].ids : k \in DOMAIN o}) \cup {N + 1}
    BY <1>3
  <2> QED BY <2>1 DEF InOrder
<1>7. \A k, l \in DOMAIN p : k < l =>
        \A m \in p[k].ids, n \in p[l].ids : m < n \/ (m # n /\ (m \in D \/ n \in D))
  <2> SUFFICES ASSUME NEW k \in DOMAIN p, NEW l \in DOMAIN p, k < l,
                      NEW m \in p[k].ids, NEW n \in p[l].ids
               PROVE  m < n \/ (m # n /\ (m \in D \/ n \in D))
    OBVIOUS
  <2>1. CASE l \in DOMAIN o
    BY <1>3, <2>1 DEF InOrder
  <2>2. CASE l \notin DOMAIN o
    BY <1>3, <1>4, <2>2
  <2> QED BY <2>1, <2>2
<1>8. \A k \in DOMAIN p, l \in DOMAIN h :
        \A m \in p[k].ids : m < h[l] \/ (m # h[l] /\ m \in D)
  <2> SUFFICES ASSUME NEW k \in DOMAIN p, NEW l \in DOMAIN h, NEW m \in p[k].ids
               PROVE  m < h[l] \/ (m # h[l] /\ m \in D)
    OBVIOUS
  <2>1. CASE k \in DOMAIN o
    BY <1>3, <2>1 DEF InOrder
  <2>2. CASE k \notin DOMAIN o
    BY <1>3, <1>5, <2>2
  <2> QED BY <2>1, <2>2
<1>9. Sorted(h)
  BY DEF InOrder
<1>10. InOrder(p, h, D, E \cup {N + 1}, N + 1)
  BY ONLY <1>2, <1>3, <1>6, <1>7, <1>8, <1>9 DEF InOrder
<1> QED BY ONLY <1>0, <1>10

(* A new event is held after all the others. *)
LEMMA HoldKeepsOrder ==
  ASSUME NEW N \in Nat, NEW C, NEW D, NEW E, NEW o, NEW h, InOrder(o, h, C, E, N), C \subseteq D
  PROVE  InOrder(o, Append(h, N + 1), D, E \cup {N + 1}, N + 1)
<1> PICK p : p = Append(h, N + 1)
  OBVIOUS
<1>1. Outputs(N) \subseteq Outputs(N + 1)
  BY DEF Outputs
<1>2. o \in Seq(Outputs(N + 1)) /\ h \in Seq(1..(N + 1))
  <2>1. 1..N \subseteq 1..(N + 1)
    OBVIOUS
  <2> QED BY <1>1, <2>1, SeqMonotonic DEF InOrder
<1>3. /\ p \in Seq(1..(N + 1)) /\ Len(h) \in Nat
      /\ DOMAIN p = 1..(Len(h) + 1) /\ DOMAIN h = 1..Len(h)
      /\ \A k \in 1..Len(h) : p[k] = h[k] /\ h[k] \in 1..N
      /\ p[Len(h) + 1] = N + 1
  <2>1. /\ p \in Seq(1..(N + 1)) /\ Len(p) = Len(h) + 1
        /\ \A k \in 1..Len(h) : p[k] = h[k]
        /\ p[Len(h) + 1] = N + 1
    BY <1>2, AppendProperties
  <2>2. Len(h) \in Nat /\ DOMAIN h = 1..Len(h) /\ DOMAIN p = 1..Len(p)
    BY <1>2, <2>1, LenProperties
  <2>3. \A k \in 1..Len(h) : h[k] \in 1..N
    BY DEF InOrder
  <2> QED BY <2>1, <2>2, <2>3
<1>4. \A k \in DOMAIN o : o[k].ids \subseteq 1..N
  <2>1. o \in Seq(Outputs(N))
    BY DEF InOrder
  <2> QED BY ONLY <2>1, N \in Nat, OutputsAreRead
<1>5. (UNION {o[k].ids : k \in DOMAIN o}) \cup {p[k] : k \in DOMAIN p} = E \cup {N + 1}
  <2>1. {p[k] : k \in DOMAIN p} = {h[k] : k \in DOMAIN h} \cup {N + 1}
    <3>1. \A k \in DOMAIN p : p[k] = N + 1 \/ (k \in DOMAIN h /\ p[k] = h[k])
      BY ONLY <1>3
    <3>2. \A k \in DOMAIN h : k \in DOMAIN p /\ p[k] = h[k]
      BY ONLY <1>3
    <3>3. PICK k \in DOMAIN p : p[k] = N + 1
      BY ONLY <1>3
    <3> QED BY ONLY <3>1, <3>2, <3>3
  <2> QED BY <2>1 DEF InOrder
<1>6. \A k, l \in DOMAIN o : k < l =>
        \A m \in o[k].ids, n \in o[l].ids : m < n \/ (m # n /\ (m \in D \/ n \in D))
  BY DEF InOrder
<1>7. \A k \in DOMAIN o, l \in DOMAIN p :
        \A m \in o[k].ids : m < p[l] \/ (m # p[l] /\ m \in D)
  <2> SUFFICES ASSUME NEW k \in DOMAIN o, NEW l \in DOMAIN p, NEW m \in o[k].ids
               PROVE  m < p[l] \/ (m # p[l] /\ m \in D)
    OBVIOUS
  <2>1. CASE l \in DOMAIN h
    BY <1>3, <2>1 DEF InOrder
  <2>2. CASE l \notin DOMAIN h
    BY <1>3, <1>4, <2>2
  <2> QED BY <2>1, <2>2
<1>8. Sorted(p)
  BY <1>3 DEF InOrder, Sorted
<1>9. InOrder(o, p, D, E \cup {N + 1}, N + 1)
  BY ONLY <1>2, <1>3, <1>5, <1>6, <1>7, <1>8 DEF InOrder
<1> QED BY <1>9

(* An event that is dropped takes no place. *)
LEMMA DropKeepsOrder ==
  ASSUME NEW N \in Nat, NEW C, NEW D, NEW E, NEW o, NEW h, InOrder(o, h, C, E, N), C \subseteq D
  PROVE  InOrder(o, h, D, E, N + 1)
<1>1. Outputs(N) \subseteq Outputs(N + 1) /\ 1..N \subseteq 1..(N + 1)
  BY DEF Outputs
<1>2. o \in Seq(Outputs(N + 1)) /\ h \in Seq(1..(N + 1))
  BY <1>1, SeqMonotonic DEF InOrder
<1> QED BY <1>2 DEF InOrder

(* What is held is written, each event by itself or all as one refusal. *)
LEMMA EmitKeepsOrder ==
  ASSUME NEW N \in Nat, NEW C, NEW E, NEW o, NEW h, InOrder(o, h, C, E, N),
         NEW w, w = AsTheyCame(h) \/ w = <<Refusal(h)>>
  PROVE  InOrder(o \o w, <<>>, C, E, N)
<1> PICK p : p = o \o w
  OBVIOUS
<1>1. /\ h \in Seq(1..N) /\ Len(h) \in Nat /\ DOMAIN h = 1..Len(h)
      /\ \A k \in DOMAIN h : h[k] \in 1..N
  BY DEF InOrder
<1>2. /\ w \in Seq(Outputs(N))
      /\ UNION {w[k].ids : k \in DOMAIN w} = {h[k] : k \in DOMAIN h}
      /\ \A k, l \in DOMAIN w : k < l => \A m \in w[k].ids, n \in w[l].ids : m < n
  <2>1. CASE w = AsTheyCame(h)
    <3>1. w = [i \in 1..Len(h) |-> Written(h[i])]
      BY <1>1, <2>1 DEF AsTheyCame
    <3>2. \A i \in 1..Len(h) : Written(h[i]) \in Outputs(N) /\ Written(h[i]).ids = {h[i]}
      BY <1>1 DEF Written, Outputs
    <3>3. w \in Seq(Outputs(N))
      BY <1>1, <3>1, <3>2
    <3>4. DOMAIN w = DOMAIN h /\ \A k \in DOMAIN w : w[k].ids = {h[k]}
      BY <1>1, <3>1, <3>2
    <3>5. UNION {w[k].ids : k \in DOMAIN w} = {h[k] : k \in DOMAIN h}
      BY <3>4
    <3>6. \A k, l \in DOMAIN w : k < l => h[k] < h[l]
      BY <3>4 DEF InOrder, Sorted
    <3>7. \A k, l \in DOMAIN w : k < l => \A m \in w[k].ids, n \in w[l].ids : m < n
      BY ONLY <3>4, <3>6
    <3> QED BY ONLY <3>3, <3>5, <3>7
  <2>2. CASE w = <<Refusal(h)>>
    <3>1. /\ Refusal(h) \in Outputs(N) /\ Refusal(h).ids = {h[k] : k \in DOMAIN h}
      BY <1>1 DEF Refusal, Outputs
    <3>2. w \in Seq(Outputs(N)) /\ DOMAIN w = {1} /\ w[1] = Refusal(h)
      BY <2>2, <3>1
    <3> QED BY <3>1, <3>2
  <2> QED BY <2>1, <2>2
<1>3. /\ p \in Seq(Outputs(N)) /\ Len(o) \in Nat /\ Len(w) \in Nat
      /\ DOMAIN o = 1..Len(o) /\ DOMAIN w = 1..Len(w) /\ DOMAIN p = 1..(Len(o) + Len(w))
      /\ \A k \in DOMAIN p : p[k] = IF k <= Len(o) THEN o[k] ELSE w[k - Len(o)]
  <2>1. o \in Seq(Outputs(N))
    BY DEF InOrder
  <2>2. /\ p \in Seq(Outputs(N)) /\ Len(p) = Len(o) + Len(w)
        /\ \A k \in 1..(Len(o) + Len(w)) : p[k] = IF k <= Len(o) THEN o[k] ELSE w[k - Len(o)]
    BY <1>2, <2>1, ConcatProperties
  <2>3. /\ Len(o) \in Nat /\ Len(w) \in Nat /\ DOMAIN p = 1..Len(p)
        /\ DOMAIN o = 1..Len(o) /\ DOMAIN w = 1..Len(w)
    BY <1>2, <2>1, <2>2, LenProperties
  <2> QED BY <2>2, <2>3
<1>4. UNION {p[k].ids : k \in DOMAIN p} = E
  <2>1. \A k \in DOMAIN p : \/ k \in DOMAIN o /\ p[k] = o[k]
                            \/ k - Len(o) \in DOMAIN w /\ p[k] = w[k - Len(o)]
    BY <1>3
  <2>2. /\ \A k \in DOMAIN o : k \in DOMAIN p /\ p[k] = o[k]
        /\ \A k \in DOMAIN w : k + Len(o) \in DOMAIN p /\ p[k + Len(o)] = w[k]
    BY <1>3
  <2>3. UNION {p[k].ids : k \in DOMAIN p} =
          (UNION {o[k].ids : k \in DOMAIN o}) \cup (UNION {w[k].ids : k \in DOMAIN w})
    <3>1. ASSUME NEW n, NEW k \in DOMAIN p, n \in p[k].ids
          PROVE  \/ \E i \in DOMAIN o : n \in o[i].ids
                 \/ \E i \in DOMAIN w : n \in w[i].ids
      BY <2>1, <3>1
    <3>2. ASSUME NEW n, \/ \E i \in DOMAIN o : n \in o[i].ids
                        \/ \E i \in DOMAIN w : n \in w[i].ids
          PROVE  \E k \in DOMAIN p : n \in p[k].ids
      BY <2>2, <3>2
    <3>3. UNION {p[k].ids : k \in DOMAIN p} \subseteq
            (UNION {o[k].ids : k \in DOMAIN o}) \cup (UNION {w[k].ids : k \in DOMAIN w})
      BY ONLY <3>1
    <3>4. (UNION {o[k].ids : k \in DOMAIN o}) \cup (UNION {w[k].ids : k \in DOMAIN w})
            \subseteq UNION {p[k].ids : k \in DOMAIN p}
      BY ONLY <3>2
    <3> QED BY ONLY <3>3, <3>4
  <2> QED BY <1>2, <2>3 DEF InOrder
<1>5. \A k, l \in DOMAIN p : k < l =>
        \A m \in p[k].ids, n \in p[l].ids : m < n \/ (m # n /\ (m \in C \/ n \in C))
  <2> SUFFICES ASSUME NEW k \in DOMAIN p, NEW l \in DOMAIN p, k < l,
                      NEW m \in p[k].ids, NEW n \in p[l].ids
               PROVE  m < n \/ (m # n /\ (m \in C \/ n \in C))
    OBVIOUS
  <2>1. CASE l <= Len(o)
    <3>1. k \in DOMAIN o /\ l \in DOMAIN o /\ p[k] = o[k] /\ p[l] = o[l]
      BY <1>3, <2>1
    <3> QED BY <3>1 DEF InOrder
  <2>2. CASE l > Len(o) /\ k <= Len(o)
    <3>1. /\ k \in DOMAIN o /\ p[k] = o[k]
          /\ l - Len(o) \in DOMAIN w /\ p[l] = w[l - Len(o)]
      BY <1>3, <2>2
    <3>2. PICK i \in DOMAIN h : n = h[i]
      BY <1>2, <3>1
    <3> QED BY <3>1, <3>2 DEF InOrder
  <2>3. CASE k > Len(o)
    <3>1. /\ k - Len(o) \in DOMAIN w /\ p[k] = w[k - Len(o)]
          /\ l - Len(o) \in DOMAIN w /\ p[l] = w[l - Len(o)]
          /\ k - Len(o) < l - Len(o)
      BY <1>3, <2>3
    <3> QED BY <1>2, <3>1
  <2> QED BY <1>3, <2>1, <2>2, <2>3
<1>6. /\ <<>> \in Seq(1..N) /\ {<<>>[k] : k \in DOMAIN <<>>} = {} /\ Sorted(<<>>)
      /\ DOMAIN <<>> = {}
  BY DEF Sorted
<1>7. p \in Seq(Outputs(N))
  BY <1>3
<1>8. InOrder(p, <<>>, C, E, N)
  BY ONLY <1>4, <1>5, <1>6, <1>7 DEF InOrder
<1> QED BY <1>8

-----------------------------------------------------------------------------
(* The invariant                                                           *)

Comments == {n \in DOMAIN sent : sent[n] = Comment}

Arrived == DOMAIN sent \ Dropped

(* The upstream's open block or call is one of those it began. *)
SourceOK ==
  /\ source \in [open : 0..MaxBlocks, blocks : 0..MaxBlocks, done : BOOLEAN]
  /\ source.open <= source.blocks

ShapeInv ==
  /\ provider \in Providers /\ policy \in Policies
  /\ SourceOK
  /\ sent \in Seq({sent[n] : n \in DOMAIN sent}) /\ Len(sent) <= MaxEvents
  /\ pc \in {"streaming", "closed", "failed"}

CallsOK(cs) ==
  /\ DOMAIN cs \subseteq 1..MaxBlocks
  /\ \A i \in DOMAIN cs : cs[i] \in [name : ToolNames \cup {""}, args : Seq(Pieces)]

(* Something is held only for a call; Anthropic's is the open block's. *)
HeldInv ==
  /\ held # <<>> => calls # NoCalls
  /\ ~Gated => calls = NoCalls
  /\ provider = "anthropic" /\ calls # NoCalls => source.open # 0 /\ DOMAIN calls = {source.open}
  /\ pc = "closed" => held = <<>>

OrderInv == InOrder(out, held, Comments, Arrived, Len(sent))

IInv == ShapeInv /\ CallsOK(calls) /\ HeldInv /\ OrderInv

(* The invariant gives the two properties. *)
LEMMA IInvIsEnough == IInv => TypeOK /\ NothingLostOrReordered
<1> SUFFICES ASSUME IInv PROVE TypeOK /\ NothingLostOrReordered
  OBVIOUS
<1>1. DOMAIN sent = 1..Len(sent) /\ Len(sent) \in Nat
  BY LenProperties DEF IInv, ShapeInv
<1>2. TypeOK
  BY <1>1 DEF IInv, ShapeInv, SourceOK, CallsOK, HeldInv, OrderInv, InOrder, Outputs, TypeOK
<1>3. \A k \in DOMAIN out : out[k].ids \subseteq DOMAIN sent
  <2>1. out \in Seq(Outputs(Len(sent)))
    BY DEF IInv, OrderInv, InOrder
  <2> QED BY ONLY <1>1, <2>1, OutputsAreRead
<1>4. NothingLostOrReordered
  <2>1. (UNION {out[k].ids : k \in DOMAIN out}) \cup {held[k] : k \in DOMAIN held}
          = DOMAIN sent \ Dropped
    BY DEF IInv, OrderInv, InOrder, Arrived
  <2>2. \A n \in DOMAIN sent : n \in Comments <=> IsComment(n)
    BY DEF Comments, IsComment
  <2>3. \A k, l \in DOMAIN out : k < l =>
          \A m \in out[k].ids, n \in out[l].ids : m < n \/ (m # n /\ (IsComment(m) \/ IsComment(n)))
    BY <1>3, <2>2 DEF IInv, OrderInv, InOrder
  <2>4. \A k \in DOMAIN out, l \in DOMAIN held :
          \A m \in out[k].ids : m < held[l] \/ (m # held[l] /\ IsComment(m))
    BY <1>3, <2>2 DEF IInv, OrderInv, InOrder
  <2> QED BY <2>1, <2>3, <2>4 DEF IInv, HeldInv, NothingLostOrReordered
<1> QED BY <1>2, <1>4

(* A stream starts in the invariant. *)
LEMMA InitIInv == Init => IInv
<1> SUFFICES ASSUME Init PROVE IInv
  OBVIOUS
<1>1. sent = <<>> /\ held = <<>> /\ out = <<>> /\ calls = NoCalls
  BY DEF Init
<1>2. /\ \A S : <<>> \in Seq(S)
      /\ Len(<<>>) = 0 /\ DOMAIN <<>> = {} /\ DOMAIN NoCalls = {}
  BY DEF NoCalls
<1>3. ShapeInv
  <2>1. sent \in Seq({sent[n] : n \in DOMAIN sent})
    BY <1>1, <1>2
  <2>2. 0 \in 0..MaxBlocks /\ 0 <= MaxEvents
    <3>1. MaxBlocks \in Nat /\ MaxEvents \in Nat
      BY StreamAssumption, Zenon
    <3> QED BY <3>1
  <2>3. SourceOK
    BY <2>2 DEF Init, SourceOK
  <2>4. Len(sent) = 0
    BY <1>1
  <2> QED BY <2>1, <2>2, <2>3, <2>4 DEF Init, ShapeInv
<1>4. OrderInv
  <2>1. Arrived = {}
    BY <1>1, <1>2 DEF Arrived
  <2> QED BY <1>1, <1>2, <2>1 DEF OrderInv, InOrder, Sorted
<1> QED BY <1>1, <1>2, <1>3, <1>4 DEF Init, IInv, CallsOK, HeldInv

-----------------------------------------------------------------------------
(* One event                                                               *)

(* What the upstream may send in a state of its own. *)
Fits(e) ==
  /\ e.kind \in {"start", "delta", "stop", "chunk", "other", "comment", "bare"}
  /\ (e.kind = "comment") <=> (e = Comment)
  /\ (e.kind = "bare") <=> (e = Bare)
  /\ e.kind = "start" =>
       e.tool \in BOOLEAN /\ source.open = 0 /\ e.index \in 1..MaxBlocks /\ e.name \in ToolNames \cup {""}
  /\ e.kind \in {"delta", "stop"} => e.index = source.open
  /\ e.kind = "delta" => e.piece \in Pieces
  /\ e.kind = "chunk" => CallsOK(e.delta) /\ (e.delta # NoDelta => DOMAIN e.delta # {})

(* The history grows by the event. *)
LEMMA SentGrows ==
  ASSUME ShapeInv, NEW e, sent' = Append(sent, e)
  PROVE  /\ Len(sent) \in Nat /\ Len(sent') = Len(sent) + 1
         /\ sent' \in Seq({sent'[n] : n \in DOMAIN sent'})
         /\ Comments \subseteq Comments'
         /\ e = Comment => Len(sent) + 1 \in Comments'
         /\ (Gated' <=> Gated) /\ ~(Gated /\ e = Bare) => Arrived' = Arrived \cup {Len(sent) + 1}
         /\ Gated' /\ Gated /\ e = Bare => Arrived' = Arrived
<1> PICK s : s = Append(sent, e)
  OBVIOUS
<1> PICK S : S = {sent[n] : n \in DOMAIN sent} \cup {e}
  OBVIOUS
<1>1. sent \in Seq(S) /\ e \in S
  BY SeqMonotonic DEF ShapeInv
<1>2. /\ s \in Seq(S) /\ Len(s) = Len(sent) + 1
      /\ \A i \in 1..Len(sent) : s[i] = sent[i]
      /\ s[Len(sent) + 1] = e
  BY <1>1, AppendProperties
<1>3. Len(sent) \in Nat /\ DOMAIN sent = 1..Len(sent) /\ DOMAIN s = 1..(Len(sent) + 1)
  BY <1>1, <1>2, LenProperties
<1>4. S = {s[n] : n \in DOMAIN s}
  BY <1>2, <1>3
<1>5. {n \in DOMAIN sent : sent[n] = Comment} \subseteq {n \in DOMAIN s : s[n] = Comment}
  BY <1>2, <1>3
<1>6. e = Comment => Len(sent) + 1 \in {n \in DOMAIN s : s[n] = Comment}
  BY <1>2, <1>3
<1>7. PICK N : N = Len(sent)
  OBVIOUS
<1>8. /\ N \in Nat /\ DOMAIN sent = 1..N /\ DOMAIN s = 1..(N + 1) /\ s[N + 1] = e
      /\ \A i \in 1..N : s[i] = sent[i]
  BY <1>2, <1>3, <1>7
<1>9. /\ 1..(N + 1) = 1..N \cup {N + 1} /\ N + 1 \notin 1..N
  BY <1>8
<1>10. ASSUME Gated' <=> Gated, ~(Gated /\ e = Bare) PROVE Arrived' = Arrived \cup {N + 1}
  BY <1>8, <1>9, <1>10 DEF Arrived, Dropped, Bare
<1>11. ASSUME Gated', Gated, e = Bare PROVE Arrived' = Arrived
  BY <1>8, <1>9, <1>11 DEF Arrived, Dropped, Bare
<1> QED BY <1>2, <1>3, <1>4, <1>5, <1>6, <1>7, <1>10, <1>11 DEF Comments

(* The event is not one that is dropped, and the stream stays gated or not. *)
Taken(e) == (Gated' <=> Gated) /\ ~(Gated /\ e = Bare)

(* An event is written at once only when nothing is held, or as a comment. *)
LEMMA ThroughStep ==
  ASSUME IInv, NEW e, sent' = Append(sent, e), Taken(e),
         WriteThrough, held = <<>> \/ e = Comment
  PROVE  OrderInv'
<1> PICK N : N = Len(sent)
  OBVIOUS
<1>1. /\ N \in Nat /\ Len(sent') = N + 1 /\ Comments \subseteq Comments'
      /\ held = <<>> \/ N + 1 \in Comments'
      /\ Arrived' = Arrived \cup {N + 1}
  BY SentGrows DEF IInv, Taken
<1>2. InOrder(out, held, Comments, Arrived, N)
  BY DEF IInv, OrderInv
<1>3. InOrder(Append(out, Written(N + 1)), held, Comments', Arrived \cup {N + 1}, N + 1)
  BY ONLY <1>1, <1>2, ThroughKeepsOrder
<1>4. out' = Append(out, Written(N + 1)) /\ held' = held
  BY DEF WriteThrough, This
<1> QED BY ONLY <1>1, <1>3, <1>4 DEF OrderInv

(* An event without data leaves no trace. *)
LEMMA DropStep ==
  ASSUME IInv, NEW e, sent' = Append(sent, e), Gated, Gated', e = Bare, UNCHANGED gate
  PROVE  OrderInv'
<1> PICK N : N = Len(sent)
  OBVIOUS
<1>1. /\ N \in Nat /\ Len(sent') = N + 1 /\ Comments \subseteq Comments'
      /\ Arrived' = Arrived
  BY SentGrows DEF IInv
<1>2. InOrder(out, held, Comments, Arrived, N)
  BY DEF IInv, OrderInv
<1>3. InOrder(out, held, Comments', Arrived, N + 1)
  BY ONLY <1>1, <1>2, DropKeepsOrder
<1>4. out' = out /\ held' = held
  BY DEF gate
<1> QED BY ONLY <1>1, <1>3, <1>4 DEF OrderInv

(* An event that is held comes after all that are held already. *)
LEMMA HeldInOrder ==
  ASSUME IInv, NEW e, sent' = Append(sent, e), Taken(e)
  PROVE  InOrder(out, Append(held, This), Comments', Arrived', Len(sent'))
<1> PICK N : N = Len(sent)
  OBVIOUS
<1>1. /\ N \in Nat /\ Len(sent') = N + 1 /\ Comments \subseteq Comments'
      /\ Arrived' = Arrived \cup {N + 1}
  BY SentGrows DEF IInv, Taken
<1>2. InOrder(out, held, Comments, Arrived, N)
  BY DEF IInv, OrderInv
<1>3. InOrder(out, Append(held, N + 1), Comments', Arrived \cup {N + 1}, N + 1)
  BY ONLY <1>1, <1>2, HoldKeepsOrder
<1>4. This = N + 1
  BY DEF This
<1> QED BY ONLY <1>1, <1>3, <1>4

LEMMA HoldStep ==
  ASSUME IInv, NEW e, sent' = Append(sent, e), Taken(e), Hold
  PROVE  OrderInv'
<1>1. out' = out /\ held' = Append(held, This)
  BY DEF Hold
<1>2. InOrder(out, Append(held, This), Comments', Arrived', Len(sent'))
  BY HeldInOrder
<1> QED BY ONLY <1>1, <1>2 DEF OrderInv

(* The event completes what is held, which is decided. *)
LEMMA SettleStep ==
  ASSUME IInv, NEW e, sent' = Append(sent, e), Taken(e), NEW cs,
         out' = out \o Decided(cs, Append(held, This)), held' = <<>>
  PROVE  OrderInv'
<1>1. InOrder(out, Append(held, This), Comments', Arrived', Len(sent'))
  BY HeldInOrder
<1>2. \/ Decided(cs, Append(held, This)) = AsTheyCame(Append(held, This))
      \/ Decided(cs, Append(held, This)) = <<Refusal(Append(held, This))>>
  BY DEF Decided
<1>3. Len(sent') \in Nat
  BY SentGrows DEF IInv
<1> QED BY <1>1, <1>2, <1>3, EmitKeepsOrder DEF OrderInv

(* What is held is decided, and the event follows it. *)
LEMMA SettleThenStep ==
  ASSUME IInv, NEW e, sent' = Append(sent, e), Taken(e), NEW cs,
         out' = Append(out \o Decided(cs, held), Written(This)), held' = <<>>
  PROVE  OrderInv'
<1>1. Decided(cs, held) = AsTheyCame(held) \/ Decided(cs, held) = <<Refusal(held)>>
  BY DEF Decided
<1>2. InOrder(out \o Decided(cs, held), <<>>, Comments, Arrived, Len(sent))
  BY <1>1, SentGrows, EmitKeepsOrder DEF IInv, OrderInv
<1> PICK N : N = Len(sent)
  OBVIOUS
<1> PICK o : o = out \o Decided(cs, held)
  OBVIOUS
<1>3. /\ N \in Nat /\ Len(sent') = N + 1 /\ Comments \subseteq Comments'
      /\ Arrived' = Arrived \cup {N + 1}
  BY SentGrows DEF IInv, Taken
<1>4. InOrder(o, <<>>, Comments, Arrived, N)
  BY <1>2
<1>5. InOrder(Append(o, Written(N + 1)), <<>>, Comments', Arrived \cup {N + 1}, N + 1)
  BY ONLY <1>3, <1>4, ThroughKeepsOrder
<1>6. out' = Append(o, Written(N + 1)) /\ held' = <<>>
  BY DEF This
<1> QED BY ONLY <1>3, <1>5, <1>6 DEF OrderInv

(* What the upstream sends of the arguments is a sequence of pieces. *)
LEMMA SomePieces ==
  /\ \A piece \in Pieces : <<piece>> \in Seq(Pieces)
  /\ <<>> \in Seq(Pieces)
OBVIOUS

(* A call is made of a name and of pieces. *)
LEMMA CallsAreMade ==
  ASSUME NEW name \in ToolNames \cup {""}, NEW text \in Seq(Pieces)
  PROVE  [name |-> name, args |-> text] \in [name : ToolNames \cup {""}, args : Seq(Pieces)]
OBVIOUS

(* A call that has just begun has no arguments. *)
LEMMA NewCallsAreCalls ==
  \A name \in ToolNames \cup {""} :
    NewCall(name) \in [name : ToolNames \cup {""}, args : Seq(Pieces)]
BY SomePieces, CallsAreMade DEF NewCall

(* The calls put together so far take in a chunk's. *)
LEMMA AbsorbedAreCalls ==
  ASSUME NEW cs, NEW d, CallsOK(cs), CallsOK(d)
  PROVE  /\ CallsOK(absorbOpenAIChunk(cs, d))
         /\ DOMAIN d # {} => absorbOpenAIChunk(cs, d) # NoCalls
<1> PICK a : a = absorbOpenAIChunk(cs, d)
  OBVIOUS
<1>1. DOMAIN a = DOMAIN cs \cup DOMAIN d
  BY DEF absorbOpenAIChunk
<1>2. ASSUME NEW i \in DOMAIN a PROVE a[i] \in [name : ToolNames \cup {""}, args : Seq(Pieces)]
  <2>1. CASE i \notin DOMAIN d
    BY <1>1, <1>2, <2>1 DEF absorbOpenAIChunk, CallsOK
  <2>2. CASE i \in DOMAIN d
    <3> PICK old : old = IF i \in DOMAIN cs THEN cs[i] ELSE NewCall("")
      OBVIOUS
    <3>1. old \in [name : ToolNames \cup {""}, args : Seq(Pieces)]
      BY NewCallsAreCalls DEF CallsOK
    <3>2. d[i] \in [name : ToolNames \cup {""}, args : Seq(Pieces)]
      BY <2>2 DEF CallsOK
    <3>3. a[i] = [name |-> IF d[i].name # "" THEN d[i].name ELSE old.name,
                  args |-> old.args \o d[i].args]
      BY <1>1, <1>2, <2>2 DEF absorbOpenAIChunk
    <3>4. old.args \o d[i].args \in Seq(Pieces)
      BY <3>1, <3>2, ConcatProperties
    <3>5. PICK text : text = old.args \o d[i].args
      OBVIOUS
    <3>6. PICK name \in ToolNames \cup {""} : name = IF d[i].name # "" THEN d[i].name ELSE old.name
      BY <3>1, <3>2
    <3>7. a[i] = [name |-> name, args |-> text]
      BY <3>3, <3>5, <3>6
    <3>8. text \in Seq(Pieces)
      BY <3>4, <3>5
    <3> QED BY ONLY <3>6, <3>7, <3>8, CallsAreMade
  <2> QED BY <2>1, <2>2
<1>3. DOMAIN NoCalls = {}
  BY DEF NoCalls
<1> QED BY <1>1, <1>2, <1>3 DEF CallsOK

(* What the handling of an event leaves of the gate's state. *)
Handled(e) ==
  /\ OrderInv'
  /\ CallsOK(calls')
  /\ held' # <<>> => calls' # NoCalls
  /\ ~Gated => calls' = NoCalls
  /\ provider = "anthropic" =>
       \/ calls' = NoCalls
       \/ e.kind = "start" /\ DOMAIN calls' = {e.index}
       \/ e.kind \in {"delta", "other", "comment", "bare"} /\ calls # NoCalls
            /\ DOMAIN calls' = DOMAIN calls
       \/ e.kind = "start" /\ calls # NoCalls /\ calls' = calls

(* Appending to nothing. *)
LEMMA OneElement ==
  ASSUME NEW x
  PROVE  Append(<<>>, x) = <<x>>
<1>1. <<>> \in Seq({x}) /\ <<x>> \in Seq({x}) /\ Len(<<>>) = 0 /\ Len(<<x>>) = 1 /\ <<x>>[1] = x
  OBVIOUS
<1>2. /\ Append(<<>>, x) \in Seq({x}) /\ Len(Append(<<>>, x)) = 1
      /\ Append(<<>>, x)[1] = x
  BY <1>1, AppendProperties
<1>3. \A i \in 1..1 : Append(<<>>, x)[i] = <<x>>[i]
  BY <1>1, <1>2
<1> QED BY <1>1, <1>2, <1>3, SeqEqual

(* The loop over Anthropic's events. *)
LEMMA AnthropicStep ==
  ASSUME IInv, NEW e, Fits(e), Gated, provider = "anthropic",
         sent' = Append(sent, e), Taken(e), runAnthropic(e)
  PROVE  Handled(e)
<1>1. /\ CallsOK(calls) /\ CallsOK(NoCalls) /\ DOMAIN NoCalls = {}
      /\ calls = NoCalls => held = <<>>
      /\ source.open = 0 => calls = NoCalls
      /\ calls # NoCalls => DOMAIN calls = {source.open}
  BY DEF IInv, HeldInv, CallsOK, NoCalls
<1>2. CASE e.kind = "start" /\ e.tool /\ calls' = [i \in {e.index} |-> NewCall(e.name)]
           /\ held' = <<This>> /\ UNCHANGED out
  <2>1. held = <<>> /\ e.index \in 1..MaxBlocks /\ e.name \in ToolNames \cup {""}
    BY <1>1, <1>2 DEF Fits
  <2>2. OrderInv'
    <3>1. Append(held, This) = <<This>>
      BY <2>1, OneElement
    <3> QED BY <1>2, <3>1, HoldStep DEF Hold
  <2>3. CallsOK(calls') /\ DOMAIN calls' = {e.index}
    <3>1. NewCall(e.name) \in [name : ToolNames \cup {""}, args : Seq(Pieces)]
      BY <2>1, NewCallsAreCalls
    <3> QED BY <1>2, <2>1, <3>1 DEF CallsOK
  <2>4. calls' # NoCalls
    BY <1>1, <2>3
  <2> QED BY <1>2, <2>2, <2>3, <2>4 DEF Handled
<1>3. CASE e.kind = "delta" /\ e.index \in DOMAIN calls /\ Hold
           /\ calls' = [calls EXCEPT ![e.index].args = Append(@, e.piece)]
  <2>1. OrderInv'
    BY <1>3, HoldStep
  <2>2. DOMAIN calls' = DOMAIN calls /\ e.piece \in Pieces
    BY <1>3 DEF Fits
  <2>3. CallsOK(calls')
    <3> SUFFICES ASSUME NEW i \in DOMAIN calls
                 PROVE  calls'[i] \in [name : ToolNames \cup {""}, args : Seq(Pieces)]
      BY <1>1, <2>2 DEF CallsOK
    <3>1. calls[i] \in [name : ToolNames \cup {""}, args : Seq(Pieces)]
      BY <1>1 DEF CallsOK
    <3>2. Append(calls[i].args, e.piece) \in Seq(Pieces)
      BY <2>2, <3>1, AppendProperties
    <3>3. calls'[i] = IF i = e.index
                      THEN [calls[i] EXCEPT !.args = Append(calls[i].args, e.piece)] ELSE calls[i]
      BY <1>3
    <3> QED BY <3>1, <3>2, <3>3
  <2>4. calls # NoCalls /\ calls' # NoCalls
    BY <1>1, <1>3, <2>2
  <2> QED BY <1>3, <2>1, <2>2, <2>3, <2>4 DEF Handled
<1>4. CASE e.kind = "stop" /\ out' = out \o Decided(calls, Append(held, This)) /\ Clear
  <2>1. OrderInv'
    BY <1>4, SettleStep DEF Clear
  <2> QED BY <1>1, <1>4, <2>1 DEF Handled, Clear
<1>5. CASE e.kind \in {"delta", "stop"} /\ e.index \notin DOMAIN calls /\ WriteThrough
  <2>1. calls = NoCalls /\ held = <<>>
    BY <1>1, <1>5 DEF Fits
  <2>2. OrderInv'
    BY <1>5, <2>1, ThroughStep
  <2> QED BY <1>1, <1>5, <2>1, <2>2 DEF Handled, WriteThrough
<1>6. CASE e.kind \in {"start", "other"} /\ calls # NoCalls /\ Hold /\ UNCHANGED calls
  <2>1. OrderInv'
    BY <1>6, HoldStep
  <2> QED BY <1>1, <1>6, <2>1 DEF Handled
<1>7. CASE e.kind \in {"start", "other"} /\ calls = NoCalls /\ WriteThrough
  <2>1. OrderInv'
    BY <1>1, <1>7, ThroughStep
  <2> QED BY <1>1, <1>7, <2>1 DEF Handled, WriteThrough
<1> QED BY <1>2, <1>3, <1>4, <1>5, <1>6, <1>7 DEF runAnthropic

(* The loop over OpenAI's chunks. *)
LEMMA OpenAIStep ==
  ASSUME IInv, NEW e, Fits(e), Gated, provider = "openai",
         sent' = Append(sent, e), Taken(e), runOpenAI(e)
  PROVE  Handled(e)
<1>1. CallsOK(calls) /\ CallsOK(NoCalls)
  BY DEF IInv, CallsOK, NoCalls
<1>2. CASE IsCallChunk(e) /\ ~e.finish /\ calls' = absorbOpenAIChunk(calls, e.delta) /\ Hold
  <2>1. OrderInv'
    BY <1>2, HoldStep
  <2>2. CallsOK(calls') /\ calls' # NoCalls
    BY <1>1, <1>2, AbsorbedAreCalls DEF Fits, IsCallChunk
  <2> QED BY <2>1, <2>2 DEF Handled
<1>3. CASE Clear /\ out' = out \o Decided(absorbOpenAIChunk(calls, e.delta), Append(held, This))
  <2>1. OrderInv'
    BY <1>3, SettleStep DEF Clear
  <2> QED BY <1>1, <1>3, <2>1 DEF Handled, Clear
<1>4. CASE Clear /\ out' = Append(out \o Decided(calls, held), Written(This))
  <2>1. OrderInv'
    BY <1>4, SettleThenStep DEF Clear
  <2> QED BY <1>1, <1>4, <2>1 DEF Handled, Clear
<1> QED BY <1>2, <1>3, <1>4 DEF runOpenAI

(* Whatever the provider and the policy, an event is handled in order. *)
LEMMA HandleStep ==
  ASSUME IInv, NEW e, Fits(e), Handle(e)
  PROVE  /\ Handled(e)
         /\ provider' = provider /\ policy' = policy /\ pc = "streaming" /\ pc' = "streaming"
         /\ sent' = Append(sent, e) /\ Len(sent) < MaxEvents
<1>1. /\ provider' = provider /\ policy' = policy /\ pc = "streaming" /\ pc' = "streaming"
      /\ sent' = Append(sent, e) /\ Len(sent) < MaxEvents
  BY DEF Handle
<1>2. Gated' <=> Gated
  BY <1>1 DEF Gated
<1>3. e \notin {Comment, Bare} => Taken(e)
  BY <1>2 DEF Taken
<1>4. Comment # Bare
  BY DEF Comment, Bare
<1> SUFFICES Handled(e)
  BY <1>1
<1>5. CASE (~Gated \/ e = Comment) /\ WriteThrough
  <2>1. ~Gated => calls = NoCalls /\ held = <<>>
    BY DEF IInv, HeldInv
  <2>2. OrderInv'
    BY <1>1, <1>5, <1>2, <1>4, <2>1, ThroughStep DEF Taken
  <2>3. calls # NoCalls => e.kind = "comment"
    BY <1>5, <2>1 DEF Fits
  <2> QED BY <1>5, <2>1, <2>2, <2>3 DEF Handled, WriteThrough, IInv, HeldInv
<1>6. CASE Gated /\ e = Bare /\ UNCHANGED gate
  <2>1. OrderInv'
    BY <1>1, <1>6, <1>2, DropStep
  <2>2. e.kind = "bare"
    BY <1>6 DEF Bare
  <2> QED BY <1>6, <2>1, <2>2 DEF Handled, gate, IInv, HeldInv, CallsOK, NoCalls
<1>7. CASE Gated /\ e \notin {Comment, Bare} /\ provider = "anthropic" /\ runAnthropic(e)
  BY <1>1, <1>7, <1>3, AnthropicStep
<1>8. CASE Gated /\ e \notin {Comment, Bare} /\ provider = "openai" /\ runOpenAI(e)
  BY <1>1, <1>8, <1>3, OpenAIStep
<1> QED BY <1>5, <1>6, <1>7, <1>8 DEF Handle

-----------------------------------------------------------------------------
(* The upstream's actions                                                  *)

(* How Anthropic's blocks go on. *)
BlockMove(e) ==
  \/ /\ e.kind = "start" /\ source.open = 0 /\ e.index = source.blocks + 1
     /\ source'.open = e.index /\ source'.blocks = e.index
  \/ /\ e.kind = "delta" /\ e.index = source.open /\ source.open # 0
     /\ source'.open = source.open /\ source'.blocks = source.blocks
  \/ /\ e.kind = "stop" /\ e.index = source.open /\ source.open # 0
     /\ source'.open = 0 /\ source'.blocks = source.blocks
  \/ /\ e = Other \/ e = Comment \/ e = Bare
     /\ source'.open = source.open /\ source'.blocks = source.blocks

(* How OpenAI's calls go on: those that are new have a name. *)
CallMove(e) ==
  /\ e.kind \in {"chunk", "other", "comment", "bare"}
  /\ source.done => source'.done
  /\ e.kind # "chunk" => source'.done = source.done
  /\ \/ /\ IsCallChunk(e) /\ ~source.done
        /\ e.finish \in BOOLEAN /\ source'.done = e.finish
        /\ \A i \in DOMAIN e.delta : e.delta[i].name = "" <=> i \in 1..source.blocks
        /\ 1..source'.blocks = (1..source.blocks) \cup DOMAIN e.delta
     \/ ~IsCallChunk(e) /\ source'.blocks = source.blocks

(* The upstream sends an event and moves on. *)
Sends ==
  \E e : /\ Fits(e) /\ Handle(e) /\ SourceOK'
         /\ provider = "anthropic" => BlockMove(e)
         /\ provider = "openai" => CallMove(e)

(* A content block opens: no other is open. *)
LEMMA StartBlockSends == IInv /\ StartBlock => Sends
<1> SUFFICES ASSUME IInv, StartBlock PROVE Sends
  OBVIOUS
<1> PICK i : i = source.blocks + 1
  OBVIOUS
<1>1. PICK e : /\ \/ \E name \in ToolNames : e = BlockStart(i, TRUE, name)
                  \/ e = BlockStart(i, FALSE, "")
               /\ Handle(e)
  BY DEF StartBlock
<1>2. /\ provider = "anthropic" /\ source.open = 0 /\ source.blocks < MaxBlocks
      /\ source' = [source EXCEPT !.open = i, !.blocks = i]
      /\ source \in [open : 0..MaxBlocks, blocks : 0..MaxBlocks, done : BOOLEAN]
  BY DEF StartBlock, IInv, ShapeInv, SourceOK
<1>3. MaxBlocks \in Nat
  BY StreamAssumption, Zenon
<1>4. i \in 1..MaxBlocks
  BY <1>2, <1>3
<1>5. source' = [open |-> i, blocks |-> i, done |-> source.done]
  BY <1>2
<1>6. SourceOK'
  <2>1. i \in 0..MaxBlocks /\ source.done \in BOOLEAN /\ i <= i
    BY <1>2, <1>3, <1>4
  <2> QED BY <1>5, <2>1 DEF SourceOK
<1>7. PICK tool \in BOOLEAN, name \in ToolNames \cup {""} : e = BlockStart(i, tool, name)
  BY <1>1
<1>8. e = [kind |-> "start", index |-> i, tool |-> tool, name |-> name]
  BY <1>7 DEF BlockStart
<1>9. e.kind = "start" /\ e.index = i /\ e.tool = tool /\ e.name = name /\ e # Comment /\ e # Bare
  BY <1>8 DEF Comment, Bare
<1>10. Fits(e)
  BY <1>2, <1>4, <1>7, <1>9 DEF Fits
<1>11. BlockMove(e)
  BY <1>2, <1>5, <1>9 DEF BlockMove
<1> QED BY <1>1, <1>2, <1>6, <1>10, <1>11 DEF Sends

(* More of the open block, or its end. *)
LEMMA BlockSends == IInv /\ (DeltaOfBlock \/ StopBlock) => Sends
<1> SUFFICES ASSUME IInv, DeltaOfBlock \/ StopBlock PROVE Sends
  OBVIOUS
<1>1. source \in [open : 0..MaxBlocks, blocks : 0..MaxBlocks, done : BOOLEAN] /\ SourceOK
  BY DEF IInv, ShapeInv, SourceOK
<1>2. CASE DeltaOfBlock
  <2>1. PICK piece \in Pieces : Handle(BlockDelta(source.open, piece)) /\ source' = source
    BY <1>2 DEF DeltaOfBlock
  <2>2. PICK e : e = BlockDelta(source.open, piece)
    OBVIOUS
  <2>3. Fits(e) /\ e.kind = "delta" /\ e.index = source.open
    BY <2>1, <2>2 DEF BlockDelta, Fits, Comment, Bare
  <2>4. SourceOK'
    BY <1>1, <2>1 DEF SourceOK
  <2>5. BlockMove(e) /\ provider = "anthropic"
    BY <1>2, <2>1, <2>3 DEF BlockMove, DeltaOfBlock
  <2> QED BY <2>1, <2>2, <2>3, <2>4, <2>5 DEF Sends
<1>3. CASE StopBlock
  <2>1. PICK e : e = BlockStop(source.open)
    OBVIOUS
  <2>2. Handle(e) /\ source' = [source EXCEPT !.open = 0] /\ source.open # 0
    BY <1>3, <2>1 DEF StopBlock
  <2>3. Fits(e) /\ e.kind = "stop" /\ e.index = source.open
    BY <2>1 DEF BlockStop, Fits, Comment, Bare
  <2>4. source' = [open |-> 0, blocks |-> source.blocks, done |-> source.done]
    BY <1>1, <2>2
  <2>5. SourceOK'
    <3>1. MaxBlocks \in Nat
      BY StreamAssumption, Zenon
    <3>2. 0 \in 0..MaxBlocks /\ source.blocks \in 0..MaxBlocks /\ source.done \in BOOLEAN
          /\ 0 <= source.blocks
      BY <1>1, <3>1
    <3> QED BY <2>4, <3>2 DEF SourceOK
  <2>6. BlockMove(e) /\ provider = "anthropic"
    BY <1>3, <2>2, <2>3, <2>4 DEF BlockMove, StopBlock
  <2> QED BY <2>2, <2>3, <2>5, <2>6 DEF Sends
<1> QED BY <1>2, <1>3

(* A chunk of OpenAI's, with calls that go on or begin. *)
LEMMA ChunkSends ==
  ASSUME IInv, provider = "openai", NEW d, CallsOK(d), DOMAIN d # {}, ~source.done,
         NEW finish \in BOOLEAN, Handle(Chunk(d, finish)), SourceOK',
         \A i \in DOMAIN d : d[i].name = "" <=> i \in 1..source.blocks,
         1..source'.blocks = (1..source.blocks) \cup DOMAIN d, source'.done = finish
  PROVE  Sends
<1> PICK e : e = Chunk(d, finish)
  OBVIOUS
<1>1. /\ e.kind = "chunk" /\ e.delta = d /\ e.finish = finish /\ e # Comment /\ e # Bare
  BY DEF Chunk, Comment, Bare
<1>2. d # NoDelta
  BY DEF NoDelta
<1>3. Fits(e) /\ IsCallChunk(e)
  BY <1>1, <1>2 DEF Fits, IsCallChunk
<1>4. CallMove(e)
  BY <1>1, <1>3 DEF CallMove
<1> QED BY <1>3, <1>4 DEF Sends

(* More of the last of OpenAI's calls. *)
LEMMA MoreOfCallSends == IInv /\ MoreOfCall => Sends
<1> SUFFICES ASSUME IInv, MoreOfCall PROVE Sends
  OBVIOUS
<1>1. source \in [open : 0..MaxBlocks, blocks : 0..MaxBlocks, done : BOOLEAN] /\ source.open <= source.blocks
  BY DEF IInv, ShapeInv, SourceOK
<1>2. PICK piece \in Pieces, finish \in BOOLEAN :
        /\ Handle(Chunk([i \in {source.open} |-> [name |-> "", args |-> <<piece>>]], finish))
        /\ source' = [source EXCEPT !.done = finish]
  BY DEF MoreOfCall
<1>3. PICK d : d = [i \in {source.open} |-> [name |-> "", args |-> <<piece>>]]
  OBVIOUS
<1>4. provider = "openai" /\ source.open # 0 /\ ~source.done
  BY DEF MoreOfCall
<1>5. source.open \in 1..MaxBlocks /\ source.open \in 1..source.blocks
  <2>1. MaxBlocks \in Nat
    BY StreamAssumption, Zenon
  <2> QED BY <1>1, <1>4, <2>1
<1>6. CallsOK(d) /\ DOMAIN d # {}
  <2>1. <<piece>> \in Seq(Pieces)
    BY <1>2, SomePieces
  <2> QED BY <1>3, <1>5, <2>1 DEF CallsOK
<1>7. source' = [open |-> source.open, blocks |-> source.blocks, done |-> finish]
  BY <1>1, <1>2
<1>8. SourceOK'
  BY <1>1, <1>2, <1>7 DEF SourceOK
<1>9. /\ \A i \in DOMAIN d : d[i].name = "" <=> i \in 1..source.blocks
      /\ 1..source'.blocks = (1..source.blocks) \cup DOMAIN d /\ source'.done = finish
  BY <1>3, <1>5, <1>7
<1> QED BY <1>2, <1>3, <1>4, <1>6, <1>8, <1>9, ChunkSends

(* The first chunk of one or several of OpenAI's calls. *)
LEMMA NewCallsSends == IInv /\ NewCalls => Sends
<1> SUFFICES ASSUME IInv, NewCalls PROVE Sends
  OBVIOUS
<1>1. source \in [open : 0..MaxBlocks, blocks : 0..MaxBlocks, done : BOOLEAN]
  BY DEF IInv, ShapeInv, SourceOK
<1>2. PICK last \in source.blocks + 1 .. MaxBlocks, name \in ToolNames, finish \in BOOLEAN,
           args \in {<<>>} \cup {<<p>> : p \in Pieces} :
        /\ Handle(Chunk([i \in source.blocks + 1 .. last |-> [name |-> name, args |-> args]],
                        finish))
        /\ source' = [open |-> last, blocks |-> last, done |-> finish]
  BY DEF NewCalls
<1>3. PICK d : d = [i \in source.blocks + 1 .. last |-> [name |-> name, args |-> args]]
  OBVIOUS
<1>4. MaxBlocks \in Nat /\ source.blocks \in 0..MaxBlocks /\ last \in source.blocks + 1 .. MaxBlocks
  BY <1>1, <1>2, StreamAssumption, Zenon
<1>5. source.blocks + 1 .. last \subseteq 1..MaxBlocks /\ last \in source.blocks + 1 .. last
      /\ last \in 0..MaxBlocks /\ last <= last
  BY <1>4
<1>6. args \in Seq(Pieces)
  BY <1>2, SomePieces
<1>7. CallsOK(d) /\ DOMAIN d # {}
  BY <1>2, <1>3, <1>5, <1>6 DEF CallsOK
<1>8. SourceOK'
  BY <1>2, <1>5 DEF SourceOK
<1>9. provider = "openai" /\ ~source.done
  BY DEF NewCalls
<1>10. name # ""
  BY <1>2, StreamAssumption, Zenon
<1>11. \A i \in DOMAIN d : d[i].name = "" <=> i \in 1..source.blocks
  <2> SUFFICES ASSUME NEW i \in DOMAIN d PROVE d[i].name # "" /\ i \notin 1..source.blocks
    OBVIOUS
  <2>1. i \in source.blocks + 1 .. last /\ d[i].name = name
    BY <1>3
  <2>2. i \notin 1..source.blocks
    BY <1>4, <2>1
  <2> QED BY <1>10, <2>1, <2>2, Zenon
<1>12. 1..last = (1..source.blocks) \cup DOMAIN d
  BY <1>3, <1>4
<1>13. 1..source'.blocks = (1..source.blocks) \cup DOMAIN d /\ source'.done = finish
  BY <1>2, <1>12
<1> QED BY <1>2, <1>3, <1>7, <1>8, <1>9, <1>11, <1>13, ChunkSends

(* Text, pings and comments. *)
LEMMA OtherSends == IInv /\ (OtherChunk \/ OtherEvent) => Sends
<1> SUFFICES ASSUME IInv, OtherChunk \/ OtherEvent PROVE Sends
  OBVIOUS
<1>1. source \in [open : 0..MaxBlocks, blocks : 0..MaxBlocks, done : BOOLEAN] /\ source.open <= source.blocks
  BY DEF IInv, ShapeInv, SourceOK
<1>2. CASE OtherChunk
  <2>1. PICK finish \in BOOLEAN :
          Handle(Chunk(NoDelta, finish)) /\ source' = [source EXCEPT !.done = finish]
    BY <1>2 DEF OtherChunk
  <2>2. PICK e : e = Chunk(NoDelta, finish)
    OBVIOUS
  <2>3. e.kind = "chunk" /\ e.delta = NoDelta /\ e # Comment /\ e # Bare /\ ~IsCallChunk(e)
    BY <2>2 DEF Chunk, Comment, Bare, IsCallChunk
  <2>4. Fits(e)
    BY <2>3 DEF Fits, CallsOK, NoDelta
  <2>5. provider = "openai" /\ ~source.done
    BY <1>2 DEF OtherChunk
  <2>6. source' = [open |-> source.open, blocks |-> source.blocks, done |-> finish]
    BY <1>1, <2>1
  <2>7. SourceOK'
    BY <1>1, <2>1, <2>6 DEF SourceOK
  <2>8. CallMove(e)
    BY <2>3, <2>5, <2>6 DEF CallMove
  <2> QED BY <2>1, <2>2, <2>4, <2>5, <2>7, <2>8 DEF Sends
<1>3. CASE OtherEvent
  <2>1. PICK e \in {Other, Comment, Bare} : Handle(e) /\ source' = source
    BY <1>3 DEF OtherEvent
  <2>2. Fits(e) /\ e.kind \in {"other", "comment", "bare"} /\ ~IsCallChunk(e)
    <3>1. CASE e = Other
      BY <3>1 DEF Fits, Other, Comment, Bare, IsCallChunk
    <3>2. CASE e = Comment
      BY <3>2 DEF Fits, Comment, Bare, IsCallChunk
    <3>3. CASE e = Bare
      BY <3>3 DEF Fits, Comment, Bare, IsCallChunk
    <3> QED BY <2>1, <3>1, <3>2, <3>3
  <2>3. SourceOK'
    BY <1>1, <2>1 DEF SourceOK
  <2>4. BlockMove(e) /\ CallMove(e)
    BY <2>1, <2>2 DEF BlockMove, CallMove
  <2> QED BY <2>1, <2>2, <2>3, <2>4 DEF Sends
<1> QED BY <1>2, <1>3

(* Every action of the upstream is one of these. *)
LEMMA UpstreamSends == IInv /\ Upstream => Sends
BY StartBlockSends, BlockSends, MoreOfCallSends, NewCallsSends, OtherSends DEF Upstream

(* The invariant lasts when an event is handled. *)
LEMMA SendsStep == IInv /\ Sends => IInv'
<1> SUFFICES ASSUME IInv, Sends PROVE IInv'
  OBVIOUS
<1>0. PICK e : /\ Fits(e) /\ Handle(e) /\ SourceOK'
               /\ provider = "anthropic" => BlockMove(e)
  BY DEF Sends
<1>1. /\ Handled(e)
      /\ provider' = provider /\ policy' = policy /\ pc = "streaming" /\ pc' = "streaming"
      /\ sent' = Append(sent, e) /\ Len(sent) < MaxEvents
  BY <1>0, HandleStep
<1>2. Gated' = Gated
  BY <1>1 DEF Gated
<1>3. ShapeInv'
  <2>1. Len(sent) \in Nat /\ Len(sent') = Len(sent) + 1 /\ sent' \in Seq({sent'[n] : n \in DOMAIN sent'})
    BY <1>1, SentGrows DEF IInv
  <2>2. Len(sent') <= MaxEvents
    <3>1. MaxEvents \in Nat
      BY StreamAssumption, Zenon
    <3> QED BY <1>1, <2>1, <3>1
  <2> QED BY <1>0, <1>1, <2>1, <2>2 DEF IInv, ShapeInv
<1>4. HeldInv'
  <2>1. ASSUME provider = "anthropic", calls' # NoCalls
        PROVE  source'.open # 0 /\ DOMAIN calls' = {source'.open}
    <3>0. /\ e.kind = "start" => source'.open = e.index /\ e.index \in 1..MaxBlocks /\ source.open = 0
          /\ e.kind \in {"delta", "other", "comment", "bare"} => source'.open = source.open
      <4>1. Other.kind = "other" /\ Comment.kind = "comment" /\ Bare.kind = "bare"
        BY DEF Other, Comment, Bare
      <4>2. e.kind = "start" => e.index \in 1..MaxBlocks /\ source.open = 0
        BY <1>0 DEF Fits
      <4> QED BY <1>0, <2>1, <4>1, <4>2 DEF BlockMove
    <3>1. CASE e.kind = "start" /\ DOMAIN calls' = {e.index}
      <4>1. MaxBlocks \in Nat
        BY StreamAssumption, Zenon
      <4> QED BY <3>0, <3>1, <4>1
    <3>2. CASE /\ e.kind \in {"delta", "other", "comment", "bare"} /\ calls # NoCalls
               /\ DOMAIN calls' = DOMAIN calls
      BY <2>1, <3>0, <3>2 DEF IInv, HeldInv
    <3>3. CASE e.kind = "start" /\ calls # NoCalls /\ calls' = calls
      BY <2>1, <3>0, <3>3 DEF IInv, HeldInv
    <3>4. \/ e.kind = "start" /\ DOMAIN calls' = {e.index}
          \/ /\ e.kind \in {"delta", "other", "comment", "bare"} /\ calls # NoCalls
             /\ DOMAIN calls' = DOMAIN calls
          \/ e.kind = "start" /\ calls # NoCalls /\ calls' = calls
      BY <1>1, <2>1, Zenon DEF Handled
    <3> QED BY <3>1, <3>2, <3>3, <3>4
  <2>2. NoCalls' = NoCalls
    BY DEF NoCalls
  <2> QED BY <1>1, <1>2, <2>1, <2>2 DEF Handled, HeldInv
<1> QED BY <1>1, <1>3, <1>4 DEF Handled, IInv, CallsOK

(* The end of a stream writes what is held. *)
LEMMA EndStep == IInv /\ End => IInv'
<1> SUFFICES ASSUME IInv, End PROVE IInv'
  OBVIOUS
<1>1. /\ out' = out \o AsTheyCame(held) /\ held' = <<>> /\ calls' = NoCalls /\ pc' = "closed"
      /\ UNCHANGED <<provider, policy, source, sent>>
  BY DEF End, AtEnd, Clear
<1>2. Len(sent) \in Nat /\ InOrder(out, held, Comments, Arrived, Len(sent))
  BY LenProperties DEF IInv, ShapeInv, OrderInv
<1>3. InOrder(out', <<>>, Comments, Arrived, Len(sent))
  BY <1>1, <1>2, EmitKeepsOrder
<1>4. OrderInv'
  BY <1>1, <1>3 DEF OrderInv, Comments, Arrived, Dropped, Gated
<1>5. CallsOK(calls') /\ NoCalls' = NoCalls
  BY <1>1 DEF CallsOK, NoCalls
<1>6. HeldInv'
  BY <1>1, <1>5 DEF HeldInv
<1>7. ShapeInv'
  BY <1>1 DEF IInv, ShapeInv, SourceOK
<1> QED BY <1>4, <1>5, <1>6, <1>7 DEF IInv, CallsOK

(* A failed stream keeps what it had. *)
LEMMA FailStep == IInv /\ (Fail \/ UNCHANGED vars) => IInv'
<1> SUFFICES ASSUME IInv, Fail \/ UNCHANGED vars PROVE IInv'
  OBVIOUS
<1>1. /\ provider' = provider /\ policy' = policy /\ source' = source /\ sent' = sent
      /\ calls' = calls /\ held' = held /\ out' = out
      /\ pc' \in {pc, "failed"}
  BY DEF Fail, vars, gate
<1>2. NoCalls' = NoCalls /\ Comments' = Comments /\ Gated' = Gated /\ Arrived' = Arrived
  BY <1>1 DEF NoCalls, Comments, Arrived, Dropped, Gated
<1>3. ShapeInv'
  BY <1>1 DEF IInv, ShapeInv, SourceOK
<1>4. CallsOK(calls') /\ HeldInv'
  BY <1>1, <1>2 DEF IInv, CallsOK, HeldInv
<1>5. OrderInv'
  BY <1>1, <1>2 DEF IInv, OrderInv
<1> QED BY <1>3, <1>4, <1>5 DEF IInv, CallsOK

(* Every state of every stream satisfies the invariant. *)
THEOREM InductiveInvariant == Spec => []IInv
<1>1. IInv /\ [Next]_vars => IInv'
  BY UpstreamSends, SendsStep, EndStep, FailStep DEF Next
<1> QED BY <1>1, InitIInv, PTL DEF Spec

(* The variables keep their types, and something is held only for the sake *)
(* of a call that is not decided yet.                                      *)
THEOREM TypeCorrect == Spec => []TypeOK
BY InductiveInvariant, IInvIsEnough, PTL

(* Every event read that has data is written, held or replaced by a        *)
(* refusal, exactly one of the three, in the order of the upstream but for *)
(* comments; a stream that ends leaves nothing behind.  An event without   *)
(* data is none of the three when the stream is gated.                     *)
THEOREM EverythingArrives == Spec => []NothingLostOrReordered
BY InductiveInvariant, IInvIsEnough, PTL

-----------------------------------------------------------------------------
(* Calls and what becomes of them                                           *)

(* Call i has an event of that kind.                                         *)
HasKind(i, kind) == \E n \in EventsOf(i) : sent[n].kind = kind

(* Some of call i's events are replaced by a refusal, respectively held.     *)
Refused(i) == \E x \in Range(out) : x.refused /\ x.ids \cap EventsOf(i) # {}

HeldOf(i) == Range(held) \cap EventsOf(i) # {}

DeniedCall(i) == Denied(WholeCall(i))

Touched == {i \in 1..MaxBlocks : EventsOf(i) # {}}

(* A call in the making is the whole of what was sent of it.                 *)
InTheMaking(i) ==
  i \in DOMAIN calls /\ calls[i] = WholeCall(i) /\ HeldOf(i) /\ ~Refused(i)

(* A call that was decided on is refused if it is denied, and only if it or, *)
(* with OpenAI, a call beside it is denied.                                  *)
Ruled(i) ==
  /\ ~HeldOf(i)
  /\ DeniedCall(i) => Refused(i)
  /\ Refused(i) => \/ DeniedCall(i)
                   \/ provider = "openai" /\ \E j \in Touched : DeniedCall(j)

(* Anthropic's blocks follow each other, and only the open one is undecided. *)
BlockInv(i) ==
  /\ i > source.blocks => EventsOf(i) = {}
  /\ ~HasKind(i, "chunk")
  /\ i = source.open => ~HasKind(i, "stop")
  /\ i = source.open /\ pc # "closed" =>
       (IsToolCall(i) <=> calls # NoCalls) /\ (IsToolCall(i) => InTheMaking(i))
  /\ i # source.open /\ IsToolCall(i) => Ruled(i)

AnthropicInv == \A i \in 1..MaxBlocks : BlockInv(i)

(* A chunk of something else came after a chunk of a call.                   *)
Interrupted ==
  \E m, k \in DOMAIN sent :
    m < k /\ IsCallChunk(sent[m]) /\ ~IsCallChunk(sent[k]) /\ sent[k] \notin {Comment, Bare}

Undecided ==
  /\ calls # NoCalls /\ ~source.done
  /\ DOMAIN calls = Touched /\ \A i \in Touched : InTheMaking(i)

AllRuled ==
  /\ calls = NoCalls /\ \A i \in Touched : Ruled(i)
  /\ Touched # {} => source.done \/ Interrupted

(* While OpenAI's calls come in one piece, all are undecided, or none.       *)
OpenAIInv ==
  /\ Touched = 1..source.blocks
  /\ \A i \in 1..MaxBlocks : \A kind \in {"start", "delta", "stop"} : ~HasKind(i, kind)
  /\ Contiguous /\ (pc # "closed" \/ source.done) => Undecided \/ AllRuled

(* What a refusal may take.                                                  *)
Takes(n) == sent[n] = Other \/ \E i \in 1..MaxBlocks : BelongsTo(n, i) /\ IsToolCall(i)

Passed(x) == x.refused \/ \E n \in DOMAIN sent : x = Written(n)

TakesOnlyCalls(x) == x.refused => Gated /\ \A n \in x.ids : Takes(n)

TakenInv ==
  /\ \A x \in Range(out) : Passed(x) /\ TakesOnlyCalls(x)
  /\ \A n \in Range(held) : Takes(n)

PartsInv ==
  \A i \in 1..MaxBlocks : /\ ArgsOf(i) \in Seq(Pieces)
                          /\ EventsOf(i) = {} => ArgsOf(i) = <<>>

CallInv ==
  /\ PartsInv /\ TakenInv
  /\ Gated /\ provider = "anthropic" => AnthropicInv
  /\ Gated /\ provider = "openai" => OpenAIInv

-----------------------------------------------------------------------------
(* The pieces of a call, joined.  ArgsOf is defined by a recursive function *)
(* over the events read; that its equation has a solution, and only one,    *)
(* follows from the least number of events for which it would not.          *)

(* Some number of a set of them is the least.                                *)
LEMMA LeastNumber ==
  ASSUME NEW X \in SUBSET Nat, X # {}
  PROVE  \E n \in X : \A m \in X : n <= m
<1>1. PICK n \in X : \A m \in X : ~(<<m, n>> \in OpToRel(<, Nat))
  BY NatLessThanWellFounded, WFMin
<1>2. ASSUME NEW m \in X PROVE n <= m
  <2>1. m \in Nat /\ n \in Nat
    BY <1>1
  <2>2. ~(m < n)
    BY <1>1, <2>1 DEF OpToRel
  <2> QED BY <2>1, <2>2
<1> QED BY <1>1, <1>2

Joins(f, g, N) == f = [n \in 0..N |-> IF n = 0 THEN <<>> ELSE f[n - 1] \o g[n]]

(* What the equation says of each number.                                    *)
Joined(f, g, N) == f[0] = <<>> /\ \A n \in 1..N : f[n] = f[n - 1] \o g[n]

(* Nothing else than what the equation says.                                 *)
LEMMA JoinsUnfold ==
  ASSUME NEW f, NEW g, NEW N \in Nat, Joins(f, g, N)
  PROVE  Joined(f, g, N)
<1>1. \A n \in 0..N : f[n] = IF n = 0 THEN <<>> ELSE f[n - 1] \o g[n]
  BY Zenon DEF Joins
<1>2. 0 \in 0..N /\ \A n \in 1..N : n \in 0..N /\ n # 0
  OBVIOUS
<1> QED BY <1>1, <1>2 DEF Joined

(* The equation has a solution.                                              *)
LEMMA JoinExists ==
  ASSUME NEW g, NEW N \in Nat
  PROVE  \E f : Joins(f, g, N)
<1> DEFINE X == {n \in Nat : ~\E f : Joins(f, g, n)}
<1> SUFFICES ASSUME X # {} PROVE FALSE
  OBVIOUS
<1>1. X \in SUBSET Nat /\ (\A n \in X : ~\E f : Joins(f, g, n))
      /\ \A n \in Nat : n \notin X => \E f : Joins(f, g, n)
  OBVIOUS
<1> HIDE DEF X
<1>2. PICK n \in X : \A m \in X : n <= m
  BY <1>1, LeastNumber
<1>3. CASE n = 0
  <2>1. PICK f : f = [m \in 0..0 |-> <<>>]
    OBVIOUS
  <2>2. [m \in 0..0 |-> IF m = 0 THEN <<>> ELSE f[m - 1] \o g[m]] = f
    BY <2>1
  <2>3. Joins(f, g, n)
    BY <1>3, <2>2 DEF Joins
  <2> QED BY <1>1, <1>2, <2>3
<1>4. CASE n # 0
  <2>1. n - 1 \in Nat /\ n - 1 \notin X
    BY <1>1, <1>2, <1>4
  <2>2. PICK f : Joins(f, g, n - 1)
    BY <1>1, <2>1
  <2>3. PICK h : h = [m \in 0..n |-> IF m = n THEN f[n - 1] \o g[n] ELSE f[m]]
    OBVIOUS
  <2>4. f[0] = <<>> /\ \A m \in 1..(n - 1) : f[m] = f[m - 1] \o g[m]
    <3>1. Joined(f, g, n - 1)
      BY <2>1, <2>2, JoinsUnfold
    <3> QED BY ONLY <3>1 DEF Joined
  <2>5. \A m \in 0..n : h[m] = IF m = 0 THEN <<>> ELSE h[m - 1] \o g[m]
    <3> SUFFICES ASSUME NEW m \in 0..n PROVE h[m] = IF m = 0 THEN <<>> ELSE h[m - 1] \o g[m]
      OBVIOUS
    <3>1. CASE m = 0
      BY <1>2, <1>4, <2>3, <2>4, <3>1
    <3>2. CASE m = n
      <4>1. h[m] = f[n - 1] \o g[n] /\ h[m - 1] = f[n - 1]
        BY <1>1, <1>2, <1>4, <2>3, <3>2
      <4> QED BY <3>2, <4>1, <1>4
    <3>3. CASE m # 0 /\ m # n
      <4>1. m \in 1..(n - 1) /\ m - 1 \in 0..n /\ m - 1 # n
        BY <1>1, <1>2, <3>3
      <4>2. h[m] = f[m] /\ h[m - 1] = f[m - 1]
        BY <2>3, <3>3, <4>1
      <4> QED BY <2>4, <3>3, <4>1, <4>2
    <3> QED BY <3>1, <3>2, <3>3
  <2>6. h = [m \in 0..n |-> h[m]]
    BY <2>3
  <2>7. Joins(h, g, n)
    BY <2>5, <2>6 DEF Joins
  <2> QED BY <1>1, <1>2, <2>7
<1> QED BY <1>3, <1>4

Alike(g, k, N) == \A n \in 1..N : g[n] = k[n]

(* Solutions agree as far as what they join does.                            *)
LEMMA JoinAgree ==
  ASSUME NEW N \in Nat, NEW f, NEW g, NEW h, NEW k,
         Joined(f, g, N), Joined(h, k, N), Alike(g, k, N)
  PROVE  f[N] = h[N]
<1> USE DEF Joined, Alike
<1> DEFINE X == {n \in 0..N : f[n] # h[n]}
<1> SUFFICES ASSUME X # {} PROVE FALSE
  OBVIOUS
<1>1. X \in SUBSET Nat /\ (\A n \in X : n \in 0..N /\ f[n] # h[n])
      /\ \A n \in 0..N : n \notin X => f[n] = h[n]
  OBVIOUS
<1> HIDE DEF X
<1>2. PICK n \in X : \A m \in X : n <= m
  BY <1>1, LeastNumber
<1>3. n \in 1..N /\ n - 1 \in 0..N /\ n - 1 \notin X
  BY <1>1, <1>2
<1>4. f[n - 1] = h[n - 1]
  BY <1>1, <1>3
<1> QED BY <1>1, <1>2, <1>3, <1>4

-----------------------------------------------------------------------------
(* What one more event changes of a call                                    *)

(* An event is one of call i's, and brings a piece of its arguments.         *)
IsOf(e, i) ==
  \/ e.kind \in {"start", "delta", "stop"} /\ e.index = i
  \/ e.kind = "chunk" /\ i \in DOMAIN e.delta

Gives(e, i) ==
  IF ~IsOf(e, i) THEN <<>>
  ELSE CASE e.kind = "chunk" -> e.delta[i].args
         [] e.kind = "delta" -> <<e.piece>>
         [] OTHER            -> <<>>

Names(e, i) == IF e.kind = "chunk" THEN e.delta[i].name ELSE e.name

Makes(e, i) == IsOf(e, i) /\ (e.kind = "chunk" \/ (e.kind = "start" /\ e.tool))

(* The pieces of an event are those of the operators of the properties.      *)
LEMMA EventParts ==
  ASSUME NEW i
  PROVE  /\ EventsOf(i) = {n \in DOMAIN sent : IsOf(sent[n], i)}
         /\ \A n \in DOMAIN sent : PieceIn(n, i) = Gives(sent[n], i)
         /\ IsToolCall(i) <=> \E n \in DOMAIN sent : Makes(sent[n], i)
<1>1. EventsOf(i) = {n \in DOMAIN sent : IsOf(sent[n], i)}
  BY DEF EventsOf, BelongsTo, IsOf
<1>2. \A n \in DOMAIN sent : PieceIn(n, i) = Gives(sent[n], i)
  BY <1>1 DEF PieceIn, Gives
<1>3. IsToolCall(i) <=> \E n \in DOMAIN sent : Makes(sent[n], i)
  BY <1>1 DEF IsToolCall, Makes
<1> QED BY <1>1, <1>2, <1>3

ArgsJoined ==
  \A i \in 1..MaxBlocks : \E f, g :
    /\ Joined(f, g, Len(sent))
    /\ g = [n \in 1..Len(sent) |-> Gives(sent[n], i)]
    /\ ArgsOf(i) = f[Len(sent)]

(* A call's arguments are the pieces of the events read, joined.             *)
LEMMA ArgsAreJoined == ShapeInv => ArgsJoined
<1> SUFFICES ASSUME ShapeInv, NEW i \in 1..MaxBlocks
             PROVE  \E f, g :
                      /\ Joined(f, g, Len(sent))
                      /\ g = [n \in 1..Len(sent) |-> Gives(sent[n], i)]
                      /\ ArgsOf(i) = f[Len(sent)]
  BY DEF ArgsJoined
<1>1. Len(sent) \in Nat /\ DOMAIN sent = 1..Len(sent)
  BY LenProperties DEF ShapeInv
<1>2. PICK N \in Nat : N = Len(sent)
  BY <1>1
<1>3. PICK g : g = [n \in 1..N |-> Gives(sent[n], i)]
  OBVIOUS
<1> DEFINE Solves(f) == f = [n \in 0..Len(sent) |-> IF n = 0 THEN <<>> ELSE f[n - 1] \o PieceIn(n, i)]
<1>4. ASSUME NEW f PROVE Solves(f) <=> Joins(f, g, N)
  <2>1. ASSUME NEW n \in 0..N, n # 0 PROVE g[n] = PieceIn(n, i)
    <3>1. n \in 1..N /\ n \in DOMAIN sent
      BY <1>1, <1>2, <2>1
    <3> QED BY <1>3, <3>1, EventParts
  <2>2. [n \in 0..N |-> IF n = 0 THEN <<>> ELSE f[n - 1] \o g[n]] =
        [n \in 0..N |-> IF n = 0 THEN <<>> ELSE f[n - 1] \o PieceIn(n, i)]
    BY <2>1
  <2> QED BY <1>2, <2>2 DEF Joins
<1>5. \E f : Solves(f)
  BY <1>4, JoinExists, Zenon
<1> DEFINE upTo == CHOOSE f : Solves(f)
<1>6. Solves(upTo)
  BY <1>5, Zenon
<1>7. ArgsOf(i) = upTo[Len(sent)]
  BY Zenon DEF ArgsOf
<1> HIDE DEF Solves
<1>8. PICK f : f = upTo
  OBVIOUS
<1>9. Joins(f, g, N)
  BY <1>4, <1>6, <1>8
<1>10. Joined(f, g, N)
  BY <1>9, JoinsUnfold
<1> HIDE DEF upTo
<1> QED BY <1>2, <1>3, <1>7, <1>8, <1>10

(* An event adds itself to its call.                                         *)
LEMMA CallGrows ==
  ASSUME ShapeInv, ShapeInv', NEW e, sent' = Append(sent, e), NEW i \in 1..MaxBlocks
  PROVE  /\ Len(sent) \in Nat /\ DOMAIN sent = 1..Len(sent)
         /\ EventsOf(i)' = EventsOf(i) \cup (IF IsOf(e, i) THEN {Len(sent) + 1} ELSE {})
         /\ EventsOf(i) \subseteq DOMAIN sent
         /\ ArgsOf(i)' = ArgsOf(i) \o Gives(e, i)
         /\ IsToolCall(i)' <=> (IsToolCall(i) \/ Makes(e, i))
<1>1. PICK N \in Nat : N = Len(sent)
  BY LenProperties DEF ShapeInv
<1>2. PICK s : s = sent'
  OBVIOUS
<1>3. /\ DOMAIN sent = 1..N /\ DOMAIN s = 1..(N + 1) /\ Len(s) = N + 1
      /\ \A n \in 1..N : s[n] = sent[n]
      /\ s[N + 1] = e
  <2>1. sent \in Seq({sent[n] : n \in DOMAIN sent} \cup {e}) /\ e \in {sent[n] : n \in DOMAIN sent} \cup {e}
    BY SeqMonotonic DEF ShapeInv
  <2>2. DOMAIN sent = 1..N
    BY <1>1, <2>1, LenProperties
  <2>3. /\ Append(sent, e) \in Seq({sent[n] : n \in DOMAIN sent} \cup {e})
        /\ Len(Append(sent, e)) = N + 1
        /\ \A n \in 1..N : Append(sent, e)[n] = sent[n]
        /\ Append(sent, e)[N + 1] = e
    BY <1>1, <2>1, AppendProperties
  <2> QED BY <1>2, <2>2, <2>3, LenProperties
<1>4. EventsOf(i) = {n \in 1..N : IsOf(sent[n], i)}
  BY <1>3, EventParts
<1>5. EventsOf(i)' = {n \in 1..(N + 1) : IsOf(s[n], i)}
  BY <1>2, <1>3 DEF EventsOf, BelongsTo, IsOf
<1>6. EventsOf(i)' = EventsOf(i) \cup (IF IsOf(e, i) THEN {N + 1} ELSE {})
  BY <1>3, <1>4, <1>5
<1>7. IsToolCall(i)' <=> \E n \in 1..(N + 1) : Makes(s[n], i)
  BY <1>2, <1>3 DEF IsToolCall, EventsOf, BelongsTo, Makes, IsOf
<1>8. IsToolCall(i)' <=> (IsToolCall(i) \/ Makes(e, i))
  <2>1. IsToolCall(i) <=> \E n \in 1..N : Makes(sent[n], i)
    BY <1>3, EventParts
  <2> QED BY <1>3, <1>7, <2>1
<1>9. ArgsOf(i)' = ArgsOf(i) \o Gives(e, i)
  <2>1. PICK f, g :
          /\ Joined(f, g, N)
          /\ g = [n \in 1..N |-> Gives(sent[n], i)]
          /\ ArgsOf(i) = f[N]
    BY <1>1, ArgsAreJoined DEF ArgsJoined
  <2>2. ArgsJoined'
    BY ArgsAreJoined, PTL
  <2>3. PICK h, k :
          /\ Joined(h, k, N + 1)
          /\ k = [n \in 1..(N + 1) |-> Gives(s[n], i)]
          /\ ArgsOf(i)' = h[N + 1]
    <3>1. \E h, k :
            /\ Joined(h, k, Len(sent'))
            /\ k = [n \in 1..Len(sent') |-> Gives(sent'[n], i)]
            /\ ArgsOf(i)' = h[Len(sent')]
      BY <2>2, Zenon DEF ArgsJoined, Joined, Gives, IsOf
    <3> QED BY <1>2, <1>3, <3>1, Zenon
  <2>4. Alike(g, k, N)
    BY <1>3, <2>1, <2>3 DEF Alike
  <2>0. 1..N \subseteq 1..(N + 1) /\ N + 1 \in 1..(N + 1) /\ (N + 1) - 1 = N
    OBVIOUS
  <2>5. Joined(h, k, N)
    BY <2>0, <2>3 DEF Joined
  <2>6. f[N] = h[N]
    <3>1. N \in Nat
      BY <1>1
    <3>2. Joined(f, g, N)
      BY <2>1
    <3> QED BY <3>1, <3>2, <2>4, <2>5, JoinAgree
  <2>7. h[N + 1] = h[N] \o k[N + 1]
    BY <2>0, <2>3, Zenon DEF Joined
  <2>8. k[N + 1] = Gives(e, i)
    BY <1>3, <2>0, <2>3
  <2> QED BY <2>1, <2>3, <2>6, <2>7, <2>8, Zenon
<1> QED BY <1>1, <1>3, <1>4, <1>6, <1>8, <1>9

Least(X) == CHOOSE n \in X : \A m \in X : n <= m

(* There is only one least number.                                           *)
LEMMA LeastIs ==
  ASSUME NEW X \in SUBSET Nat, NEW n \in X, \A m \in X : n <= m
  PROVE  Least(X) = n
<1> PICK l : l = Least(X)
  OBVIOUS
<1>1. l \in X /\ \A m \in X : l <= m
  BY Zenon DEF Least
<1>2. l \in Nat /\ n \in Nat /\ l <= n /\ n <= l
  BY <1>1
<1> QED BY <1>2

(* A later number is never the least.                                        *)
LEMMA LeastStays ==
  ASSUME NEW N \in Nat, NEW X \in SUBSET (1..N), X # {}
  PROVE  Least(X) \in X /\ Least(X \cup {N + 1}) = Least(X)
<1>1. X \in SUBSET Nat /\ X \cup {N + 1} \in SUBSET Nat /\ {N + 1} \in SUBSET Nat
  OBVIOUS
<1>2. PICK n \in X : \A m \in X : n <= m
  BY <1>1, LeastNumber
<1>3. Least(X) = n
  BY <1>1, <1>2, LeastIs
<1>4. \A m \in X \cup {N + 1} : n <= m
  BY <1>2
<1>5. Least(X \cup {N + 1}) = n
  BY <1>1, <1>2, <1>4, LeastIs
<1> QED BY <1>2, <1>3, <1>5

(* The history keeps what it has.                                            *)
LEMMA SentIsLonger ==
  ASSUME ShapeInv, NEW e, sent' = Append(sent, e)
  PROVE  /\ Len(sent) \in Nat /\ Len(sent') = Len(sent) + 1
         /\ DOMAIN sent = 1..Len(sent) /\ DOMAIN sent' = 1..(Len(sent) + 1)
         /\ \A n \in 1..Len(sent) : sent'[n] = sent[n]
         /\ sent'[Len(sent) + 1] = e
<1> PICK S : S = {sent[n] : n \in DOMAIN sent} \cup {e}
  OBVIOUS
<1>1. sent \in Seq(S) /\ e \in S
  BY SeqMonotonic DEF ShapeInv
<1>2. Len(sent) \in Nat /\ DOMAIN sent = 1..Len(sent)
  BY <1>1, LenProperties
<1>3. /\ Append(sent, e) \in Seq(S)
      /\ Len(Append(sent, e)) = Len(sent) + 1
      /\ \A n \in 1..Len(sent) : Append(sent, e)[n] = sent[n]
      /\ Append(sent, e)[Len(sent) + 1] = e
  BY <1>1, AppendProperties
<1> QED BY <1>2, <1>3, LenProperties

(* A call has the name of its first event, and the arguments of all.         *)
LEMMA NameStays ==
  ASSUME ShapeInv, ShapeInv', NEW e, sent' = Append(sent, e), NEW i \in 1..MaxBlocks
  PROVE  /\ EventsOf(i) # {} => NameOf(i)' = NameOf(i)
         /\ EventsOf(i) = {} /\ IsOf(e, i) => NameOf(i)' = Names(e, i)
<1>1. PICK N \in Nat : N = Len(sent)
  BY LenProperties DEF ShapeInv
<1>2. PICK s, X, Y : s = sent' /\ X = EventsOf(i) /\ Y = EventsOf(i)'
  OBVIOUS
<1>3. X \in SUBSET (1..N) /\ Y = X \cup (IF IsOf(e, i) THEN {N + 1} ELSE {})
  BY <1>1, <1>2, CallGrows
<1>4. \A n \in 1..N : s[n] = sent[n]
  BY <1>1, <1>2, SentIsLonger
<1>5. s[N + 1] = e
  BY <1>1, <1>2, SentIsLonger
<1>6. NameOf(i) = Names(sent[Least(X)], i)
  <2>1. NameOf(i) = Names(sent[Least(EventsOf(i))], i)
    BY Zenon DEF NameOf, Names, Least
  <2> QED BY <1>2, <2>1
<1>7. NameOf(i)' = Names(s[Least(Y)], i)
  <2>1. NameOf(i)' = Names(sent'[Least(EventsOf(i)')], i)
    BY Zenon DEF NameOf, Names, Least
  <2> QED BY <1>2, <2>1
<1>8. ASSUME X # {} PROVE NameOf(i)' = NameOf(i)
  <2>1. Least(X) \in X /\ Least(Y) = Least(X)
    <3>1. CASE IsOf(e, i)
      BY <1>3, <1>8, <3>1, LeastStays
    <3>2. CASE ~IsOf(e, i)
      BY <1>3, <1>8, <3>2, LeastStays
    <3> QED BY <3>1, <3>2
  <2>2. s[Least(Y)] = sent[Least(X)]
    BY <1>3, <1>4, <2>1
  <2> QED BY <1>6, <1>7, <2>2
<1>9. ASSUME X = {}, IsOf(e, i) PROVE NameOf(i)' = Names(e, i)
  <2>1. Y = {N + 1}
    BY <1>3, <1>9
  <2>2. {N + 1} \in SUBSET Nat /\ N + 1 \in {N + 1} /\ \A m \in {N + 1} : N + 1 <= m
    OBVIOUS
  <2>3. Least(Y) = N + 1
    BY <2>1, <2>2, LeastIs
  <2> QED BY <1>5, <1>7, <2>3
<1> QED BY <1>2, <1>8, <1>9

(* What an event brings of a call's arguments is a sequence of pieces.       *)
LEMMA GivesPieces ==
  ASSUME NEW e, Fits(e), NEW i \in 1..MaxBlocks
  PROVE  Gives(e, i) \in Seq(Pieces) /\ (~IsOf(e, i) => Gives(e, i) = <<>>)
<1>1. CASE ~IsOf(e, i)
  BY <1>1, SomePieces DEF Gives
<1>2. CASE IsOf(e, i) /\ e.kind = "chunk"
  <2>1. i \in DOMAIN e.delta /\ CallsOK(e.delta) /\ Gives(e, i) = e.delta[i].args
    BY <1>2 DEF IsOf, Fits, Gives
  <2> QED BY <1>2, <2>1 DEF CallsOK
<1>3. CASE IsOf(e, i) /\ e.kind = "delta"
  <2>1. Gives(e, i) = <<e.piece>> /\ e.piece \in Pieces
    BY <1>3 DEF Gives, Fits
  <2> QED BY <1>3, <2>1, SomePieces
<1>4. CASE IsOf(e, i) /\ e.kind # "chunk" /\ e.kind # "delta"
  <2>1. Gives(e, i) = <<>>
    BY <1>4, Zenon DEF Gives
  <2> QED BY <1>4, <2>1, SomePieces
<1> QED BY <1>1, <1>2, <1>3, <1>4

(* An event of a call adds to it, any other leaves it as it is.              *)
LEMMA CallAfter ==
  ASSUME ShapeInv, ShapeInv', PartsInv, NEW e, Fits(e), sent' = Append(sent, e),
         NEW i \in 1..MaxBlocks
  PROVE  /\ ~IsOf(e, i) /\ EventsOf(i) # {} => WholeCall(i)' = WholeCall(i)
         /\ IsOf(e, i) /\ EventsOf(i) # {} =>
              WholeCall(i)' = [name |-> WholeCall(i).name, args |-> WholeCall(i).args \o Gives(e, i)]
         /\ IsOf(e, i) /\ EventsOf(i) = {} =>
              WholeCall(i)' = [name |-> Names(e, i), args |-> Gives(e, i)]
         /\ ArgsOf(i)' \in Seq(Pieces)
         /\ EventsOf(i)' = {} => ArgsOf(i)' = <<>>
<1>1. PICK a, b, g : a = ArgsOf(i) /\ b = ArgsOf(i)' /\ g = Gives(e, i)
  OBVIOUS
<1>2. a \in Seq(Pieces) /\ g \in Seq(Pieces) /\ (EventsOf(i) = {} => a = <<>>)
  BY <1>1, GivesPieces DEF PartsInv
<1>3. b = a \o g
  BY <1>1, CallGrows
<1>4. b \in Seq(Pieces) /\ (g = <<>> => b = a) /\ (a = <<>> => b = g)
  <2>1. a \in Seq(Pieces) /\ g \in Seq(Pieces)
    BY ONLY <1>2
  <2> QED BY ONLY <1>3, <2>1
<1>5. ~IsOf(e, i) => g = <<>>
  BY <1>1, GivesPieces
<1>6. EventsOf(i)' = EventsOf(i) \cup (IF IsOf(e, i) THEN {Len(sent) + 1} ELSE {})
  BY CallGrows
<1>7. /\ WholeCall(i) = [name |-> NameOf(i), args |-> a]
      /\ WholeCall(i)' = [name |-> NameOf(i)', args |-> b]
  BY <1>1 DEF WholeCall
<1>8. /\ EventsOf(i) # {} => NameOf(i)' = NameOf(i)
      /\ EventsOf(i) = {} /\ IsOf(e, i) => NameOf(i)' = Names(e, i)
  BY NameStays
<1>9. ~IsOf(e, i) /\ EventsOf(i) # {} => WholeCall(i)' = WholeCall(i)
  BY <1>4, <1>5, <1>7, <1>8
<1>10. IsOf(e, i) /\ EventsOf(i) # {} =>
         WholeCall(i)' = [name |-> WholeCall(i).name, args |-> WholeCall(i).args \o Gives(e, i)]
  <2>1. WholeCall(i).name = NameOf(i) /\ WholeCall(i).args = a
    BY <1>7
  <2> QED BY <1>1, <1>3, <1>7, <1>8, <2>1
<1>11. IsOf(e, i) /\ EventsOf(i) = {} =>
         WholeCall(i)' = [name |-> Names(e, i), args |-> Gives(e, i)]
  BY <1>1, <1>2, <1>4, <1>7, <1>8
<1>12. EventsOf(i)' = {} => b = <<>>
  BY <1>2, <1>4, <1>5, <1>6
<1> QED BY <1>1, <1>4, <1>9, <1>10, <1>11, <1>12

(* The kinds of a call's events.                                             *)
LEMMA KindsGrow ==
  ASSUME ShapeInv, ShapeInv', NEW e, sent' = Append(sent, e), NEW i \in 1..MaxBlocks, NEW kind
  PROVE  HasKind(i, kind)' <=> HasKind(i, kind) \/ (IsOf(e, i) /\ e.kind = kind)
<1>1. PICK N, s : N = Len(sent) /\ s = sent'
  OBVIOUS
<1>2. N \in Nat /\ (\A n \in 1..N : s[n] = sent[n]) /\ s[N + 1] = e
  BY <1>1, SentIsLonger
<1>3. PICK X, Y : X = EventsOf(i) /\ Y = EventsOf(i)'
  OBVIOUS
<1>4. X \subseteq 1..N /\ Y = X \cup (IF IsOf(e, i) THEN {N + 1} ELSE {})
  BY <1>1, <1>3, CallGrows
<1>5. HasKind(i, kind) <=> \E n \in X : sent[n].kind = kind
  BY <1>3 DEF HasKind
<1>6. HasKind(i, kind)' <=> \E n \in Y : s[n].kind = kind
  BY <1>1, <1>3 DEF HasKind
<1>7. \A n \in X : s[n] = sent[n]
  BY <1>2, <1>4
<1>8. CASE IsOf(e, i)
  BY <1>2, <1>4, <1>5, <1>6, <1>7, <1>8
<1>9. CASE ~IsOf(e, i)
  BY <1>4, <1>5, <1>6, <1>7, <1>9
<1> QED BY <1>8, <1>9

-----------------------------------------------------------------------------
(* What one more event changes of the fate of a call                         *)

(* What is written, of the held events and of the next.                      *)
LEMMA WrittenOf ==
  ASSUME NEW N \in Nat, NEW h \in Seq(1..N)
  PROVE  /\ <<Refusal(h)>> \in Seq(Outputs(N)) /\ Range(<<Refusal(h)>>) = {Refusal(h)}
         /\ AsTheyCame(h) \in Seq(Outputs(N)) /\ Range(AsTheyCame(h)) = {Written(n) : n \in Range(h)}
         /\ Refusal(h).refused /\ Refusal(h).ids = Range(h)
<1>1. /\ Len(h) \in Nat /\ DOMAIN h = 1..Len(h)
      /\ \A k \in DOMAIN h : h[k] \in 1..N
  BY LenProperties
<1>2. Refusal(h).refused /\ Refusal(h).ids = Range(h) /\ Refusal(h) \in Outputs(N)
  BY <1>1 DEF Refusal, Range, Outputs
<1>3. <<Refusal(h)>> \in Seq(Outputs(N)) /\ Range(<<Refusal(h)>>) = {Refusal(h)}
  <2> PICK r : r = Refusal(h)
    OBVIOUS
  <2>1. <<r>> \in Seq(Outputs(N)) /\ DOMAIN <<r>> = {1} /\ <<r>>[1] = r
    BY <1>2
  <2> QED BY <2>1 DEF Range
<1>4. AsTheyCame(h) \in Seq(Outputs(N)) /\ Range(AsTheyCame(h)) = {Written(n) : n \in Range(h)}
  <2> PICK w : w = AsTheyCame(h)
    OBVIOUS
  <2>1. w = [i \in 1..Len(h) |-> Written(h[i])]
    BY <1>1 DEF AsTheyCame
  <2>2. \A i \in 1..Len(h) : Written(h[i]) \in Outputs(N)
    BY <1>1 DEF Written, Outputs
  <2>3. w \in Seq(Outputs(N))
    BY <1>1, <2>1, <2>2
  <2>4. Range(w) = {Written(n) : n \in Range(h)}
    BY <1>1, <2>1 DEF Range
  <2> QED BY <2>3, <2>4
<1> QED BY <1>2, <1>3, <1>4

(* One more of a sequence is one more of its elements.                       *)
LEMMA RangeAppend ==
  ASSUME NEW S, NEW h \in Seq(S), NEW x \in S
  PROVE  Append(h, x) \in Seq(S) /\ Range(Append(h, x)) = Range(h) \cup {x}
<1> PICK p : p = Append(h, x)
  OBVIOUS
<1>1. /\ p \in Seq(S) /\ Len(p) = Len(h) + 1
      /\ \A k \in 1..Len(h) : p[k] = h[k]
      /\ p[Len(h) + 1] = x
  BY AppendProperties
<1>2. Len(h) \in Nat /\ DOMAIN h = 1..Len(h) /\ DOMAIN p = 1..(Len(h) + 1)
  BY <1>1, LenProperties
<1>3. Range(p) = Range(h) \cup {x}
  BY <1>1, <1>2 DEF Range
<1> QED BY <1>1, <1>3

(* Only the events so far are written or held.                               *)
LEMMA KnownEvents ==
  ASSUME IInv
  PROVE  /\ Len(sent) \in Nat
         /\ out \in Seq(Outputs(Len(sent))) /\ held \in Seq(1..Len(sent))
         /\ Range(held) \subseteq 1..Len(sent)
         /\ \A x \in Range(out) : x.ids \subseteq 1..Len(sent) /\ x.refused \in BOOLEAN
<1>1. /\ Len(sent) \in Nat
      /\ out \in Seq(Outputs(Len(sent))) /\ held \in Seq(1..Len(sent))
  BY LenProperties DEF IInv, ShapeInv, OrderInv, InOrder
<1>2. Range(held) \subseteq 1..Len(sent) /\ Range(out) \subseteq Outputs(Len(sent))
  BY <1>1, RangeOfSeq
<1> QED BY <1>1, <1>2 DEF Outputs

(* A call is refused if it was, or if one of its events is refused now.      *)
LEMMA RefusedAfter ==
  ASSUME IInv, ShapeInv', NEW e, sent' = Append(sent, e), NEW i \in 1..MaxBlocks,
         NEW W, Range(out') = Range(out) \cup W
  PROVE  Refused(i)' <=> \/ Refused(i)
                         \/ \E x \in W : x.refused /\ x.ids \cap EventsOf(i)' # {}
<1>1. PICK N, X, Y : N = Len(sent) /\ X = EventsOf(i) /\ Y = EventsOf(i)'
  OBVIOUS
<1>2. N \in Nat /\ X \subseteq 1..N /\ Y = X \cup (IF IsOf(e, i) THEN {N + 1} ELSE {})
  BY <1>1, CallGrows DEF IInv
<1>3. \A x \in Range(out) : x.ids \subseteq 1..N
  BY <1>1, KnownEvents
<1>4. \A x \in Range(out) : x.ids \cap Y = x.ids \cap X
  BY <1>2, <1>3
<1>5. Refused(i) <=> \E x \in Range(out) : x.refused /\ x.ids \cap X # {}
  BY <1>1 DEF Refused
<1>6. Refused(i)' <=> \E x \in Range(out') : x.refused /\ x.ids \cap Y # {}
  BY <1>1 DEF Refused
<1> QED BY <1>1, <1>4, <1>5, <1>6

(* An event that is written says nothing of what was refused or is held.     *)
LEMMA FateThrough ==
  ASSUME IInv, ShapeInv', NEW e, sent' = Append(sent, e), WriteThrough, NEW i \in 1..MaxBlocks
  PROVE  (Refused(i)' <=> Refused(i)) /\ (HeldOf(i)' <=> HeldOf(i))
<1>1. PICK N, X, Y : N = Len(sent) /\ X = EventsOf(i) /\ Y = EventsOf(i)'
  OBVIOUS
<1>2. N \in Nat /\ X \subseteq 1..N /\ Y = X \cup (IF IsOf(e, i) THEN {N + 1} ELSE {})
  BY <1>1, CallGrows DEF IInv
<1>3. Range(out') = Range(out) \cup {Written(N + 1)}
  <2>1. Outputs(N) \subseteq Outputs(N + 1) /\ Written(N + 1) \in Outputs(N + 1)
    BY <1>2 DEF Outputs, Written
  <2>2. out \in Seq(Outputs(N + 1))
    BY <1>1, <2>1, KnownEvents, SeqMonotonic
  <2> QED BY <1>1, <2>1, <2>2, RangeAppend DEF WriteThrough, This
<1>4. \A x \in {Written(N + 1)} : ~x.refused
  BY DEF Written
<1>5. HeldOf(i)' <=> HeldOf(i)
  <2>1. held' = held /\ Range(held) \cap Y = Range(held) \cap X
    BY <1>1, <1>2, KnownEvents DEF WriteThrough
  <2> QED BY <1>1, <2>1 DEF HeldOf
<1>6. Refused(i)' <=> \/ Refused(i)
                       \/ \E x \in {Written(N + 1)} : x.refused /\ x.ids \cap EventsOf(i)' # {}
  BY <1>3, RefusedAfter, Zenon
<1> QED BY <1>4, <1>5, <1>6

(* An event that is held is its call's.                                      *)
LEMMA FateHold ==
  ASSUME IInv, ShapeInv', NEW e, sent' = Append(sent, e), Hold, NEW i \in 1..MaxBlocks
  PROVE  (Refused(i)' <=> Refused(i)) /\ (HeldOf(i)' <=> HeldOf(i) \/ IsOf(e, i))
<1>1. PICK N, X, Y : N = Len(sent) /\ X = EventsOf(i) /\ Y = EventsOf(i)'
  OBVIOUS
<1>2. N \in Nat /\ X \subseteq 1..N /\ Y = X \cup (IF IsOf(e, i) THEN {N + 1} ELSE {})
  BY <1>1, CallGrows DEF IInv
<1> PICK W : W = {}
  OBVIOUS
<1>3. Range(out') = Range(out) \cup W
  BY DEF Hold
<1>4. HeldOf(i)' <=> HeldOf(i) \/ IsOf(e, i)
  <2>1. held \in Seq(1..(N + 1)) /\ N + 1 \in 1..(N + 1)
    <3>1. 1..N \subseteq 1..(N + 1) /\ N + 1 \in 1..(N + 1)
      BY <1>2
    <3> QED BY <1>1, <3>1, KnownEvents, SeqMonotonic
  <2>2. Range(held') = Range(held) \cup {N + 1}
    BY <1>1, <2>1, RangeAppend DEF Hold, This
  <2>3. Range(held) \subseteq 1..N
    BY <1>1, KnownEvents
  <2>4. HeldOf(i) <=> Range(held) \cap X # {}
    BY <1>1 DEF HeldOf
  <2>5. HeldOf(i)' <=> (Range(held) \cup {N + 1}) \cap Y # {}
    BY <1>1, <2>2 DEF HeldOf
  <2>6. N + 1 \notin 1..N
    BY <1>2
  <2> QED BY <1>2, <2>3, <2>4, <2>5, <2>6
<1>5. Refused(i)' <=> \/ Refused(i)
                       \/ \E x \in W : x.refused /\ x.ids \cap EventsOf(i)' # {}
  BY <1>3, RefusedAfter, Zenon
<1> QED BY <1>4, <1>5

Some(cs) == \E j \in DOMAIN cs : Denied(cs[j])

(* What a decision writes of h, and then of T, when o was written before.    *)
Settled(cs, h, T, o) ==
  /\ \A x \in T : ~x.refused
  /\ Some(cs) => /\ Range(o) = Range(out) \cup ({Refusal(h)} \cup T)
                 /\ Refusal(h).refused /\ Refusal(h).ids = Range(h)
  /\ ~Some(cs) => Range(o) = Range(out) \cup ({Written(n) : n \in Range(h)} \cup T)

(* The variables' sequences allow for one more event.                        *)
LEMMA RoomForOne ==
  ASSUME IInv
  PROVE  /\ held \in Seq(1..(Len(sent) + 1)) /\ Len(sent) + 1 \in 1..(Len(sent) + 1)
         /\ out \in Seq(Outputs(Len(sent) + 1))
         /\ Written(Len(sent) + 1) \in Outputs(Len(sent) + 1)
<1> PICK N : N = Len(sent)
  OBVIOUS
<1>1. N \in Nat /\ out \in Seq(Outputs(N)) /\ held \in Seq(1..N)
  BY KnownEvents
<1>2. 1..N \subseteq 1..(N + 1) /\ N + 1 \in 1..(N + 1)
  BY <1>1
<1>3. Outputs(N) \subseteq Outputs(N + 1) /\ Written(N + 1) \in Outputs(N + 1)
  BY <1>1 DEF Outputs, Written
<1> QED BY <1>1, <1>2, <1>3, SeqMonotonic

(* The calls are decided with the event that completes them.                 *)
LEMMA SettledWith ==
  ASSUME IInv, NEW cs, out' = out \o Decided(cs, Append(held, This))
  PROVE  \E h : Range(h) = Range(held) \cup {Len(sent) + 1} /\ Settled(cs, h, {}, out')
<1>1. PICK N : N = Len(sent)
  OBVIOUS
<1>2. N + 1 \in Nat
  BY <1>1, KnownEvents
<1>3. /\ held \in Seq(1..(N + 1)) /\ N + 1 \in 1..(N + 1)
      /\ out \in Seq(Outputs(N + 1))
  BY <1>1, RoomForOne
<1>4. PICK h : h = Append(held, N + 1)
  OBVIOUS
<1>5. h \in Seq(1..(N + 1)) /\ Range(h) = Range(held) \cup {N + 1}
  BY <1>3, <1>4, RangeAppend
<1>6. \A w \in Seq(Outputs(N + 1)) : Decided(cs, h) = w => Range(out') = Range(out) \cup Range(w)
  BY <1>1, <1>3, <1>4, RangeConcatenation DEF This
<1>7. /\ <<Refusal(h)>> \in Seq(Outputs(N + 1)) /\ Range(<<Refusal(h)>>) = {Refusal(h)}
      /\ AsTheyCame(h) \in Seq(Outputs(N + 1)) /\ Range(AsTheyCame(h)) = {Written(n) : n \in Range(h)}
      /\ Refusal(h).refused /\ Refusal(h).ids = Range(h)
  BY <1>2, <1>5, WrittenOf
<1>8. /\ Some(cs) => Decided(cs, h) = <<Refusal(h)>>
      /\ ~Some(cs) => Decided(cs, h) = AsTheyCame(h)
  BY Zenon DEF Some, Decided
<1>9. /\ Some(cs) => Range(out') = Range(out) \cup {Refusal(h)}
      /\ ~Some(cs) => Range(out') = Range(out) \cup {Written(n) : n \in Range(h)}
  BY <1>6, <1>7, <1>8
<1>10. Settled(cs, h, {}, out')
  BY <1>7, <1>9 DEF Settled
<1> QED BY <1>1, <1>5, <1>10

(* They are decided before an event that shows they are complete.            *)
LEMMA SettledBefore ==
  ASSUME IInv, NEW cs, out' = Append(out \o Decided(cs, held), Written(This))
  PROVE  Settled(cs, held, {Written(Len(sent) + 1)}, out')
<1>1. PICK N : N = Len(sent)
  OBVIOUS
<1>2. N + 1 \in Nat
  BY <1>1, KnownEvents
<1>3. /\ held \in Seq(1..(N + 1)) /\ Written(N + 1) \in Outputs(N + 1)
      /\ out \in Seq(Outputs(N + 1))
  BY <1>1, RoomForOne
<1>4. ASSUME NEW w \in Seq(Outputs(N + 1)), Decided(cs, held) = w
      PROVE  Range(out') = Range(out) \cup (Range(w) \cup {Written(N + 1)})
  <2>1. out \o w \in Seq(Outputs(N + 1)) /\ Range(out \o w) = Range(out) \cup Range(w)
    BY <1>3, RangeConcatenation, ConcatProperties
  <2>2. Range(Append(out \o w, Written(N + 1))) = Range(out \o w) \cup {Written(N + 1)}
    <3>1. out \o w \in Seq(Outputs(N + 1)) /\ Written(N + 1) \in Outputs(N + 1)
      BY <1>3, <2>1
    <3>2. PICK S, g, x : S = Outputs(N + 1) /\ g = out \o w /\ x = Written(N + 1)
      OBVIOUS
    <3>3. g \in Seq(S) /\ x \in S
      BY ONLY <3>1, <3>2
    <3>4. Range(Append(g, x)) = Range(g) \cup {x}
      BY ONLY <3>3, RangeAppend
    <3> QED BY ONLY <3>2, <3>4
  <2> QED BY <1>1, <1>4, <2>1, <2>2 DEF This
<1>5. /\ <<Refusal(held)>> \in Seq(Outputs(N + 1)) /\ Range(<<Refusal(held)>>) = {Refusal(held)}
      /\ AsTheyCame(held) \in Seq(Outputs(N + 1))
      /\ Range(AsTheyCame(held)) = {Written(n) : n \in Range(held)}
      /\ Refusal(held).refused /\ Refusal(held).ids = Range(held)
  BY <1>2, <1>3, WrittenOf
<1>6. /\ Some(cs) => Decided(cs, held) = <<Refusal(held)>>
      /\ ~Some(cs) => Decided(cs, held) = AsTheyCame(held)
  BY Zenon DEF Some, Decided
<1>7. /\ Some(cs) => Range(out') = Range(out) \cup ({Refusal(held)} \cup {Written(N + 1)})
      /\ ~Some(cs) => Range(out') = Range(out) \cup ({Written(n) : n \in Range(held)} \cup {Written(N + 1)})
  BY <1>4, <1>5, <1>6
<1>8. ~Written(N + 1).refused
  BY DEF Written
<1> QED BY <1>1, <1>5, <1>7, <1>8 DEF Settled

(* When calls are decided, what is held goes with the new event, or before   *)
(* an event of no call: all of it refused, or nothing.                       *)
LEMMA FateSettled ==
  ASSUME IInv, ShapeInv', NEW e, sent' = Append(sent, e), NEW i \in 1..MaxBlocks,
         NEW cs, held' = <<>>,
         \/ out' = out \o Decided(cs, Append(held, This))
         \/ ~IsOf(e, i) /\ out' = Append(out \o Decided(cs, held), Written(This))
  PROVE  /\ ~HeldOf(i)'
         /\ Some(cs) => (Refused(i)' <=> Refused(i) \/ HeldOf(i) \/ IsOf(e, i))
         /\ ~Some(cs) => (Refused(i)' <=> Refused(i))
<1>1. PICK N, X, Y : N = Len(sent) /\ X = EventsOf(i) /\ Y = EventsOf(i)'
  OBVIOUS
<1>2. N \in Nat /\ X \subseteq 1..N /\ Y = X \cup (IF IsOf(e, i) THEN {N + 1} ELSE {})
  BY <1>1, CallGrows DEF IInv
<1>3. ~HeldOf(i)'
  BY DEF HeldOf, Range
<1>4. Range(held) \subseteq 1..N /\ N + 1 \notin 1..N
  BY <1>1, <1>2, KnownEvents
<1>5. HeldOf(i) <=> Range(held) \cap X # {}
  BY <1>1 DEF HeldOf
<1>6. PICK h, T :
        /\ Settled(cs, h, T, out')
        /\ \/ Range(h) = Range(held) \cup {N + 1}
           \/ ~IsOf(e, i) /\ Range(h) = Range(held)
  BY <1>1, SettledWith, SettledBefore
<1>7. Range(h) \cap Y # {} <=> HeldOf(i) \/ IsOf(e, i)
  BY <1>2, <1>4, <1>5, <1>6
<1>8. ASSUME Some(cs) PROVE Refused(i)' <=> Refused(i) \/ HeldOf(i) \/ IsOf(e, i)
  <2>1. /\ Range(out') = Range(out) \cup ({Refusal(h)} \cup T) /\ \A x \in T : ~x.refused
        /\ Refusal(h).refused /\ Refusal(h).ids = Range(h)
    BY <1>6, <1>8 DEF Settled
  <2>2. Refused(i)' <=> Refused(i) \/ \E x \in {Refusal(h)} \cup T : x.refused /\ x.ids \cap EventsOf(i)' # {}
    BY <2>1, RefusedAfter
  <2> QED BY <1>1, <1>7, <2>1, <2>2
<1>9. ASSUME ~Some(cs) PROVE Refused(i)' <=> Refused(i)
  <2>1. /\ Range(out') = Range(out) \cup ({Written(n) : n \in Range(h)} \cup T)
        /\ \A x \in T : ~x.refused
    BY <1>6, <1>9 DEF Settled
  <2>2. \A x \in {Written(n) : n \in Range(h)} \cup T : ~x.refused
    BY <2>1 DEF Written
  <2> QED BY <2>1, <2>2, RefusedAfter
<1> QED BY <1>3, <1>8, <1>9

(* Whether a call is denied depends on the policy and the provider.          *)
LEMMA DeniedAfter ==
  ASSUME provider' = provider, policy' = policy, NEW i
  PROVE  /\ \A c : c = WholeCall(i)' => (DeniedCall(i)' <=> Denied(c))
         /\ WholeCall(i)' = WholeCall(i) => (DeniedCall(i)' <=> DeniedCall(i))
<1>1. ASSUME NEW c, c = WholeCall(i)' PROVE DeniedCall(i)' <=> Denied(c)
  BY <1>1 DEF DeniedCall, Denied, InputOf
<1>2. ASSUME WholeCall(i)' = WholeCall(i) PROVE DeniedCall(i)' <=> DeniedCall(i)
  <2>1. PICK c : c = WholeCall(i)
    OBVIOUS
  <2>2. DeniedCall(i)' <=> Denied(c)
    BY <1>1, <1>2, <2>1
  <2>3. DeniedCall(i) <=> Denied(c)
    BY <2>1 DEF DeniedCall
  <2> QED BY <2>2, <2>3
<1> QED BY <1>1, <1>2

(* The pieces of every call stay sequences of pieces.                        *)
LEMMA PartsAfter ==
  ASSUME ShapeInv, ShapeInv', PartsInv, NEW e, Fits(e), sent' = Append(sent, e)
  PROVE  PartsInv'
<1>1. ASSUME NEW i \in 1..MaxBlocks
      PROVE  ArgsOf(i)' \in Seq(Pieces) /\ (EventsOf(i)' = {} => ArgsOf(i)' = <<>>)
  BY CallAfter
<1> QED BY <1>1 DEF PartsInv

(* What a refusal may take, it may take later.                               *)
LEMMA TakesAfter ==
  ASSUME ShapeInv, ShapeInv', NEW e, sent' = Append(sent, e), NEW N, N = Len(sent)
  PROVE  /\ \A n \in 1..N : Takes(n) => Takes(n)'
         /\ e = Other => Takes(N + 1)'
         /\ \A i \in 1..MaxBlocks : IsOf(e, i) /\ IsToolCall(i)' => Takes(N + 1)'
<1>1. PICK s : s = sent'
  OBVIOUS
<1>2. /\ N \in Nat /\ DOMAIN sent = 1..N /\ DOMAIN s = 1..(N + 1) /\ s[N + 1] = e
      /\ \A n \in 1..N : s[n] = sent[n]
  BY <1>1, SentIsLonger
<1>3. \A i \in 1..MaxBlocks : IsToolCall(i) => IsToolCall(i)'
  BY CallGrows
<1>4. ASSUME NEW n \in 1..N, Takes(n) PROVE Takes(n)'
  BY <1>1, <1>2, <1>3, <1>4 DEF Takes, BelongsTo, Other
<1>5. ASSUME e = Other PROVE Takes(N + 1)'
  BY <1>1, <1>2, <1>5 DEF Takes, Other
<1>6. ASSUME NEW i \in 1..MaxBlocks, IsOf(e, i), IsToolCall(i)' PROVE Takes(N + 1)'
  BY <1>1, <1>2, <1>6 DEF Takes, BelongsTo, IsOf
<1> QED BY <1>4, <1>5, <1>6

(* What is written of a step, and what is held.                              *)
Rightly(x) ==
  \/ \E n \in 1..(Len(sent) + 1) : x = Written(n)
  \/ x.refused /\ Gated /\ \A n \in x.ids : n \in Range(held) \/ n = Len(sent) + 1

Wrote(W) == Range(out') = Range(out) \cup W /\ \A x \in W : Rightly(x)

(* The parts of a step that a refusal's contents depend on.                  *)
LEMMA TakenCore ==
  ASSUME IInv, ShapeInv', TakenInv, Gated' <=> Gated, NEW e, sent' = Append(sent, e),
         NEW N, N = Len(sent), NEW W, Wrote(W),
         Range(held') \subseteq Range(held) \cup {N + 1},
         \/ Takes(N + 1)'
         \/ N + 1 \notin Range(held') /\ \A x \in W : x.refused => N + 1 \notin x.ids
  PROVE  TakenInv'
<1>1. /\ N \in Nat /\ DOMAIN sent' = 1..(N + 1) /\ DOMAIN sent = 1..N
      /\ Range(held) \subseteq 1..N /\ \A x \in Range(out) : x.ids \subseteq 1..N
  BY KnownEvents, SentIsLonger DEF IInv
<1>2. \A n \in 1..N : Takes(n) => Takes(n)'
  BY TakesAfter DEF IInv
<1>3. \A n \in Range(held) : Takes(n)'
  BY <1>1, <1>2 DEF TakenInv
<1>4. \A n \in Range(held') : Takes(n)'
  BY <1>3
<1>5. DOMAIN sent \subseteq DOMAIN sent' /\ \A n \in 1..(N + 1) : n \in DOMAIN sent'
  BY <1>1
<1>6. ASSUME NEW x \in Range(out) PROVE Passed(x)' /\ TakesOnlyCalls(x)'
  <2>1. Passed(x)'
    <3>1. Passed(x)
      BY DEF TakenInv
    <3> QED BY <1>5, <3>1 DEF Passed, Written
  <2>2. TakesOnlyCalls(x)'
    <3>1. TakesOnlyCalls(x) /\ x.ids \subseteq 1..N
      BY <1>1 DEF TakenInv
    <3> QED BY <1>2, <3>1 DEF TakesOnlyCalls
  <2> QED BY <2>1, <2>2
<1>7. ASSUME NEW x \in W PROVE Passed(x)' /\ TakesOnlyCalls(x)'
  <2>1. CASE \E n \in 1..(N + 1) : x = Written(n)
    <3>1. Passed(x)'
      BY <1>5, <2>1 DEF Passed, Written
    <3>2. ~x.refused
      BY <2>1 DEF Written
    <3>3. TakesOnlyCalls(x)'
      BY <3>2 DEF TakesOnlyCalls
    <3> QED BY <3>1, <3>3
  <2>2. CASE x.refused /\ Gated /\ \A n \in x.ids : n \in Range(held) \/ n = N + 1
    <3>1. \A n \in x.ids : Takes(n)'
      BY <1>3, <2>2
    <3>2. TakesOnlyCalls(x)'
      BY <2>2, <3>1 DEF TakesOnlyCalls
    <3>3. Passed(x)'
      BY <2>2 DEF Passed
    <3> QED BY <3>2, <3>3
  <2> QED BY <2>1, <2>2 DEF Wrote, Rightly
<1>8. \A x \in Range(out') : Passed(x)' /\ TakesOnlyCalls(x)'
  BY <1>6, <1>7 DEF Wrote
<1> QED BY <1>4, <1>8 DEF TakenInv

(* An event that is written at once.                                         *)
LEMMA TakenThrough ==
  ASSUME IInv, ShapeInv', TakenInv, Gated' <=> Gated, NEW e, sent' = Append(sent, e), WriteThrough
  PROVE  TakenInv'
<1>1. PICK N, W : N = Len(sent) /\ W = {Written(N + 1)}
  OBVIOUS
<1>2. N \in Nat /\ Range(held) \subseteq 1..N
  BY <1>1, KnownEvents
<1>3. Wrote(W)
  <2>1. Range(out') = Range(out) \cup W
    BY <1>1, RoomForOne, RangeAppend DEF WriteThrough, This
  <2>2. N + 1 \in 1..(N + 1)
    BY <1>2
  <2>3. \A x \in W : Rightly(x)
    BY <1>1, <2>2 DEF Rightly
  <2> QED BY <2>1, <2>3 DEF Wrote
<1>4. \A x \in W : ~x.refused
  BY <1>1 DEF Written
<1>5. N + 1 \notin Range(held') /\ Range(held') \subseteq Range(held) \cup {N + 1}
  BY <1>2 DEF WriteThrough
<1> QED BY <1>1, <1>3, <1>4, <1>5, TakenCore

(* An event that is held.                                                    *)
LEMMA TakenHold ==
  ASSUME IInv, ShapeInv', TakenInv, Gated' <=> Gated, NEW e, sent' = Append(sent, e),
         NEW N, N = Len(sent), Takes(N + 1)', Hold
  PROVE  TakenInv'
<1>1. PICK W : W = {}
  OBVIOUS
<1>2. Wrote(W)
  BY <1>1 DEF Wrote, Hold
<1>3. Range(held') = Range(held) \cup {N + 1}
  BY RoomForOne, RangeAppend DEF Hold, This
<1> QED BY <1>2, <1>3, TakenCore

(* An event that is dropped.                                                 *)
LEMMA TakenDropped ==
  ASSUME IInv, ShapeInv', TakenInv, Gated' <=> Gated, NEW e, sent' = Append(sent, e), UNCHANGED gate
  PROVE  TakenInv'
<1>1. PICK N, W : N = Len(sent) /\ W = {}
  OBVIOUS
<1>2. N \in Nat /\ Range(held) \subseteq 1..N
  BY <1>1, KnownEvents
<1>3. Wrote(W)
  BY <1>1 DEF Wrote, gate
<1>4. N + 1 \notin Range(held') /\ Range(held') \subseteq Range(held) \cup {N + 1}
  BY <1>2 DEF gate
<1>5. \A x \in W : x.refused => N + 1 \notin x.ids
  BY <1>1
<1> QED BY <1>1, <1>3, <1>4, <1>5, TakenCore

(* What a decision writes is what is held, and the event.                    *)
LEMMA WroteSettled ==
  ASSUME IInv, Gated, NEW cs, NEW h, NEW T, NEW N, N = Len(sent), Settled(cs, h, T, out'),
         Range(h) \subseteq Range(held) \cup {N + 1}, T \subseteq {Written(N + 1)}
  PROVE  \E W : /\ Wrote(W)
                /\ N + 1 \notin Range(h) => \A x \in W : x.refused => N + 1 \notin x.ids
<1>1. N \in Nat /\ Range(held) \subseteq 1..N
  BY KnownEvents
<1>2. N + 1 \in 1..(N + 1) /\ Range(h) \subseteq 1..(N + 1)
  BY <1>1
<1>3. ASSUME NEW x \in T PROVE ~x.refused /\ Rightly(x)
  BY <1>2 DEF Written, Rightly
<1>4. CASE Some(cs)
  <2>1. PICK W : W = {Refusal(h)} \cup T
    OBVIOUS
  <2>2. Refusal(h).refused /\ Refusal(h).ids = Range(h) /\ Range(out') = Range(out) \cup W
    BY <1>4, <2>1 DEF Settled
  <2>3. Wrote(W)
    <3>1. ASSUME NEW x \in W
          PROVE  Rightly(x)
      <4>1. CASE x \in T
        BY <1>3, <4>1
      <4>2. CASE x = Refusal(h)
        BY <2>2, <4>2 DEF Rightly
      <4> QED BY <2>1, <4>1, <4>2
    <3> QED BY <2>2, <3>1 DEF Wrote
  <2>4. ASSUME N + 1 \notin Range(h), NEW x \in W, x.refused PROVE N + 1 \notin x.ids
    <3>1. x = Refusal(h)
      BY <1>3, <2>1, <2>4
    <3> QED BY <2>2, <2>4, <3>1
  <2> QED BY <2>3, <2>4
<1>5. CASE ~Some(cs)
  <2>1. PICK W : W = {Written(n) : n \in Range(h)} \cup T
    OBVIOUS
  <2>2. Range(out') = Range(out) \cup W
    BY <1>5, <2>1 DEF Settled
  <2>3. ASSUME NEW x \in W PROVE ~x.refused /\ Rightly(x)
    <3>1. CASE x \in T
      BY <1>3, <3>1
    <3>2. CASE x \in {Written(n) : n \in Range(h)}
      BY <1>2, <3>2 DEF Written, Rightly
    <3> QED BY <2>1, <3>1, <3>2
  <2> QED BY <2>2, <2>3 DEF Wrote
<1> QED BY <1>4, <1>5

(* An event that completes a call, or shows that it is complete.             *)
LEMMA TakenSettled ==
  ASSUME IInv, ShapeInv', TakenInv, Gated, Gated', NEW e, sent' = Append(sent, e),
         NEW N, N = Len(sent), NEW cs, held' = <<>>,
         \/ out' = out \o Decided(cs, Append(held, This)) /\ Takes(N + 1)'
         \/ out' = Append(out \o Decided(cs, held), Written(This))
  PROVE  TakenInv'
<1>1. Range(held') = {}
  BY DEF Range
<1>2. N \in Nat /\ Range(held) \subseteq 1..N /\ N + 1 \notin Range(held)
  <2>1. N \in Nat /\ Range(held) \subseteq 1..N
    BY KnownEvents
  <2> QED BY <2>1
<1>3. CASE out' = out \o Decided(cs, Append(held, This)) /\ Takes(N + 1)'
  <2>1. PICK h : Range(h) = Range(held) \cup {N + 1} /\ Settled(cs, h, {}, out')
    BY <1>3, SettledWith
  <2>2. PICK W : Wrote(W)
    BY <2>1, WroteSettled
  <2> QED BY <1>1, <1>3, <2>2, TakenCore
<1>4. CASE out' = Append(out \o Decided(cs, held), Written(This))
  <2>1. Settled(cs, held, {Written(N + 1)}, out')
    BY <1>4, SettledBefore
  <2>2. PICK W : Wrote(W) /\ \A x \in W : x.refused => N + 1 \notin x.ids
    BY <1>2, <2>1, WroteSettled
  <2> QED BY <1>1, <2>2, TakenCore
<1> QED BY <1>3, <1>4

-----------------------------------------------------------------------------
(* Anthropic's blocks                                                        *)

(* What is common to the cases: a step that handles an event of a stream     *)
(* with a policy.                                                            *)
Reads(e) ==
  /\ IInv /\ ShapeInv' /\ CallInv
  /\ Fits(e) /\ sent' = Append(sent, e)
  /\ provider' = provider /\ policy' = policy /\ Gated
  /\ pc = "streaming" /\ pc' = "streaming"

(* Gating does not change on the way.                                        *)
LEMMA StillGated ==
  ASSUME NEW e, Reads(e)
  PROVE  (Gated' <=> Gated) /\ Gated'
BY DEF Reads, Gated

(* A call that no event is added to stays as it is.                          *)
LEMMA RuledStays ==
  ASSUME NEW e, Reads(e), provider = "anthropic", NEW i \in 1..MaxBlocks, ~IsOf(e, i),
         EventsOf(i) # {}, Ruled(i), Refused(i)' <=> Refused(i), ~HeldOf(i)'
  PROVE  Ruled(i)'
<1>1. WholeCall(i)' = WholeCall(i)
  BY CallAfter DEF Reads, IInv, CallInv
<1>2. DeniedCall(i)' <=> DeniedCall(i)
  BY <1>1, DeniedAfter DEF Reads
<1>3. provider' = "anthropic"
  BY DEF Reads
<1> QED BY <1>2, <1>3 DEF Ruled

(* A call's events, and what is known of the blocks.                         *)
LEMMA BlockFacts ==
  ASSUME NEW e, Reads(e), provider = "anthropic", NEW i \in 1..MaxBlocks
  PROVE  /\ BlockInv(i) /\ source.open <= source.blocks
         /\ source.open \in Nat /\ source.blocks \in Nat /\ i \in Nat /\ i # 0
         /\ ~IsOf(e, i) => EventsOf(i)' = EventsOf(i)
         /\ IsToolCall(i)' <=> IsToolCall(i) \/ Makes(e, i)
         /\ IsToolCall(i) => EventsOf(i) # {}
         /\ \A kind : HasKind(i, kind)' <=> HasKind(i, kind) \/ (IsOf(e, i) /\ e.kind = kind)
         /\ calls # NoCalls => source.open # 0 /\ DOMAIN calls = {source.open}
         /\ calls = NoCalls => held = <<>>
<1>1. BlockInv(i)
  BY DEF Reads, CallInv, AnthropicInv
<1>2. /\ source.open <= source.blocks
      /\ source.open \in Nat /\ source.blocks \in Nat /\ i \in Nat /\ i # 0
  BY DEF Reads, IInv, ShapeInv, SourceOK
<1>3. ~IsOf(e, i) => EventsOf(i)' = EventsOf(i)
  BY CallGrows DEF Reads, IInv
<1>4. IsToolCall(i)' <=> IsToolCall(i) \/ Makes(e, i)
  BY CallGrows DEF Reads, IInv
<1>5. IsToolCall(i) => EventsOf(i) # {}
  BY DEF IsToolCall
<1>6. \A kind : HasKind(i, kind)' <=> HasKind(i, kind) \/ (IsOf(e, i) /\ e.kind = kind)
  BY KindsGrow DEF Reads, IInv
<1>7. /\ calls # NoCalls => source.open # 0 /\ DOMAIN calls = {source.open}
      /\ calls = NoCalls => held = <<>>
  BY DEF Reads, IInv, HeldInv
<1> QED BY <1>1, <1>2, <1>3, <1>4, <1>5, <1>6, <1>7

(* A block that the event is not of.                                         *)
LEMMA OtherBlock ==
  ASSUME NEW e, Reads(e), BlockMove(e), provider = "anthropic",
         NEW i \in 1..MaxBlocks, ~IsOf(e, i), i # source.open, i # source'.open,
         HeldOf(i)' => HeldOf(i), Refused(i)' <=> Refused(i)
  PROVE  BlockInv(i)'
<1>1. /\ BlockInv(i) /\ source.open <= source.blocks
      /\ source.open \in Nat /\ source.blocks \in Nat /\ i \in Nat /\ i # 0
      /\ EventsOf(i)' = EventsOf(i)
      /\ IsToolCall(i)' <=> IsToolCall(i)
      /\ IsToolCall(i) => EventsOf(i) # {}
      /\ ~HasKind(i, "chunk")' <=> ~HasKind(i, "chunk")
  BY BlockFacts DEF Makes
<1>2. source'.blocks >= source.blocks /\ source'.blocks \in Nat
  BY <1>1 DEF BlockMove
<1>3. i > source'.blocks => EventsOf(i)' = {}
  BY <1>1, <1>2 DEF BlockInv
<1>4. IsToolCall(i)' => Ruled(i)'
  <2>1. ASSUME IsToolCall(i) PROVE Ruled(i) /\ EventsOf(i) # {}
    BY <1>1, <2>1 DEF BlockInv
  <2>2. Ruled(i) => ~HeldOf(i)
    BY DEF Ruled
  <2> QED BY <1>1, <2>1, <2>2, RuledStays
<1>5. ~HasKind(i, "chunk")'
  BY <1>1 DEF BlockInv
<1> QED BY <1>3, <1>4, <1>5 DEF BlockInv

(* The open block, when the event is not one of its own.                     *)
LEMMA OpenBlockWaits ==
  ASSUME NEW e, Reads(e), provider = "anthropic", e = Other \/ e = Comment \/ e = Bare,
         source'.open = source.open, source'.blocks = source.blocks, calls' = calls,
         NEW i \in 1..MaxBlocks, i = source.open, HeldOf(i) => HeldOf(i)', Refused(i)' <=> Refused(i)
  PROVE  BlockInv(i)'
<1>1. ~IsOf(e, i) /\ ~Makes(e, i)
  BY DEF IsOf, Makes, Other, Comment, Bare
<1>2. /\ BlockInv(i) /\ source.open <= source.blocks
      /\ source.open \in Nat /\ source.blocks \in Nat /\ i \in Nat
      /\ IsToolCall(i)' <=> IsToolCall(i)
      /\ IsToolCall(i) => EventsOf(i) # {}
      /\ HasKind(i, "chunk")' <=> HasKind(i, "chunk")
      /\ HasKind(i, "stop")' <=> HasKind(i, "stop")
  BY <1>1, BlockFacts
<1>3. (calls' # NoCalls') <=> (calls # NoCalls)
  BY DEF NoCalls
<1>4. (IsToolCall(i) <=> calls # NoCalls) /\ (IsToolCall(i) => InTheMaking(i))
  BY <1>2 DEF BlockInv, Reads
<1>5. IsToolCall(i) => InTheMaking(i)'
  <2>1. ASSUME IsToolCall(i) PROVE WholeCall(i)' = WholeCall(i)
    BY <1>1, <1>2, <2>1, CallAfter DEF Reads, IInv, CallInv
  <2> QED BY <1>4, <2>1 DEF InTheMaking
<1>6. ~(i > source'.blocks) /\ i = source'.open
  BY <1>2
<1> QED BY <1>2, <1>3, <1>4, <1>5, <1>6 DEF BlockInv

(* An event that is written at once is of no call.                           *)
LEMMA BlockThrough ==
  ASSUME NEW e, Reads(e), BlockMove(e), provider = "anthropic", WriteThrough,
         \/ e = Comment
         \/ e = Other /\ calls = NoCalls
         \/ e.kind = "start" /\ ~e.tool /\ calls = NoCalls
         \/ e.kind \in {"delta", "stop"} /\ calls = NoCalls
  PROVE  AnthropicInv' /\ TakenInv'
<1>1. TakenInv'
  BY StillGated, TakenThrough DEF Reads, CallInv
<1> SUFFICES ASSUME NEW i \in 1..MaxBlocks PROVE BlockInv(i)'
  BY <1>1 DEF AnthropicInv
<1>2. (Refused(i)' <=> Refused(i)) /\ (HeldOf(i)' <=> HeldOf(i))
  BY FateThrough DEF Reads
<1>3. /\ BlockInv(i) /\ source.open <= source.blocks
      /\ source.open \in Nat /\ source.blocks \in Nat /\ i \in Nat /\ i # 0
      /\ IsToolCall(i)' <=> IsToolCall(i) \/ Makes(e, i)
      /\ IsToolCall(i) => EventsOf(i) # {}
      /\ HasKind(i, "chunk")' <=> HasKind(i, "chunk") \/ (IsOf(e, i) /\ e.kind = "chunk")
      /\ HasKind(i, "stop")' <=> HasKind(i, "stop") \/ (IsOf(e, i) /\ e.kind = "stop")
  BY BlockFacts
<1>4. calls' = calls /\ NoCalls' = NoCalls /\ pc = "streaming" /\ pc' = "streaming"
  BY DEF WriteThrough, NoCalls, Reads
<1>5. CASE ~IsOf(e, i) /\ i # source.open /\ i # source'.open
  BY <1>2, <1>5, OtherBlock
<1>6. CASE ~IsOf(e, i) /\ (i = source.open \/ i = source'.open)
  <2>1. (e = Other \/ e = Comment \/ e = Bare) /\ source'.open = source.open /\ source'.blocks = source.blocks
    BY <1>3, <1>6 DEF BlockMove, IsOf
  <2> QED BY <1>2, <1>4, <1>6, <2>1, OpenBlockWaits
<1>7. CASE IsOf(e, i)
  <2>1. e # Other /\ e # Comment /\ e # Bare /\ i = e.index /\ calls = NoCalls
    BY <1>7 DEF IsOf, Other, Comment, Bare, BlockMove
  <2>2. CASE e.kind = "start"
    <3>1. source'.open = i /\ source'.blocks = i /\ i > source.blocks /\ ~e.tool
      BY <1>3, <2>1, <2>2 DEF BlockMove
    <3>2. EventsOf(i) = {} /\ ~IsToolCall(i) /\ ~HasKind(i, "chunk") /\ ~HasKind(i, "stop")
      BY <1>3, <3>1 DEF BlockInv, HasKind
    <3>3. ~IsToolCall(i)' /\ ~HasKind(i, "chunk")' /\ ~HasKind(i, "stop")'
      BY <1>3, <2>2, <3>1, <3>2 DEF Makes
    <3> QED BY <1>3, <1>4, <2>1, <3>1, <3>3 DEF BlockInv
  <2>3. CASE e.kind \in {"delta", "stop"}
    <3>1. /\ source.open = i /\ source'.blocks = source.blocks
          /\ e.kind = "delta" => source'.open = i
          /\ e.kind = "stop" => source'.open # i
      BY <1>3, <2>1, <2>3 DEF BlockMove
    <3>2. ~IsToolCall(i) /\ ~HasKind(i, "chunk") /\ ~HasKind(i, "stop")
      BY <1>3, <1>4, <2>1, <3>1 DEF BlockInv
    <3>3. ~IsToolCall(i)' /\ ~HasKind(i, "chunk")' /\ (e.kind = "delta" => ~HasKind(i, "stop")')
      BY <1>3, <2>3, <3>2 DEF Makes
    <3>4. ~(i > source'.blocks)
      BY <1>3, <3>1
    <3> QED BY <1>4, <2>1, <2>3, <3>1, <3>3, <3>4 DEF BlockInv
  <2> QED BY <2>1, <2>2, <2>3, <1>7 DEF BlockMove
<1> QED BY <1>5, <1>6, <1>7

(* A ping while a call is in the making is held with it.                     *)
LEMMA BlockPing ==
  ASSUME NEW e, Reads(e), BlockMove(e), provider = "anthropic", e = Other, Hold, calls' = calls
  PROVE  AnthropicInv' /\ TakenInv'
<1>1. TakenInv'
  <2>1. PICK N : N = Len(sent)
    OBVIOUS
  <2>2. Takes(N + 1)'
    BY <2>1, TakesAfter DEF Reads, IInv
  <2> QED BY <2>1, <2>2, StillGated, TakenHold DEF Reads, CallInv
<1> SUFFICES ASSUME NEW i \in 1..MaxBlocks PROVE BlockInv(i)'
  BY <1>1 DEF AnthropicInv
<1>2. ~IsOf(e, i) /\ source'.open = source.open /\ source'.blocks = source.blocks
  BY DEF IsOf, Other, Comment, Bare, BlockMove
<1>3. (Refused(i)' <=> Refused(i)) /\ (HeldOf(i)' <=> HeldOf(i))
  BY <1>2, FateHold DEF Reads
<1>4. CASE i # source.open
  BY <1>2, <1>3, <1>4, OtherBlock
<1>5. CASE i = source.open
  BY <1>2, <1>3, <1>5, OpenBlockWaits
<1> QED BY <1>4, <1>5

(* An event without data changes nothing of a call.                          *)
LEMMA FateDropped ==
  ASSUME NEW e, Reads(e), e = Bare, UNCHANGED gate, NEW i \in 1..MaxBlocks
  PROVE  ~IsOf(e, i) /\ (Refused(i)' <=> Refused(i)) /\ (HeldOf(i)' <=> HeldOf(i))
<1>1. ~IsOf(e, i)
  BY DEF IsOf, Bare
<1>2. EventsOf(i)' = EventsOf(i)
  BY <1>1, CallGrows DEF Reads, IInv
<1>3. out' = out /\ held' = held
  BY DEF gate
<1> QED BY <1>1, <1>2, <1>3 DEF Refused, HeldOf

(* An event without data is dropped, whatever is in the making.              *)
LEMMA BlockDropped ==
  ASSUME NEW e, Reads(e), BlockMove(e), provider = "anthropic", e = Bare, UNCHANGED gate
  PROVE  AnthropicInv' /\ TakenInv'
<1>1. TakenInv'
  BY StillGated, TakenDropped DEF Reads, CallInv
<1> SUFFICES ASSUME NEW i \in 1..MaxBlocks PROVE BlockInv(i)'
  BY <1>1 DEF AnthropicInv
<1>2. source'.open = source.open /\ source'.blocks = source.blocks /\ calls' = calls
  BY DEF Bare, BlockMove, gate
<1>3. ~IsOf(e, i) /\ (Refused(i)' <=> Refused(i)) /\ (HeldOf(i)' <=> HeldOf(i))
  BY FateDropped
<1>4. CASE i # source.open
  BY <1>2, <1>3, <1>4, OtherBlock
<1>5. CASE i = source.open
  BY <1>2, <1>3, <1>5, OpenBlockWaits
<1> QED BY <1>4, <1>5

(* Adding one piece.                                                         *)
LEMMA OneMore ==
  ASSUME NEW S, NEW h \in Seq(S), NEW x \in S
  PROVE  Append(h, x) = h \o <<x>>
OBVIOUS

(* A call begins.                                                            *)
LEMMA BlockStarts ==
  ASSUME NEW e, Reads(e), BlockMove(e), provider = "anthropic", e.kind = "start", e.tool,
         calls' = [i \in {e.index} |-> NewCall(e.name)], held' = <<This>>, UNCHANGED out
  PROVE  AnthropicInv' /\ TakenInv'
<1>1. source.open = 0 /\ calls = NoCalls /\ held = <<>> /\ e.index \in 1..MaxBlocks
  BY DEF Reads, IInv, HeldInv, Fits
<1>2. Hold
  <2>1. Append(held, This) = <<This>>
    BY <1>1, OneElement
  <2> QED BY <2>1 DEF Hold
<1>3. PICK b \in 1..MaxBlocks : b = e.index
  BY <1>1
<1>4. source'.open = b /\ source'.blocks = b /\ b = source.blocks + 1
  BY <1>3 DEF BlockMove, Other, Comment, Bare
<1>5. IsOf(e, b) /\ Makes(e, b) /\ IsToolCall(b)' /\ \A i \in 1..MaxBlocks : IsOf(e, i) => i = b
  <2>1. IsOf(e, b) /\ Makes(e, b) /\ \A i \in 1..MaxBlocks : IsOf(e, i) => i = b
    BY <1>3 DEF IsOf, Makes
  <2> QED BY <2>1, BlockFacts
<1>6. TakenInv'
  <2>1. PICK N : N = Len(sent)
    OBVIOUS
  <2>2. Takes(N + 1)'
    BY <1>5, <2>1, TakesAfter DEF Reads, IInv
  <2> QED BY <1>2, <2>1, <2>2, StillGated, TakenHold DEF Reads, CallInv
<1> SUFFICES ASSUME NEW i \in 1..MaxBlocks PROVE BlockInv(i)'
  BY <1>6 DEF AnthropicInv
<1>7. (Refused(i)' <=> Refused(i)) /\ (HeldOf(i)' <=> HeldOf(i) \/ IsOf(e, i))
  BY <1>2, FateHold DEF Reads
<1>8. CASE i # b
  <2>1. ~IsOf(e, i) /\ i # source.open /\ i # source'.open
    BY <1>1, <1>4, <1>5, <1>8
  <2> QED BY <1>7, <2>1, OtherBlock
<1>9. CASE i = b
  <2>1. /\ EventsOf(i) = {} /\ i > source.blocks
        /\ HasKind(i, "chunk")' <=> HasKind(i, "chunk") \/ (IsOf(e, i) /\ e.kind = "chunk")
        /\ HasKind(i, "stop")' <=> HasKind(i, "stop") \/ (IsOf(e, i) /\ e.kind = "stop")
    <3>1. BlockInv(i) /\ source.blocks \in Nat
      BY BlockFacts
    <3>2. i > source.blocks
      BY <1>4, <1>9, <3>1
    <3> QED BY <3>1, <3>2, BlockFacts DEF BlockInv
  <2>2. ~HasKind(i, "chunk")' /\ ~HasKind(i, "stop")'
    BY <2>1 DEF HasKind
  <2>3. WholeCall(i)' = [name |-> e.name, args |-> <<>>]
    <3>1. Names(e, i) = e.name /\ Gives(e, i) = <<>>
      BY Zenon DEF Names, Gives
    <3>2. WholeCall(i)' = [name |-> Names(e, i), args |-> Gives(e, i)]
      BY <1>5, <1>9, <2>1, CallAfter DEF Reads, IInv, CallInv
    <3> QED BY <3>1, <3>2
  <2>4. i \in DOMAIN calls' /\ calls'[i] = WholeCall(i)' /\ calls' # NoCalls'
    BY <1>3, <1>9, <2>3 DEF NewCall, NoCalls
  <2>5. ~Refused(i)
    BY <2>1 DEF Refused
  <2>6. InTheMaking(i)'
    BY <1>5, <1>7, <1>9, <2>4, <2>5 DEF InTheMaking
  <2> QED BY <1>4, <1>5, <1>9, <2>2, <2>4, <2>6 DEF BlockInv
<1> QED BY <1>8, <1>9

(* A call in the making gets a piece of its arguments.                       *)
LEMMA BlockGrows ==
  ASSUME NEW e, Reads(e), BlockMove(e), provider = "anthropic", e.kind = "delta", calls # NoCalls,
         Hold, calls' = [calls EXCEPT ![e.index].args = Append(@, e.piece)]
  PROVE  AnthropicInv' /\ TakenInv'
<1>1. /\ e.index = source.open /\ source'.open = source.open /\ source'.blocks = source.blocks
      /\ source.open # 0 /\ e.piece \in Pieces
  BY DEF BlockMove, Other, Comment, Bare, Reads, Fits
<1>2. PICK b \in 1..MaxBlocks : b = source.open
  BY <1>1 DEF Reads, IInv, ShapeInv, SourceOK
<1>3. DOMAIN calls = {b} /\ calls[b] \in [name : ToolNames \cup {""}, args : Seq(Pieces)]
  BY <1>2 DEF Reads, IInv, HeldInv, CallsOK
<1>4. IsOf(e, b) /\ \A i \in 1..MaxBlocks : IsOf(e, i) => i = b
  BY <1>1, <1>2 DEF IsOf
<1>5. IsToolCall(b) /\ InTheMaking(b)
  <2>1. BlockInv(b)
    BY BlockFacts
  <2> QED BY <1>2, <2>1 DEF BlockInv, Reads
<1>6. IsToolCall(b)'
  BY <1>5, BlockFacts
<1>7. TakenInv'
  <2>1. PICK N : N = Len(sent)
    OBVIOUS
  <2>2. Takes(N + 1)'
    BY <1>4, <1>6, <2>1, TakesAfter DEF Reads, IInv
  <2> QED BY <2>1, <2>2, StillGated, TakenHold DEF Reads, CallInv
<1> SUFFICES ASSUME NEW i \in 1..MaxBlocks PROVE BlockInv(i)'
  BY <1>7 DEF AnthropicInv
<1>8. (Refused(i)' <=> Refused(i)) /\ (HeldOf(i)' <=> HeldOf(i) \/ IsOf(e, i))
  BY FateHold DEF Reads
<1>9. CASE i # b
  BY <1>1, <1>2, <1>4, <1>8, <1>9, OtherBlock
<1>10. CASE i = b
  <2>1. ~HasKind(i, "chunk")' /\ ~HasKind(i, "stop")' /\ ~(i > source'.blocks)
    <3>1. /\ BlockInv(i) /\ source.open <= source.blocks /\ source.open \in Nat /\ source.blocks \in Nat
          /\ HasKind(i, "chunk")' <=> HasKind(i, "chunk") \/ (IsOf(e, i) /\ e.kind = "chunk")
          /\ HasKind(i, "stop")' <=> HasKind(i, "stop") \/ (IsOf(e, i) /\ e.kind = "stop")
      BY BlockFacts
    <3> QED BY <1>1, <1>2, <1>10, <3>1 DEF BlockInv
  <2>2. WholeCall(i)' = [name |-> WholeCall(i).name, args |-> WholeCall(i).args \o <<e.piece>>]
    <3>1. Gives(e, i) = <<e.piece>>
      BY <1>4, <1>10, Zenon DEF Gives
    <3>2. EventsOf(i) # {}
      BY <1>5, <1>10, BlockFacts
    <3> QED BY <1>4, <1>10, <3>1, <3>2, CallAfter DEF Reads, IInv, CallInv
  <2>3. calls[i] = WholeCall(i)
    BY <1>5, <1>10 DEF InTheMaking
  <2>4. PICK c : c = calls[i]
    OBVIOUS
  <2>5. calls'[i] = [name |-> c.name, args |-> Append(c.args, e.piece)] /\ DOMAIN calls' = {i}
    BY <1>1, <1>2, <1>3, <1>10, <2>4
  <2>6. Append(c.args, e.piece) = c.args \o <<e.piece>>
    <3>1. c.args \in Seq(Pieces)
      BY <1>3, <1>10, <2>4
    <3> QED BY <1>1, <3>1, OneMore
  <2>7. calls'[i] = WholeCall(i)'
    BY <2>2, <2>3, <2>4, <2>5, <2>6
  <2>8. InTheMaking(i)'
    BY <1>4, <1>5, <1>8, <1>10, <2>5, <2>7 DEF InTheMaking
  <2>9. calls' # NoCalls'
    BY <2>5 DEF NoCalls
  <2> QED BY <1>1, <1>2, <1>6, <1>10, <2>1, <2>8, <2>9 DEF BlockInv
<1> QED BY <1>9, <1>10

(* A call is complete, and decided.                                          *)
LEMMA BlockStops ==
  ASSUME NEW e, Reads(e), BlockMove(e), provider = "anthropic", e.kind = "stop", calls # NoCalls,
         out' = out \o Decided(calls, Append(held, This)), Clear
  PROVE  AnthropicInv' /\ TakenInv'
<1>1. /\ e.index = source.open /\ source'.open = 0 /\ source'.blocks = source.blocks
      /\ source.open # 0
  BY DEF BlockMove, Other, Comment, Bare
<1>2. PICK b \in 1..MaxBlocks : b = source.open
  BY <1>1 DEF Reads, IInv, ShapeInv, SourceOK
<1>3. DOMAIN calls = {b} /\ held' = <<>>
  BY <1>2 DEF Reads, IInv, HeldInv, Clear
<1>4. IsOf(e, b) /\ \A i \in 1..MaxBlocks : IsOf(e, i) => i = b
  BY <1>1, <1>2 DEF IsOf
<1>5. IsToolCall(b) /\ InTheMaking(b)
  <2>1. BlockInv(b)
    BY BlockFacts
  <2> QED BY <1>2, <2>1 DEF BlockInv, Reads
<1>6. IsToolCall(b)'
  BY <1>5, BlockFacts
<1>7. TakenInv'
  <2>1. PICK N : N = Len(sent)
    OBVIOUS
  <2>2. Takes(N + 1)'
    BY <1>4, <1>6, <2>1, TakesAfter DEF Reads, IInv
  <2>3. Gated /\ Gated'
    BY StillGated DEF Reads
  <2> QED BY <1>3, <2>1, <2>2, <2>3, TakenSettled DEF Reads, CallInv
<1> SUFFICES ASSUME NEW i \in 1..MaxBlocks PROVE BlockInv(i)'
  BY <1>7 DEF AnthropicInv
<1>8. /\ ~HeldOf(i)'
      /\ Some(calls) => (Refused(i)' <=> Refused(i) \/ HeldOf(i) \/ IsOf(e, i))
      /\ ~Some(calls) => (Refused(i)' <=> Refused(i))
  BY <1>3, FateSettled DEF Reads
<1>9. Some(calls) <=> DeniedCall(b)
  BY <1>3, <1>5 DEF Some, InTheMaking, DeniedCall
<1>10. CASE i # b
  <2>1. ~IsOf(e, i) /\ i # source.open /\ i # source'.open
    BY <1>1, <1>2, <1>4, <1>10
  <2>2. CASE IsToolCall(i)
    <3>1. BlockInv(i)
      BY BlockFacts
    <3>2. ~HeldOf(i)
      BY <2>1, <2>2, <3>1 DEF BlockInv, Ruled
    <3> QED BY <1>8, <2>1, <3>2, OtherBlock
  <2>3. CASE ~IsToolCall(i)
    <3>1. /\ ~IsToolCall(i)' /\ BlockInv(i) /\ EventsOf(i)' = EventsOf(i)
          /\ HasKind(i, "chunk")' <=> HasKind(i, "chunk")
      BY <2>1, <2>3, BlockFacts DEF Makes
    <3> QED BY <1>1, <2>1, <3>1 DEF BlockInv
  <2> QED BY <2>2, <2>3
<1>11. CASE i = b
  <2>1. ~HasKind(i, "chunk")' /\ ~(i > source'.blocks)
    <3>1. /\ BlockInv(i) /\ source.open <= source.blocks /\ source.open \in Nat /\ source.blocks \in Nat
          /\ HasKind(i, "chunk")' <=> HasKind(i, "chunk") \/ (IsOf(e, i) /\ e.kind = "chunk")
      BY BlockFacts
    <3> QED BY <1>1, <1>2, <1>11, <3>1 DEF BlockInv
  <2>2. WholeCall(i)' = WholeCall(i)
    <3>1. PICK a : a = ArgsOf(i) /\ a \in Seq(Pieces)
      BY DEF Reads, CallInv, PartsInv
    <3>2. WholeCall(i) = [name |-> NameOf(i), args |-> a] /\ a \o <<>> = a
      BY <3>1 DEF WholeCall
    <3>3. Gives(e, i) = <<>>
      BY Zenon DEF Gives
    <3>4. WholeCall(i)' = [name |-> WholeCall(i).name, args |-> WholeCall(i).args \o Gives(e, i)]
      <4>1. EventsOf(i) # {}
        BY <1>5, <1>11, BlockFacts
      <4> QED BY <1>4, <1>11, <4>1, CallAfter DEF Reads, IInv, CallInv
    <3> QED BY <3>2, <3>3, <3>4
  <2>3. DeniedCall(i)' <=> DeniedCall(i)
    BY <2>2, DeniedAfter DEF Reads
  <2>4. ~Refused(i)
    BY <1>5, <1>11 DEF InTheMaking
  <2>5. Refused(i)' <=> DeniedCall(i)'
    BY <1>4, <1>8, <1>9, <1>11, <2>3, <2>4
  <2>6. Ruled(i)'
    BY <1>8, <2>5 DEF Ruled
  <2>7. i # source'.open
    BY <1>1, <1>2, <1>11
  <2> QED BY <2>1, <2>6, <2>7 DEF BlockInv
<1> QED BY <1>10, <1>11

(* Whatever the loop does with an event of a block.                          *)
LEMMA BlocksStay ==
  ASSUME NEW e, Reads(e), BlockMove(e), provider = "anthropic", Handle(e)
  PROVE  AnthropicInv' /\ TakenInv'
<1>1. /\ e.kind \in {"start", "delta", "stop", "other", "comment", "bare"}
      /\ e.kind = "other" => e = Other
      /\ e.kind = "comment" => e = Comment
      /\ e.kind = "bare" => e = Bare
      /\ Comment # Bare
  <2>1. Other.kind = "other" /\ Comment.kind = "comment" /\ Bare.kind = "bare" /\ Comment # Bare
    BY DEF Other, Comment, Bare
  <2>2. e.kind = "start" \/ e.kind = "delta" \/ e.kind = "stop" \/ e = Other \/ e = Comment \/ e = Bare
    BY DEF BlockMove
  <2> QED BY <2>1, <2>2
<1>2. /\ e.kind = "start" => calls = NoCalls
      /\ e.kind \in {"delta", "stop"} => (e.index \in DOMAIN calls <=> calls # NoCalls)
      /\ DOMAIN NoCalls = {}
  BY <1>1 DEF Reads, IInv, HeldInv, Fits, NoCalls
<1>3. CASE e = Comment
  <2>1. WriteThrough
    BY <1>1, <1>3 DEF Handle
  <2> QED BY <1>3, <2>1, BlockThrough
<1>4. CASE e = Bare
  <2>1. UNCHANGED gate
    BY <1>1, <1>4 DEF Handle, Reads
  <2> QED BY <1>4, <2>1, BlockDropped
<1>5. CASE e \notin {Comment, Bare}
  <2>1. runAnthropic(e)
    BY <1>5 DEF Handle, Reads, Gated
  <2>2. CASE /\ e.kind = "start" /\ e.tool
             /\ calls' = [i \in {e.index} |-> NewCall(e.name)]
             /\ held' = <<This>> /\ UNCHANGED out
    BY <2>2, BlockStarts
  <2>3. CASE /\ e.kind = "delta" /\ e.index \in DOMAIN calls
             /\ calls' = [calls EXCEPT ![e.index].args = Append(@, e.piece)]
             /\ Hold
    BY <1>2, <2>3, BlockGrows
  <2>4. CASE /\ e.kind = "stop" /\ e.index \in DOMAIN calls
             /\ out' = out \o Decided(calls, Append(held, This))
             /\ Clear
    BY <1>2, <2>4, BlockStops
  <2>5. CASE e.kind \in {"delta", "stop"} /\ e.index \notin DOMAIN calls /\ WriteThrough
    BY <1>2, <2>5, BlockThrough
  <2>6. CASE /\ (e.kind = "start" /\ ~e.tool) \/ e.kind = "other"
             /\ calls # NoCalls /\ Hold /\ UNCHANGED calls
    BY <1>1, <1>2, <2>6, BlockPing
  <2>7. CASE /\ (e.kind = "start" /\ ~e.tool) \/ e.kind = "other"
             /\ calls = NoCalls /\ WriteThrough
    BY <1>1, <2>7, BlockThrough
  <2> QED BY <2>1, <2>2, <2>3, <2>4, <2>5, <2>6, <2>7 DEF runAnthropic
<1> QED BY <1>3, <1>4, <1>5

-----------------------------------------------------------------------------
(* OpenAI's calls                                                            *)

(* Which calls an event is of.                                               *)
LEMMA ChunkIsOf ==
  ASSUME NEW e, Reads(e), CallMove(e)
  PROVE  /\ \A i : IsOf(e, i) <=> IsCallChunk(e) /\ i \in DOMAIN e.delta
         /\ \A i : Makes(e, i) <=> IsOf(e, i)
         /\ IsCallChunk(e) => CallsOK(e.delta) /\ DOMAIN e.delta # {}
<1>1. DOMAIN NoDelta = {}
  BY DEF NoDelta
<1>2. \A i : IsOf(e, i) <=> IsCallChunk(e) /\ i \in DOMAIN e.delta
  BY <1>1 DEF CallMove, IsOf, IsCallChunk
<1>3. \A i : Makes(e, i) <=> IsOf(e, i)
  BY DEF CallMove, IsOf, Makes
<1>4. IsCallChunk(e) => CallsOK(e.delta) /\ DOMAIN e.delta # {}
  BY DEF Reads, Fits, IsCallChunk
<1> QED BY <1>2, <1>3, <1>4

(* The calls that are known after the event.                                 *)
LEMMA TouchedAfter ==
  ASSUME NEW e, Reads(e), CallMove(e), OpenAIInv
  PROVE  /\ Touched' = Touched \cup {i \in 1..MaxBlocks : IsOf(e, i)}
         /\ Touched' = (1..source.blocks)' /\ Touched = 1..source.blocks
         /\ Touched \subseteq 1..MaxBlocks
         /\ \A i \in 1..MaxBlocks : \A kind \in {"start", "delta", "stop"} : ~HasKind(i, kind)'
<1>1. ASSUME NEW i \in 1..MaxBlocks
      PROVE  EventsOf(i)' # {} <=> EventsOf(i) # {} \/ IsOf(e, i)
  BY CallGrows DEF Reads, IInv
<1>2. Touched' = Touched \cup {i \in 1..MaxBlocks : IsOf(e, i)}
  BY <1>1 DEF Touched
<1>3. Touched = 1..source.blocks /\ Touched \subseteq 1..MaxBlocks
  BY DEF OpenAIInv, Touched
<1>4. Touched' = (1..source.blocks)'
  <2>1. {i \in 1..MaxBlocks : IsOf(e, i)} = IF IsCallChunk(e) THEN DOMAIN e.delta ELSE {}
    BY ChunkIsOf DEF CallsOK
  <2> QED BY <1>2, <1>3, <2>1 DEF CallMove
<1>5. ASSUME NEW i \in 1..MaxBlocks, NEW kind \in {"start", "delta", "stop"}
      PROVE  ~HasKind(i, kind)'
  <2>1. HasKind(i, kind)' <=> HasKind(i, kind) \/ (IsOf(e, i) /\ e.kind = kind)
    BY KindsGrow DEF Reads, IInv
  <2> QED BY <2>1 DEF OpenAIInv, CallMove
<1> QED BY <1>2, <1>3, <1>4, <1>5

(* Calls that come in one piece did so before, and nothing interrupted them. *)
LEMMA InOnePiece ==
  ASSUME NEW e, Reads(e)
  PROVE  /\ Contiguous' => Contiguous
         /\ Contiguous' /\ IsCallChunk(e) => ~Interrupted
         /\ Interrupted => Interrupted'
<1>1. PICK N, s : N = Len(sent) /\ s = sent'
  OBVIOUS
<1>2. /\ N \in Nat /\ DOMAIN sent = 1..N /\ DOMAIN s = 1..(N + 1) /\ s[N + 1] = e
      /\ \A n \in 1..N : s[n] = sent[n]
  BY <1>1, SentIsLonger DEF Reads, IInv
<1>3. /\ Contiguous' <=>
           \A m, n \in 1..(N + 1) : \A k \in m..n :
             IsCallChunk(s[m]) /\ IsCallChunk(s[n]) => (IsCallChunk(s[k]) \/ s[k] \in {Comment, Bare})
      /\ Contiguous <=>
           \A m, n \in 1..N : \A k \in m..n :
             IsCallChunk(sent[m]) /\ IsCallChunk(sent[n]) => (IsCallChunk(sent[k]) \/ sent[k] \in {Comment, Bare})
  BY <1>1, <1>2 DEF Contiguous, IsCallChunk, NoDelta, Comment, Bare
<1>4. /\ Interrupted <=>
           \E m, k \in 1..N : m < k /\ IsCallChunk(sent[m]) /\ ~IsCallChunk(sent[k]) /\ sent[k] \notin {Comment, Bare}
      /\ Interrupted' <=>
           \E m, k \in 1..(N + 1) : m < k /\ IsCallChunk(s[m]) /\ ~IsCallChunk(s[k]) /\ s[k] \notin {Comment, Bare}
  BY <1>1, <1>2 DEF Interrupted, IsCallChunk, NoDelta, Comment, Bare
<1>5. Contiguous' => Contiguous
  BY <1>2, <1>3
<1>6. Interrupted => Interrupted'
  BY <1>2, <1>4
<1>7. ASSUME Contiguous', IsCallChunk(e), Interrupted PROVE FALSE
  <2>1. PICK m, k \in 1..N : m < k /\ IsCallChunk(sent[m]) /\ ~IsCallChunk(sent[k]) /\ sent[k] \notin {Comment, Bare}
    BY <1>4, <1>7
  <2>2. m \in 1..(N + 1) /\ N + 1 \in 1..(N + 1) /\ k \in m..(N + 1)
    BY <1>2, <2>1
  <2>3. IsCallChunk(s[m]) /\ IsCallChunk(s[N + 1]) /\ ~IsCallChunk(s[k]) /\ s[k] \notin {Comment, Bare}
    BY <1>2, <1>7, <2>1
  <2> QED BY <1>3, <1>7, <2>2, <2>3
<1> QED BY <1>5, <1>6, <1>7

(* Something else after a call interrupts the calls.                         *)
LEMMA OtherInterrupts ==
  ASSUME NEW e, Reads(e), OpenAIInv, ~IsCallChunk(e), e \notin {Comment, Bare}, Touched # {}
  PROVE  Interrupted'
<1>1. PICK N, s : N = Len(sent) /\ s = sent'
  OBVIOUS
<1>2. /\ N \in Nat /\ DOMAIN sent = 1..N /\ DOMAIN s = 1..(N + 1) /\ s[N + 1] = e
      /\ \A n \in 1..N : s[n] = sent[n]
  BY <1>1, SentIsLonger DEF Reads, IInv
<1>3. PICK i \in 1..MaxBlocks : EventsOf(i) # {}
  BY DEF Touched
<1>4. PICK m \in EventsOf(i) : TRUE
  BY <1>3
<1>5. m \in 1..N /\ BelongsTo(m, i)
  BY <1>2, <1>4 DEF EventsOf
<1>6. sent[m].kind \notin {"start", "delta", "stop"}
  BY <1>4 DEF OpenAIInv, HasKind
<1>7. IsCallChunk(sent[m])
  BY <1>5, <1>6 DEF BelongsTo, IsCallChunk, NoDelta
<1>8. m \in 1..(N + 1) /\ N + 1 \in 1..(N + 1) /\ m < N + 1
  BY <1>2, <1>5
<1>9. IsCallChunk(s[m]) /\ ~IsCallChunk(s[N + 1]) /\ s[N + 1] \notin {Comment, Bare}
  BY <1>2, <1>5, <1>7
<1> QED BY <1>1, <1>2, <1>8, <1>9 DEF Interrupted, IsCallChunk, NoDelta, Comment, Bare

(* Before a chunk of calls that come in one piece, nothing is decided.       *)
LEMMA NothingDecided ==
  ASSUME NEW e, Reads(e), CallMove(e), provider = "openai", OpenAIInv, Contiguous', IsCallChunk(e)
  PROVE  DOMAIN calls = Touched /\ \A i \in Touched : InTheMaking(i)
<1>1. Contiguous /\ ~Interrupted
  BY InOnePiece
<1>2. ~source.done /\ pc = "streaming"
  BY DEF CallMove, Reads
<1>3. Undecided \/ AllRuled
  BY <1>1, <1>2 DEF OpenAIInv
<1>4. CASE Undecided
  BY <1>4 DEF Undecided
<1>5. CASE AllRuled
  <2>1. calls = NoCalls /\ Touched = {}
    BY <1>1, <1>2, <1>5 DEF AllRuled
  <2> QED BY <2>1 DEF NoCalls
<1> QED BY <1>3, <1>4, <1>5

(* The chunk makes the calls the whole of what was sent of them.             *)
LEMMA AbsorbedAreWhole ==
  ASSUME NEW e, Reads(e), CallMove(e), provider = "openai", OpenAIInv, Contiguous', IsCallChunk(e),
         NEW a, a = absorbOpenAIChunk(calls, e.delta)
  PROVE  /\ DOMAIN a = Touched' /\ DOMAIN a # {}
         /\ \A i \in DOMAIN a : i \in 1..MaxBlocks /\ a[i] = WholeCall(i)'
         /\ \A i \in DOMAIN a : ~Refused(i) /\ (HeldOf(i) \/ IsOf(e, i))
<1> PICK d : d = e.delta
  OBVIOUS
<1>1. DOMAIN calls = Touched /\ \A i \in Touched : InTheMaking(i)
  BY NothingDecided
<1>2. /\ Touched' = Touched \cup {i \in 1..MaxBlocks : IsOf(e, i)}
      /\ Touched = 1..source.blocks /\ Touched \subseteq 1..MaxBlocks
  BY TouchedAfter
<1>3. /\ \A i : IsOf(e, i) <=> i \in DOMAIN d
      /\ CallsOK(d) /\ DOMAIN d # {} /\ DOMAIN d \subseteq 1..MaxBlocks
  BY ChunkIsOf DEF CallsOK
<1>4. DOMAIN a = (DOMAIN calls) \cup (DOMAIN d)
  BY DEF absorbOpenAIChunk
<1>5. DOMAIN a = Touched' /\ DOMAIN a # {} /\ DOMAIN a \subseteq 1..MaxBlocks
  BY <1>1, <1>2, <1>3, <1>4
<1>6. \A i \in DOMAIN d : d[i].name = "" <=> i \in Touched
  BY <1>2 DEF CallMove
<1>7. \A i \in DOMAIN d : Names(e, i) = d[i].name /\ Gives(e, i) = d[i].args
  BY <1>3 DEF Names, Gives, IsCallChunk
<1>8. \A i \in 1..MaxBlocks : EventsOf(i) # {} <=> i \in Touched
  BY DEF Touched
<1>9. ASSUME NEW i \in DOMAIN a PROVE a[i] = WholeCall(i)'
  <2>1. i \in 1..MaxBlocks
    BY <1>5
  <2>2. CASE i \notin DOMAIN d
    <3>1. i \in DOMAIN calls /\ i \in Touched
      BY <1>1, <1>4, <2>2
    <3>2. a[i] = calls[i]
      BY <1>4, <2>2, <3>1 DEF absorbOpenAIChunk
    <3>3. calls[i] = WholeCall(i)
      BY <1>1, <3>1 DEF InTheMaking
    <3>4. WholeCall(i)' = WholeCall(i)
      BY <1>3, <1>8, <2>1, <2>2, <3>1, CallAfter DEF Reads, IInv, CallInv
    <3> QED BY <3>2, <3>3, <3>4
  <2>3. CASE i \in DOMAIN d /\ i \in Touched
    <3>1. a[i] = [name |-> calls[i].name, args |-> calls[i].args \o d[i].args]
      BY <1>1, <1>4, <1>6, <2>3 DEF absorbOpenAIChunk
    <3>2. calls[i] = WholeCall(i)
      BY <1>1, <2>3 DEF InTheMaking
    <3>3. WholeCall(i)' = [name |-> WholeCall(i).name, args |-> WholeCall(i).args \o Gives(e, i)]
      BY <1>3, <1>8, <2>1, <2>3, CallAfter DEF Reads, IInv, CallInv
    <3> QED BY <1>7, <2>3, <3>1, <3>2, <3>3
  <2>4. CASE i \in DOMAIN d /\ i \notin Touched
    <3>1. a[i] = [name |-> d[i].name, args |-> <<>> \o d[i].args]
      BY <1>1, <1>4, <1>6, <2>4 DEF absorbOpenAIChunk, NewCall
    <3>2. <<>> \o d[i].args = d[i].args
      <4>1. d[i].args \in Seq(Pieces)
        BY <1>3, <2>4 DEF CallsOK
      <4> QED BY <4>1
    <3>3. WholeCall(i)' = [name |-> Names(e, i), args |-> Gives(e, i)]
      BY <1>3, <1>8, <2>1, <2>4, CallAfter DEF Reads, IInv, CallInv
    <3> QED BY <1>7, <2>4, <3>1, <3>2, <3>3
  <2> QED BY <2>2, <2>3, <2>4
<1>10. ASSUME NEW i \in DOMAIN a PROVE ~Refused(i) /\ (HeldOf(i) \/ IsOf(e, i))
  <2>1. CASE i \in Touched
    BY <1>1, <2>1 DEF InTheMaking
  <2>2. CASE i \notin Touched
    <3>1. i \in DOMAIN d
      BY <1>1, <1>4, <2>2
    <3>2. EventsOf(i) = {}
      BY <1>3, <1>8, <2>2, <3>1
    <3> QED BY <1>3, <3>1, <3>2 DEF Refused
  <2> QED BY <2>1, <2>2
<1> QED BY <1>5, <1>9, <1>10

(* A call stays as it is when an event of no call goes by.                   *)
LEMMA CallsUnchanged ==
  ASSUME NEW e, Reads(e), CallMove(e), provider = "openai", OpenAIInv, ~IsCallChunk(e)
  PROVE  /\ Touched' = Touched
         /\ \A i \in Touched : /\ i \in 1..MaxBlocks /\ ~IsOf(e, i)
                               /\ WholeCall(i)' = WholeCall(i)
                               /\ DeniedCall(i)' <=> DeniedCall(i)
<1>1. \A i : ~IsOf(e, i)
  BY ChunkIsOf
<1>2. Touched' = Touched /\ Touched \subseteq 1..MaxBlocks
  BY <1>1, TouchedAfter
<1>3. ASSUME NEW i \in Touched
      PROVE  WholeCall(i)' = WholeCall(i) /\ (DeniedCall(i)' <=> DeniedCall(i))
  <2>1. i \in 1..MaxBlocks /\ EventsOf(i) # {}
    BY DEF Touched
  <2>2. WholeCall(i)' = WholeCall(i)
    BY <1>1, <2>1, CallAfter DEF Reads, IInv, CallInv
  <2> QED BY <2>2, DeniedAfter DEF Reads
<1> QED BY <1>1, <1>2, <1>3

(* A comment leaves the calls as they are, and so does what has no data.     *)
LEMMA CallsLeft ==
  ASSUME NEW e, Reads(e), CallMove(e), provider = "openai", OpenAIInv, Contiguous',
         (e = Comment /\ WriteThrough) \/ (e = Bare /\ UNCHANGED gate)
  PROVE  Undecided' \/ AllRuled'
<1>1. ~IsCallChunk(e) /\ source'.done = source.done
  <2>1. e.kind = "comment" \/ e.kind = "bare"
    BY DEF Comment, Bare
  <2> QED BY <2>1 DEF IsCallChunk, CallMove
<1>2. /\ Touched' = Touched
      /\ \A i \in Touched : /\ i \in 1..MaxBlocks /\ WholeCall(i)' = WholeCall(i)
                            /\ DeniedCall(i)' <=> DeniedCall(i)
  BY <1>1, CallsUnchanged
<1>3. \A i \in Touched : (Refused(i)' <=> Refused(i)) /\ (HeldOf(i)' <=> HeldOf(i))
  BY <1>2, FateThrough, FateDropped DEF Reads
<1>4. calls' = calls /\ NoCalls' = NoCalls /\ provider' = provider
  BY DEF WriteThrough, gate, NoCalls, Reads
<1>5. Undecided \/ AllRuled
  BY InOnePiece DEF OpenAIInv, Reads
<1>6. CASE Undecided
  <2>1. \A i \in Touched : InTheMaking(i)'
    BY <1>2, <1>3, <1>4, <1>6 DEF Undecided, InTheMaking
  <2> QED BY <1>1, <1>2, <1>4, <1>6, <2>1 DEF Undecided
<1>7. CASE AllRuled
  <2>1. \A i \in Touched : Ruled(i)'
    BY <1>2, <1>3, <1>4, <1>7 DEF AllRuled, Ruled
  <2>2. Interrupted => Interrupted'
    BY InOnePiece
  <2> QED BY <1>1, <1>2, <1>4, <1>7, <2>1, <2>2 DEF AllRuled
<1> QED BY <1>5, <1>6, <1>7

(* A chunk of calls that are not complete is held.                           *)
LEMMA CallsHeld ==
  ASSUME NEW e, Reads(e), CallMove(e), provider = "openai", OpenAIInv, Contiguous',
         IsCallChunk(e), ~e.finish, calls' = absorbOpenAIChunk(calls, e.delta), Hold
  PROVE  Undecided'
<1> PICK a : a = absorbOpenAIChunk(calls, e.delta)
  OBVIOUS
<1>1. /\ DOMAIN a = Touched' /\ DOMAIN a # {}
      /\ \A i \in DOMAIN a : i \in 1..MaxBlocks /\ a[i] = WholeCall(i)'
      /\ \A i \in DOMAIN a : ~Refused(i) /\ (HeldOf(i) \/ IsOf(e, i))
  BY AbsorbedAreWhole
<1>2. ASSUME NEW i \in DOMAIN a PROVE InTheMaking(i)'
  <2>1. (Refused(i)' <=> Refused(i)) /\ (HeldOf(i)' <=> HeldOf(i) \/ IsOf(e, i))
    BY <1>1, FateHold DEF Reads
  <2> QED BY <1>1, <2>1 DEF InTheMaking
<1>3. a # NoCalls /\ NoCalls' = NoCalls
  BY <1>1 DEF NoCalls
<1>4. ~source'.done
  BY DEF CallMove
<1> QED BY <1>1, <1>2, <1>3, <1>4 DEF Undecided

(* The calls, complete and whole, are decided.                               *)
LEMMA DecidedWhole ==
  ASSUME NEW e, Reads(e), provider = "openai", NEW cs, DOMAIN cs = Touched',
         \A i \in DOMAIN cs : i \in 1..MaxBlocks /\ cs[i] = WholeCall(i)',
         \A i \in DOMAIN cs : ~Refused(i) /\ (HeldOf(i) \/ IsOf(e, i)),
         held' = <<>>,
         \/ out' = out \o Decided(cs, Append(held, This))
         \/ (\A i : ~IsOf(e, i)) /\ out' = Append(out \o Decided(cs, held), Written(This))
  PROVE  \A i \in Touched' : Ruled(i)'
<1>1. ASSUME NEW i \in DOMAIN cs PROVE DeniedCall(i)' <=> Denied(cs[i])
  <2>1. PICK c : c = cs[i]
    OBVIOUS
  <2>2. DeniedCall(i)' <=> Denied(c)
    BY <2>1, DeniedAfter DEF Reads
  <2> QED BY <2>1, <2>2
<1>2. Some(cs) <=> \E i \in DOMAIN cs : DeniedCall(i)'
  BY <1>1 DEF Some
<1>3. ASSUME NEW i \in DOMAIN cs PROVE Ruled(i)'
  <2>1. i \in 1..MaxBlocks
    OBVIOUS
  <2>2. /\ ~HeldOf(i)'
        /\ Some(cs) => (Refused(i)' <=> Refused(i) \/ HeldOf(i) \/ IsOf(e, i))
        /\ ~Some(cs) => (Refused(i)' <=> Refused(i))
    BY <2>1, FateSettled DEF Reads
  <2>3. Refused(i)' <=> Some(cs)
    BY <2>2
  <2>4. provider' = "openai"
    BY DEF Reads
  <2> QED BY <1>2, <2>2, <2>3, <2>4 DEF Ruled
<1> QED BY <1>3

(* A chunk of calls that are complete decides them.                          *)
LEMMA CallsFinish ==
  ASSUME NEW e, Reads(e), CallMove(e), provider = "openai", OpenAIInv, Contiguous',
         IsCallChunk(e), e.finish, Clear,
         out' = out \o Decided(absorbOpenAIChunk(calls, e.delta), Append(held, This))
  PROVE  AllRuled'
<1> PICK a : a = absorbOpenAIChunk(calls, e.delta)
  OBVIOUS
<1>1. /\ DOMAIN a = Touched'
      /\ \A i \in DOMAIN a : i \in 1..MaxBlocks /\ a[i] = WholeCall(i)'
      /\ \A i \in DOMAIN a : ~Refused(i) /\ (HeldOf(i) \/ IsOf(e, i))
  BY AbsorbedAreWhole
<1>2. \A i \in Touched' : Ruled(i)'
  BY <1>1, DecidedWhole DEF Clear
<1>3. calls' = NoCalls' /\ source'.done
  BY DEF Clear, NoCalls, CallMove
<1> QED BY <1>2, <1>3 DEF AllRuled

(* Text, or the finish alone, decides them too.                              *)
LEMMA CallsInterrupted ==
  ASSUME NEW e, Reads(e), CallMove(e), provider = "openai", OpenAIInv, Contiguous',
         ~IsCallChunk(e), e \notin {Comment, Bare}, Clear,
         out' = Append(out \o Decided(calls, held), Written(This))
  PROVE  AllRuled'
<1>1. /\ Touched' = Touched
      /\ \A i \in Touched : /\ i \in 1..MaxBlocks /\ ~IsOf(e, i)
                            /\ WholeCall(i)' = WholeCall(i)
                            /\ DeniedCall(i)' <=> DeniedCall(i)
  BY CallsUnchanged
<1>2. \A i : ~IsOf(e, i)
  BY ChunkIsOf
<1>3. Undecided \/ AllRuled
  BY InOnePiece DEF OpenAIInv, Reads
<1>4. \A i \in Touched : Ruled(i)'
  <2>1. CASE Undecided
    <3>1. DOMAIN calls = Touched' /\ \A i \in Touched : InTheMaking(i)
      BY <1>1, <2>1 DEF Undecided
    <3>2. \A i \in DOMAIN calls : i \in 1..MaxBlocks /\ calls[i] = WholeCall(i)'
      BY <1>1, <3>1 DEF InTheMaking
    <3>3. \A i \in DOMAIN calls : ~Refused(i) /\ (HeldOf(i) \/ IsOf(e, i))
      BY <1>1, <3>1 DEF InTheMaking
    <3> QED BY <1>1, <1>2, <3>1, <3>2, <3>3, DecidedWhole DEF Clear
  <2>2. CASE AllRuled
    <3>1. ~Some(calls)
      BY <2>2 DEF AllRuled, Some, NoCalls
    <3>2. ASSUME NEW i \in Touched PROVE Ruled(i)'
      <4>1. i \in 1..MaxBlocks /\ Ruled(i) /\ held' = <<>>
        BY <1>1, <2>2 DEF AllRuled, Clear
      <4>2. ~HeldOf(i)' /\ (Refused(i)' <=> Refused(i))
        BY <1>2, <3>1, <4>1, FateSettled DEF Reads
      <4>3. provider' = provider
        BY DEF Reads
      <4> QED BY <1>1, <4>1, <4>2, <4>3 DEF Ruled
    <3> QED BY <3>2
  <2> QED BY <1>3, <2>1, <2>2
<1>5. Touched # {} => Interrupted'
  BY OtherInterrupts
<1>6. calls' = NoCalls'
  BY DEF Clear, NoCalls
<1> QED BY <1>1, <1>4, <1>5, <1>6 DEF AllRuled

(* Whatever the loop does with a chunk.                                      *)
LEMMA CallsStay ==
  ASSUME NEW e, Reads(e), CallMove(e), provider = "openai", Handle(e)
  PROVE  OpenAIInv' /\ TakenInv'
<1>1. OpenAIInv /\ TakenInv /\ IInv /\ ShapeInv' /\ Gated /\ sent' = Append(sent, e)
  BY DEF Reads, CallInv
<1>2. Gated' /\ (Gated' <=> Gated)
  BY StillGated
<1>3. PICK N : N = Len(sent)
  OBVIOUS
<1>4. IsCallChunk(e) => Takes(N + 1)'
  <2>1. ASSUME IsCallChunk(e) PROVE Takes(N + 1)'
    <3>1. CallsOK(e.delta) /\ DOMAIN e.delta # {}
      BY <2>1, ChunkIsOf
    <3>2. PICK i \in 1..MaxBlocks : i \in DOMAIN e.delta
      BY <3>1 DEF CallsOK
    <3>3. IsOf(e, i) /\ Makes(e, i)
      BY <2>1, <3>2, ChunkIsOf
    <3>4. IsToolCall(i)'
      BY <1>1, <3>3, CallGrows DEF IInv
    <3> QED BY <1>1, <1>3, <3>3, <3>4, TakesAfter DEF IInv
  <2> QED BY <2>1
<1>5. CASE e = Comment /\ WriteThrough
  <2>1. TakenInv'
    BY <1>1, <1>2, <1>5, TakenThrough
  <2>2. Contiguous' => Undecided' \/ AllRuled'
    BY <1>1, <1>5, CallsLeft
  <2> QED BY <1>1, <2>1, <2>2, TouchedAfter DEF OpenAIInv, CallMove
<1>6. CASE e = Bare /\ UNCHANGED gate
  <2>1. TakenInv'
    BY <1>1, <1>2, <1>6, TakenDropped
  <2>2. Contiguous' => Undecided' \/ AllRuled'
    BY <1>1, <1>6, CallsLeft
  <2> QED BY <1>1, <2>1, <2>2, TouchedAfter DEF OpenAIInv, CallMove
<1>7. CASE IsCallChunk(e) /\ ~e.finish /\ calls' = absorbOpenAIChunk(calls, e.delta) /\ Hold
  <2>1. TakenInv'
    BY <1>1, <1>2, <1>3, <1>4, <1>7, TakenHold
  <2>2. Contiguous' => Undecided' \/ AllRuled'
    BY <1>1, <1>7, CallsHeld
  <2> QED BY <1>1, <2>1, <2>2, TouchedAfter DEF OpenAIInv, CallMove
<1>8. CASE /\ IsCallChunk(e) /\ e.finish /\ Clear
           /\ out' = out \o Decided(absorbOpenAIChunk(calls, e.delta), Append(held, This))
  <2>1. TakenInv'
    BY <1>1, <1>2, <1>3, <1>4, <1>8, TakenSettled DEF Clear
  <2>2. Contiguous' => Undecided' \/ AllRuled'
    BY <1>1, <1>8, CallsFinish
  <2> QED BY <1>1, <2>1, <2>2, TouchedAfter DEF OpenAIInv, CallMove
<1>9. CASE /\ ~IsCallChunk(e) /\ e \notin {Comment, Bare} /\ Clear
           /\ out' = Append(out \o Decided(calls, held), Written(This))
  <2>1. TakenInv'
    BY <1>1, <1>2, <1>9, TakenSettled DEF Clear
  <2>2. Contiguous' => Undecided' \/ AllRuled'
    BY <1>1, <1>9, CallsInterrupted
  <2> QED BY <1>1, <2>1, <2>2, TouchedAfter DEF OpenAIInv, CallMove
<1>10. CASE e \in {Comment, Bare}
  BY <1>1, <1>5, <1>6, <1>10 DEF Handle
<1>11. CASE e \notin {Comment, Bare}
  <2>1. runOpenAI(e)
    BY <1>1, <1>11 DEF Handle, Gated
  <2> QED BY <1>7, <1>8, <1>9, <1>11, <2>1 DEF runOpenAI
<1> QED BY <1>10, <1>11

-----------------------------------------------------------------------------
(* The calls' invariant                                                      *)

(* It lasts when the upstream sends an event.                                *)
LEMMA SendsKeepsCalls == IInv /\ IInv' /\ CallInv /\ Sends => CallInv'
<1> SUFFICES ASSUME IInv, IInv', CallInv, Sends PROVE CallInv'
  OBVIOUS
<1>1. PICK e : /\ Fits(e) /\ Handle(e)
               /\ provider = "anthropic" => BlockMove(e)
               /\ provider = "openai" => CallMove(e)
  BY DEF Sends
<1>2. /\ provider' = provider /\ policy' = policy /\ sent' = Append(sent, e)
      /\ pc = "streaming" /\ pc' = "streaming" /\ ShapeInv' /\ ShapeInv /\ PartsInv
  BY <1>1 DEF Handle, IInv, CallInv
<1>3. PartsInv'
  BY <1>1, <1>2, PartsAfter
<1>4. Gated' <=> Gated
  BY <1>2 DEF Gated
<1>5. CASE ~Gated
  <2>1. WriteThrough
    BY <1>1, <1>5 DEF Handle, Gated
  <2>2. TakenInv'
    BY <1>2, <1>4, <2>1, TakenThrough DEF CallInv
  <2> QED BY <1>3, <1>4, <1>5, <2>2 DEF CallInv
<1>6. CASE Gated
  <2>1. Reads(e)
    BY <1>1, <1>2, <1>6 DEF Reads
  <2>2. CASE provider = "anthropic"
    <3>1. AnthropicInv' /\ TakenInv'
      BY <1>1, <2>1, <2>2, BlocksStay
    <3> QED BY <1>2, <1>3, <2>2, <3>1 DEF CallInv
  <2>3. CASE provider = "openai"
    <3>1. OpenAIInv' /\ TakenInv'
      BY <1>1, <2>1, <2>3, CallsStay
    <3> QED BY <1>2, <1>3, <2>3, <3>1 DEF CallInv
  <2>4. provider \in {"anthropic", "openai"}
    BY <1>6, StreamAssumption DEF IInv, ShapeInv, Gated
  <2> QED BY <2>2, <2>3, <2>4
<1> QED BY <1>5, <1>6

(* What a call is does not depend on the gate.                               *)
LEMMA SameCalls ==
  ASSUME ShapeInv, ShapeInv', UNCHANGED <<provider, policy, source, sent>>
  PROVE  /\ Gated' <=> Gated
         /\ PartsInv' <=> PartsInv
         /\ Touched' = Touched /\ (Contiguous' <=> Contiguous) /\ (Interrupted' <=> Interrupted)
         /\ \A n : Takes(n)' <=> Takes(n)
         /\ \A i \in 1..MaxBlocks :
              /\ EventsOf(i)' = EventsOf(i) /\ (IsToolCall(i)' <=> IsToolCall(i))
              /\ WholeCall(i)' = WholeCall(i) /\ (DeniedCall(i)' <=> DeniedCall(i))
              /\ \A kind : HasKind(i, kind)' <=> HasKind(i, kind)
<1>1. \A i : EventsOf(i)' = EventsOf(i) /\ (IsToolCall(i)' <=> IsToolCall(i))
  BY DEF EventsOf, BelongsTo, IsToolCall
<1>2. ASSUME NEW i \in 1..MaxBlocks PROVE WholeCall(i)' = WholeCall(i) /\ ArgsOf(i)' = ArgsOf(i)
  <2>1. NameOf(i)' = NameOf(i)
    <3>1. NameOf(i) = Names(sent[Least(EventsOf(i))], i)
      BY Zenon DEF NameOf, Names, Least
    <3>2. NameOf(i)' = Names(sent'[Least(EventsOf(i)')], i)
      BY Zenon DEF NameOf, Names, Least
    <3> QED BY <1>1, <3>1, <3>2
  <2>2. PICK N \in Nat : N = Len(sent)
    BY LenProperties DEF ShapeInv
  <2>3. PICK f, g :
          /\ Joined(f, g, N)
          /\ g = [n \in 1..N |-> Gives(sent[n], i)]
          /\ ArgsOf(i) = f[N]
    BY <2>2, ArgsAreJoined DEF ArgsJoined
  <2>4. ArgsJoined'
    BY ArgsAreJoined, PTL
  <2>5. PICK h, k :
          /\ Joined(h, k, N)
          /\ k = [n \in 1..N |-> Gives(sent[n], i)]
          /\ ArgsOf(i)' = h[N]
    <3>1. \E h, k :
            /\ Joined(h, k, Len(sent'))
            /\ k = [n \in 1..Len(sent') |-> Gives(sent'[n], i)]
            /\ ArgsOf(i)' = h[Len(sent')]
      BY <2>4, Zenon DEF ArgsJoined, Joined, Gives, IsOf
    <3> QED BY <2>2, <3>1
  <2>6. Alike(g, k, N)
    BY <2>3, <2>5 DEF Alike
  <2>7. Joined(f, g, N) /\ Joined(h, k, N)
    BY <2>3, <2>5
  <2>8. f[N] = h[N]
    BY <2>2, <2>6, <2>7, JoinAgree
  <2> QED BY <2>1, <2>3, <2>5, <2>8 DEF WholeCall
<1>3. \A i \in 1..MaxBlocks : DeniedCall(i)' <=> DeniedCall(i)
  BY <1>2, DeniedAfter
<1>4. \A i, kind : HasKind(i, kind)' <=> HasKind(i, kind)
  BY <1>1 DEF HasKind
<1>5. \A n : Takes(n)' <=> Takes(n)
  BY <1>1 DEF Takes, BelongsTo, Other
<1>6. Gated' <=> Gated
  BY DEF Gated
<1>7. Touched' = Touched
  BY <1>1 DEF Touched
<1>8. PartsInv' <=> PartsInv
  BY <1>1, <1>2 DEF PartsInv
<1>9. (Contiguous' <=> Contiguous) /\ (Interrupted' <=> Interrupted)
  BY DEF Contiguous, Interrupted, IsComment, IsCallChunk, NoDelta, Comment
<1> QED BY <1>1, <1>2, <1>3, <1>4, <1>5, <1>6, <1>7, <1>8, <1>9

(* The end of a stream writes what is held: nothing of it is refused.        *)
LEMMA EndKeepsCalls == IInv /\ IInv' /\ CallInv /\ End => CallInv'
<1> SUFFICES ASSUME IInv, IInv', CallInv, End PROVE CallInv'
  OBVIOUS
<1>1. /\ out' = out \o AsTheyCame(held) /\ held' = <<>> /\ calls' = NoCalls
      /\ pc = "streaming" /\ pc' = "closed"
      /\ UNCHANGED <<provider, policy, source, sent>>
  BY DEF End, AtEnd, Clear
<1>2. PICK N : N = Len(sent)
  OBVIOUS
<1>3. /\ N \in Nat /\ out \in Seq(Outputs(N)) /\ held \in Seq(1..N) /\ DOMAIN sent = 1..N
      /\ Range(held) \subseteq 1..N
  BY <1>2, KnownEvents, LenProperties DEF IInv, ShapeInv
<1>4. Range(out') = Range(out) \cup {Written(n) : n \in Range(held)}
  <2>1. /\ AsTheyCame(held) \in Seq(Outputs(N))
        /\ Range(AsTheyCame(held)) = {Written(n) : n \in Range(held)}
    BY <1>3, WrittenOf
  <2> QED BY <1>1, <1>3, <2>1, RangeConcatenation
<1>5. /\ Gated' <=> Gated
      /\ PartsInv' <=> PartsInv
      /\ Touched' = Touched /\ (Contiguous' <=> Contiguous) /\ (Interrupted' <=> Interrupted)
      /\ \A n : Takes(n)' <=> Takes(n)
      /\ \A i \in 1..MaxBlocks :
           /\ EventsOf(i)' = EventsOf(i) /\ (IsToolCall(i)' <=> IsToolCall(i))
           /\ WholeCall(i)' = WholeCall(i) /\ (DeniedCall(i)' <=> DeniedCall(i))
           /\ \A kind : HasKind(i, kind)' <=> HasKind(i, kind)
  BY <1>1, SameCalls DEF IInv
<1>6. TakenInv'
  <2>1. ASSUME NEW x \in Range(out) PROVE Passed(x)' /\ TakesOnlyCalls(x)'
    <3>1. Passed(x) /\ TakesOnlyCalls(x)
      BY DEF CallInv, TakenInv
    <3>2. Passed(x)'
      BY <1>1, <3>1 DEF Passed, Written
    <3>3. TakesOnlyCalls(x)'
      BY <1>5, <3>1 DEF TakesOnlyCalls
    <3> QED BY <3>2, <3>3
  <2>2. ASSUME NEW n \in Range(held) PROVE Passed(Written(n))' /\ TakesOnlyCalls(Written(n))'
    <3>1. n \in DOMAIN sent' /\ ~Written(n).refused
      BY <1>1, <1>3 DEF Written
    <3>2. Passed(Written(n))'
      BY <3>1 DEF Passed
    <3>3. TakesOnlyCalls(Written(n))'
      BY <3>1 DEF TakesOnlyCalls, Written
    <3> QED BY <3>2, <3>3
  <2>3. Range(held') = {}
    BY <1>1 DEF Range
  <2>4. \A x \in Range(out') : Passed(x)' /\ TakesOnlyCalls(x)'
    BY <1>4, <2>1, <2>2 DEF Written
  <2> QED BY <2>3, <2>4 DEF TakenInv
<1>7. ASSUME NEW i \in 1..MaxBlocks PROVE (Refused(i)' <=> Refused(i)) /\ ~HeldOf(i)'
  <2>1. ~HeldOf(i)'
    BY <1>1 DEF HeldOf, Range
  <2>2. PICK X : X = EventsOf(i) /\ X = EventsOf(i)'
    BY <1>5
  <2>3. /\ Refused(i) <=> \E x \in Range(out) : x.refused /\ x.ids \cap X # {}
        /\ Refused(i)' <=> \E x \in Range(out') : x.refused /\ x.ids \cap X # {}
    BY <2>2 DEF Refused
  <2>4. \A x \in {Written(n) : n \in Range(held)} : ~x.refused
    BY DEF Written
  <2> QED BY <1>4, <2>1, <2>3, <2>4
<1>8. ASSUME NEW i \in 1..MaxBlocks, Ruled(i) PROVE Ruled(i)'
  <2>1. \A j \in Touched : DeniedCall(j)' <=> DeniedCall(j)
    BY <1>5 DEF Touched
  <2> QED BY <1>1, <1>5, <1>7, <1>8, <2>1 DEF Ruled
<1>9. CASE Gated /\ provider = "anthropic"
  <2>1. ASSUME NEW i \in 1..MaxBlocks PROVE BlockInv(i)'
    <3>1. BlockInv(i)
      BY <1>9 DEF CallInv, AnthropicInv
    <3> QED BY <1>1, <1>5, <1>8, <3>1 DEF BlockInv
  <2> QED BY <1>1, <1>5, <1>6, <1>9, <2>1 DEF CallInv, AnthropicInv
<1>10. CASE Gated /\ provider = "openai"
  <2>1. OpenAIInv
    BY <1>10 DEF CallInv
  <2>2. ASSUME Contiguous', source'.done PROVE AllRuled'
    <3>1. AllRuled
      BY <1>1, <1>5, <2>1, <2>2 DEF OpenAIInv, Undecided
    <3>2. \A i \in Touched : i \in 1..MaxBlocks /\ Ruled(i)'
      BY <1>8, <3>1 DEF AllRuled, Touched
    <3> QED BY <1>1, <1>5, <2>2, <3>2 DEF AllRuled, NoCalls
  <2>3. OpenAIInv'
    BY <1>1, <1>5, <2>1, <2>2 DEF OpenAIInv
  <2> QED BY <1>1, <1>5, <1>6, <1>10, <2>3 DEF CallInv
<1>11. ~(provider' = "anthropic" /\ provider' = "openai") /\ provider' = provider
  BY <1>1
<1> QED BY <1>5, <1>6, <1>9, <1>10, <1>11 DEF CallInv

(* A failed stream leaves the calls as they are.                             *)
LEMMA FailKeepsCalls == IInv /\ IInv' /\ CallInv /\ (Fail \/ UNCHANGED vars) => CallInv'
<1> SUFFICES ASSUME IInv, IInv', CallInv, Fail \/ UNCHANGED vars PROVE CallInv'
  OBVIOUS
<1>1. /\ out' = out /\ held' = held /\ calls' = calls
      /\ UNCHANGED <<provider, policy, source, sent>>
      /\ pc' # "closed" <=> pc # "closed"
  BY DEF Fail, vars, gate
<1>2. /\ Gated' <=> Gated
      /\ PartsInv' <=> PartsInv
      /\ Touched' = Touched /\ (Contiguous' <=> Contiguous) /\ (Interrupted' <=> Interrupted)
      /\ \A n : Takes(n)' <=> Takes(n)
      /\ \A i \in 1..MaxBlocks :
           /\ EventsOf(i)' = EventsOf(i) /\ (IsToolCall(i)' <=> IsToolCall(i))
           /\ WholeCall(i)' = WholeCall(i) /\ (DeniedCall(i)' <=> DeniedCall(i))
           /\ \A kind : HasKind(i, kind)' <=> HasKind(i, kind)
  BY <1>1, SameCalls DEF IInv
<1>3. NoCalls' = NoCalls /\ \A i \in Touched : i \in 1..MaxBlocks
  BY DEF NoCalls, Touched
<1>4. TakenInv'
  <2>1. ASSUME NEW x \in Range(out) PROVE Passed(x)' /\ TakesOnlyCalls(x)'
    <3>1. Passed(x) /\ TakesOnlyCalls(x)
      BY DEF CallInv, TakenInv
    <3>2. Passed(x)'
      BY <1>1, <3>1 DEF Passed, Written
    <3>3. TakesOnlyCalls(x)'
      BY <1>2, <3>1 DEF TakesOnlyCalls
    <3> QED BY <3>2, <3>3
  <2> QED BY <1>1, <1>2, <2>1 DEF CallInv, TakenInv
<1>5. \A i \in 1..MaxBlocks : (Refused(i)' <=> Refused(i)) /\ (HeldOf(i)' <=> HeldOf(i))
  BY <1>1, <1>2 DEF Refused, HeldOf
<1>6. \A i \in 1..MaxBlocks : (Ruled(i)' <=> Ruled(i)) /\ (InTheMaking(i)' <=> InTheMaking(i))
  BY <1>1, <1>2, <1>3, <1>5 DEF Ruled, InTheMaking
<1>7. \A i \in 1..MaxBlocks : BlockInv(i)' <=> BlockInv(i)
  BY <1>1, <1>2, <1>3, <1>6 DEF BlockInv
<1>8. AnthropicInv' <=> AnthropicInv
  BY <1>7 DEF AnthropicInv
<1>9. (Undecided' <=> Undecided) /\ (AllRuled' <=> AllRuled)
  BY <1>1, <1>2, <1>3, <1>6 DEF Undecided, AllRuled
<1>10. OpenAIInv' <=> OpenAIInv
  BY <1>1, <1>2, <1>9 DEF OpenAIInv
<1> QED BY <1>1, <1>2, <1>4, <1>8, <1>10 DEF CallInv

(* Nothing has been sent at first.                                           *)
LEMMA InitCalls == Init => CallInv
<1> SUFFICES ASSUME Init PROVE CallInv
  OBVIOUS
<1>1. /\ sent = <<>> /\ held = <<>> /\ out = <<>> /\ calls = NoCalls /\ DOMAIN sent = {}
      /\ Range(out) = {} /\ Range(held) = {}
      /\ source.open = 0 /\ source.blocks = 0
  BY DEF Init, Range
<1>2. ShapeInv
  BY InitIInv DEF IInv
<1>3. \A i \in 1..MaxBlocks : /\ EventsOf(i) = {} /\ ~IsToolCall(i)
                              /\ \A kind : ~HasKind(i, kind)
  BY <1>1 DEF EventsOf, IsToolCall, HasKind
<1>4. PartsInv
  <2> SUFFICES ASSUME NEW i \in 1..MaxBlocks PROVE ArgsOf(i) = <<>>
    BY SomePieces DEF PartsInv
  <2>1. Len(sent) = 0
    BY <1>1
  <2>2. PICK f, g : Joined(f, g, Len(sent)) /\ ArgsOf(i) = f[Len(sent)]
    BY <1>2, ArgsAreJoined DEF ArgsJoined
  <2> QED BY <2>1, <2>2 DEF Joined
<1>5. TakenInv
  BY <1>1 DEF TakenInv
<1>6. AnthropicInv
  <2> SUFFICES ASSUME NEW i \in 1..MaxBlocks PROVE BlockInv(i)
    BY DEF AnthropicInv
  <2>1. i # source.open
    BY <1>1
  <2> QED BY <1>3, <2>1 DEF BlockInv
<1>7. OpenAIInv
  <2>1. Touched = {} /\ 1..source.blocks = {}
    BY <1>1, <1>3 DEF Touched
  <2>2. AllRuled
    BY <1>1, <2>1 DEF AllRuled
  <2> QED BY <1>3, <2>1, <2>2 DEF OpenAIInv
<1> QED BY <1>4, <1>5, <1>6, <1>7 DEF CallInv

(* Every state of every stream satisfies the calls' invariant too.           *)
THEOREM CallsInvariant == Spec => [](IInv /\ CallInv)
<1>1. IInv /\ IInv' /\ CallInv /\ [Next]_vars => CallInv'
  BY UpstreamSends, SendsKeepsCalls, EndKeepsCalls, FailKeepsCalls DEF Next
<1> QED BY <1>1, InitCalls, InductiveInvariant, PTL DEF Spec

-----------------------------------------------------------------------------
(* What the client gets                                                      *)

(* An event is written or refused, not both.                                 *)
LEMMA RefusedIsNotDelivered ==
  ASSUME IInv, NEW i, Refused(i)
  PROVE  ~Delivered(i)
<1> SUFFICES ASSUME Delivered(i) PROVE FALSE
  OBVIOUS
<1>1. PICK k \in DOMAIN out, n \in EventsOf(i) : out[k].refused /\ n \in out[k].ids
  BY DEF Refused, Range
<1>2. PICK l \in DOMAIN out : out[l] = Written(n)
  BY <1>1 DEF Delivered
<1>3. ~out[l].refused /\ n \in out[l].ids
  BY <1>2 DEF Written
<1>4. /\ DOMAIN out \subseteq Nat /\ n \in Nat
      /\ \A a, b \in DOMAIN out : a < b =>
           \A m \in out[a].ids, o \in out[b].ids : m < o \/ m # o
  <2>1. DOMAIN out = 1..Len(out) /\ Len(out) \in Nat /\ DOMAIN sent = 1..Len(sent) /\ Len(sent) \in Nat
    BY LenProperties DEF IInv, ShapeInv, OrderInv, InOrder
  <2>2. DOMAIN out \subseteq Nat /\ n \in Nat
    BY <1>1, <2>1 DEF EventsOf
  <2> QED BY <2>2 DEF IInv, OrderInv, InOrder
<1>5. k # l
  BY <1>1, <1>3
<1>6. k < l \/ l < k
  BY <1>1, <1>2, <1>4, <1>5
<1> QED BY <1>1, <1>3, <1>4, <1>6

(* An event that is neither held nor refused is written.                     *)
LEMMA OtherwiseDelivered ==
  ASSUME IInv, CallInv, NEW i, ~Refused(i), ~HeldOf(i)
  PROVE  Delivered(i)
<1> SUFFICES ASSUME NEW n \in EventsOf(i) PROVE \E k \in DOMAIN out : out[k] = Written(n)
  BY DEF Delivered
<1>1. n \in Arrived
  <2>1. n \in DOMAIN sent /\ sent[n] # Bare
    BY DEF EventsOf, BelongsTo, Bare
  <2> QED BY <2>1 DEF Arrived, Dropped
<1>2. n \notin {held[k] : k \in DOMAIN held}
  BY DEF HeldOf, Range
<1>3. PICK k \in DOMAIN out : n \in out[k].ids
  BY <1>1, <1>2 DEF IInv, OrderInv, InOrder
<1>4. out[k] \in Range(out)
  BY DEF Range
<1>5. ~out[k].refused
  BY <1>3, <1>4 DEF Refused
<1>6. Passed(out[k])
  BY <1>4 DEF CallInv, TakenInv
<1>7. PICK m \in DOMAIN sent : out[k] = Written(m)
  BY <1>5, <1>6 DEF Passed
<1>8. m = n
  BY <1>3, <1>7 DEF Written
<1> QED BY <1>7, <1>8

(* A complete call was decided on as a whole.                                *)
LEMMA CompleteIsRuled ==
  ASSUME IInv, CallInv, Gated, NEW i \in 1..MaxBlocks, Complete(i)
  PROVE  /\ Ruled(i)
         /\ provider = "openai" => \A j \in Touched : j \in 1..MaxBlocks /\ Complete(j)
<1>1. provider \in {"anthropic", "openai"}
  BY StreamAssumption DEF IInv, ShapeInv, Gated
<1>2. IsToolCall(i) /\ EventsOf(i) # {}
  BY DEF Complete, IsToolCall
<1>3. CASE provider = "anthropic"
  <2>1. HasKind(i, "stop") /\ BlockInv(i)
    BY <1>3 DEF Complete, HasKind, CallInv, AnthropicInv
  <2> QED BY <1>2, <1>3, <2>1 DEF BlockInv
<1>4. CASE provider = "openai"
  <2>1. OpenAIInv
    BY <1>4 DEF CallInv
  <2>2. source.done /\ Contiguous
    <3>1. ~HasKind(i, "stop")
      BY <2>1 DEF OpenAIInv
    <3> QED BY <3>1 DEF Complete, HasKind
  <2>3. AllRuled
    BY <2>1, <2>2 DEF OpenAIInv, Undecided
  <2>4. ASSUME NEW j \in Touched PROVE j \in 1..MaxBlocks /\ Complete(j)
    <3>1. j \in 1..MaxBlocks /\ \A kind \in {"start", "delta", "stop"} : ~HasKind(j, kind)
      BY <2>1 DEF Touched, OpenAIInv
    <3>2. PICK n \in EventsOf(j) : TRUE
      BY DEF Touched
    <3>3. sent[n].kind = "chunk"
      BY <3>1 DEF HasKind, EventsOf, BelongsTo
    <3> QED BY <1>4, <2>2, <3>1, <3>3 DEF Complete, IsToolCall
  <2> QED BY <1>2, <2>3, <2>4 DEF AllRuled, Touched
<1> QED BY <1>1, <1>3, <1>4

(* The calls' invariant gives the two properties.                            *)
LEMMA CallInvIsEnough == IInv /\ CallInv => DenyHolds /\ NothingElseIsRefused
<1> SUFFICES ASSUME IInv, CallInv PROVE DenyHolds /\ NothingElseIsRefused
  OBVIOUS
<1>1. DenyHolds
  <2> SUFFICES ASSUME NEW i \in 1..MaxBlocks, Gated, Complete(i), Denied(WholeCall(i))
               PROVE  ~Delivered(i)
    BY DEF DenyHolds
  <2>1. Ruled(i) /\ DeniedCall(i)
    BY CompleteIsRuled DEF DeniedCall
  <2>2. Refused(i)
    BY <2>1 DEF Ruled
  <2> QED BY <2>2, RefusedIsNotDelivered
<1>2. \A k \in DOMAIN out : out[k].refused =>
        \A n \in out[k].ids : sent[n] = Other \/ (\E i \in 1..MaxBlocks : BelongsTo(n, i) /\ IsToolCall(i))
  <2> SUFFICES ASSUME NEW k \in DOMAIN out, out[k].refused, NEW n \in out[k].ids PROVE Takes(n)
    BY DEF Takes
  <2>1. TakesOnlyCalls(out[k])
    BY DEF CallInv, TakenInv, Range
  <2> QED BY <2>1 DEF TakesOnlyCalls
<1>3. ASSUME NEW i \in 1..MaxBlocks, Complete(i), ~Denied(WholeCall(i))
      PROVE  \/ Delivered(i)
             \/ (provider = "openai" /\ \E j \in 1..MaxBlocks : Complete(j) /\ Denied(WholeCall(j)))
  <2>1. CASE Gated
    <3>1. Ruled(i) /\ ~DeniedCall(i)
      BY <1>3, <2>1, CompleteIsRuled DEF DeniedCall
    <3>2. CASE Refused(i)
      <4>1. provider = "openai" /\ \E j \in Touched : DeniedCall(j)
        BY <3>1, <3>2 DEF Ruled
      <4>2. \A j \in Touched : j \in 1..MaxBlocks /\ Complete(j)
        BY <1>3, <2>1, <4>1, CompleteIsRuled
      <4> QED BY <4>1, <4>2 DEF DeniedCall
    <3>3. CASE ~Refused(i)
      BY <3>1, <3>3, OtherwiseDelivered DEF Ruled
    <3> QED BY <3>2, <3>3
  <2>2. CASE ~Gated
    <3>1. held = <<>>
      BY <2>2 DEF IInv, HeldInv
    <3>2. ~HeldOf(i)
      BY <3>1 DEF HeldOf, Range
    <3>3. ~Refused(i)
      BY <2>2 DEF Refused, CallInv, TakenInv, TakesOnlyCalls
    <3> QED BY <3>2, <3>3, OtherwiseDelivered
  <2> QED BY <2>1, <2>2
<1> QED BY <1>1, <1>2, <1>3 DEF NothingElseIsRefused

(* A call that the policy denies on its whole arguments does not reach the   *)
(* client as a whole: Anthropic's at its stop, OpenAI's at its finish unless *)
(* other chunks came between its own.                                        *)
THEOREM DeniedCallsAreStopped == Spec => []DenyHolds
BY CallsInvariant, CallInvIsEnough, PTL

(* A refusal takes nothing but calls and the pings between them, and a       *)
(* complete call that nothing denies is delivered.                           *)
THEOREM OnlyDeniedIsRefused == Spec => []NothingElseIsRefused
BY CallsInvariant, CallInvIsEnough, PTL

=============================================================================
