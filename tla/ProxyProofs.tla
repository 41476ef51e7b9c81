---------------------------- MODULE ProxyProofs -----------------------------
(***************************************************************************)
(* Proofs about Proxy, for any clients, requests, answers, policies and    *)
(* limits: what the budget's counter says, how far requests in flight can  *)
(* overrun it, and what a client gets.                                     *)
(***************************************************************************)
EXTENDS Proxy, FiniteSetTheorems, WellFoundedInduction, TLAPS

-----------------------------------------------------------------------------
(* Sums over a finite set.  SumFunction is defined by a recursive function  *)
(* over the set's subsets; that the equation has a solution, and what holds *)
(* of it, follows from a smallest subset for which it would not.            *)

(* Of the subsets of a finite set, some set has a smallest one: what stands  *)
(* in for an induction over finite sets.                                    *)
LEMMA SmallestSubset ==
  ASSUME NEW S, IsFiniteSet(S), NEW X \in SUBSET (SUBSET S), X # {}
  PROVE  \E T \in X : \A U \in X : U \subseteq T => U = T
<1>1. IsWellFoundedOn(StrictSubsetOrdering(S), FiniteSubsetsOf(S))
  BY FS_StrictSubsetOrderingWellFounded
<1>2. X \subseteq FiniteSubsetsOf(S)
  <2> SUFFICES ASSUME NEW T \in X PROVE T \in FiniteSubsetsOf(S)
    OBVIOUS
  <2> QED BY FS_Subset DEF FiniteSubsetsOf
<1>3. PICK T \in X : \A U \in X : ~(<<U, T>> \in StrictSubsetOrdering(S))
  BY <1>1, <1>2, WFMin
<1>4. ASSUME NEW U \in X, U \subseteq T, U # T PROVE FALSE
  <2>1. <<U, T>> \in StrictSubsetOrdering(S)
    BY <1>4 DEF StrictSubsetOrdering
  <2> QED BY <2>1, <1>3
<1> QED BY <1>4

Chosen(T) == CHOOSE x \in T : TRUE

(* The equation that defines the sums of c over the subsets of S. *)
Sums(g, c, S) ==
  g = [T \in SUBSET S |-> IF T = {} THEN 0 ELSE c[Chosen(T)] + g[T \ {Chosen(T)}]]

(* What the equation says of one set.                                        *)
LEMMA SumsUnfold ==
  ASSUME NEW S, NEW c, NEW g, Sums(g, c, S)
  PROVE  /\ g[{}] = 0
         /\ \A T \in SUBSET S : T # {} =>
              /\ Chosen(T) \in T /\ T \ {Chosen(T)} \in SUBSET S /\ T \ {Chosen(T)} # T
              /\ g[T] = c[Chosen(T)] + g[T \ {Chosen(T)}]
<1>1. \A T : T # {} => Chosen(T) \in T
  BY DEF Chosen
<1>2. \A T \in SUBSET S : g[T] = IF T = {} THEN 0 ELSE c[Chosen(T)] + g[T \ {Chosen(T)}]
  BY Zenon DEF Sums
<1> QED BY <1>1, <1>2

(* On the subsets they share, two solutions agree. *)
LEMMA SumsAgree ==
  ASSUME NEW S, IsFiniteSet(S), NEW c, NEW V \in SUBSET S, NEW W \in SUBSET V,
         NEW g, Sums(g, c, V), NEW h, Sums(h, c, W)
  PROVE  \A T \in SUBSET W : g[T] = h[T]
<1> DEFINE X == {T \in SUBSET W : g[T] # h[T]}
<1> SUFFICES ASSUME X # {} PROVE FALSE
  OBVIOUS
<1>1. X \in SUBSET (SUBSET S) /\ \A T \in X : T \in SUBSET W /\ g[T] # h[T]
  OBVIOUS
<1>a. \A T \in SUBSET W : T \notin X => g[T] = h[T]
  OBVIOUS
<1>b. /\ g[{}] = 0
      /\ \A T \in SUBSET V : T # {} => g[T] = c[Chosen(T)] + g[T \ {Chosen(T)}]
  BY SumsUnfold
<1>c. /\ h[{}] = 0
      /\ \A T \in SUBSET W : T # {} =>
            /\ T \ {Chosen(T)} \in SUBSET W /\ T \ {Chosen(T)} # T
            /\ h[T] = c[Chosen(T)] + h[T \ {Chosen(T)}]
  BY SumsUnfold
<1> HIDE DEF X
<1>2. PICK T \in X : \A U \in X : U \subseteq T => U = T
  BY <1>1, SmallestSubset
<1>3. T # {} /\ T \in SUBSET W /\ T \in SUBSET V /\ g[T] # h[T]
  BY <1>1, <1>2, <1>b, <1>c
<1>4. PICK U : U = T \ {Chosen(T)}
  OBVIOUS
<1>5. U \notin X /\ U \in SUBSET W
  BY <1>2, <1>3, <1>4, <1>c
<1>6. g[U] = h[U]
  BY <1>5, <1>a
<1> QED BY <1>3, <1>4, <1>6, <1>b, <1>c

(* The equation has a solution for every finite set.                         *)
LEMMA SumsExist ==
  ASSUME NEW S, IsFiniteSet(S), NEW c
  PROVE  \E g : Sums(g, c, S)
<1> DEFINE X == {T \in SUBSET S : ~\E g : Sums(g, c, T)}
<1> SUFFICES ASSUME X # {} PROVE FALSE
  BY Zenon
<1>1. X \in SUBSET (SUBSET S) /\ \A T \in X : ~\E g : Sums(g, c, T)
  OBVIOUS
<1>a. \A T \in SUBSET S : T \notin X => \E g : Sums(g, c, T)
  OBVIOUS
<1> HIDE DEF X
<1>2. PICK V \in X : \A U \in X : U \subseteq V => U = V
  BY <1>1, SmallestSubset
<1> DEFINE G(U) == CHOOSE g : Sums(g, c, U)
<1>3. \A U \in SUBSET V : U # V => Sums(G(U), c, U)
  <2> SUFFICES ASSUME NEW U \in SUBSET V, U # V PROVE \E g : Sums(g, c, U)
    BY Zenon
  <2>1. U \in SUBSET S /\ U \notin X
    BY <1>1, <1>2
  <2> QED BY <2>1, <1>a, Zenon
<1> HIDE DEF G
<1>b. PICK h : h = [T \in SUBSET V |-> IF T = {} THEN 0
                     ELSE c[Chosen(T)] + G(T \ {Chosen(T)})[T \ {Chosen(T)}]]
  OBVIOUS
<1>4. ASSUME NEW T \in SUBSET V, T # {}
      PROVE  h[T \ {Chosen(T)}] = G(T \ {Chosen(T)})[T \ {Chosen(T)}]
  <2>1. PICK U : U = T \ {Chosen(T)}
    OBVIOUS
  <2>2. U \in SUBSET V /\ U # V
    BY <1>4, <2>1 DEF Chosen
  <2>3. h[U] = IF U = {} THEN 0 ELSE c[Chosen(U)] + G(U \ {Chosen(U)})[U \ {Chosen(U)}]
    BY <2>2, <1>b
  <2>0. PICK k : k = G(U)
    OBVIOUS
  <2>4. Sums(k, c, U) /\ U \in SUBSET U
    BY <1>3, <2>2, <2>0
  <2>5. CASE U = {}
    <3>1. h[U] = 0
      BY <2>3, <2>5
    <3>2. k[{}] = 0
      BY <2>4, SumsUnfold
    <3> QED BY <3>1, <3>2, <2>5, <2>1, <2>0
  <2>6. CASE U # {}
    <3>1. PICK W : W = U \ {Chosen(U)}
      OBVIOUS
    <3>2. W \in SUBSET U /\ W \in SUBSET V /\ W # V
      BY <2>2, <2>6, <3>1 DEF Chosen
    <3>0. PICK l : l = G(W)
      OBVIOUS
    <3>3. Sums(l, c, W)
      BY <1>3, <3>2, <3>0
    <3>b. \A A \in SUBSET U : A # {} => k[A] = c[Chosen(A)] + k[A \ {Chosen(A)}]
      BY <2>4, SumsUnfold
    <3>4. k[U] = c[Chosen(U)] + k[U \ {Chosen(U)}]
      BY <2>6, <3>b
    <3>a. U \in SUBSET S /\ W \in SUBSET W
      BY <1>1, <1>2, <2>2
    <3>5. k[W] = l[W]
      <4>1. U \in SUBSET S /\ W \in SUBSET U /\ Sums(k, c, U) /\ Sums(l, c, W) /\ W \in SUBSET W
        BY <2>4, <3>2, <3>3, <3>a
      <4>2. \A Z \in SUBSET W : k[Z] = l[Z]
        BY ONLY IsFiniteSet(S), <4>1, SumsAgree, SMTT(30)
      <4> QED BY <4>1, <4>2
    <3>6. h[U] = c[Chosen(U)] + G(W)[W]
      BY <2>3, <2>6, <3>1
    <3> QED BY <2>0, <3>0, <2>1, <3>1, <3>4, <3>5, <3>6
  <2> QED BY <2>5, <2>6
<1>5. Sums(h, c, V)
  <2>1. \A T \in SUBSET V : h[T] = IF T = {} THEN 0 ELSE c[Chosen(T)] + h[T \ {Chosen(T)}]
    BY <1>4, <1>b
  <2>2. h = [T \in SUBSET V |-> h[T]]
    BY <1>b
  <2> QED BY <2>1, <2>2 DEF Sums
<1> QED BY <1>5, <1>2, <1>1

(* SumFunction is one of these sums. *)
LEMMA SumIsOne ==
  ASSUME NEW S, IsFiniteSet(S), NEW c, DOMAIN c = S
  PROVE  \E g : Sums(g, c, S) /\ SumFunction(c) = g[S]
<1> DEFINE iter == CHOOSE g : Sums(g, c, S)
<1>1. Sums(iter, c, S)
  BY SumsExist, Zenon
<1>2. SumFunction(c) = iter[S]
  BY Zenon DEF SumFunction, SumFunctionOnSet, FoldFunctionOnSet, MapThenFoldSet, Sums, Chosen
<1> QED BY <1>1, <1>2, Zenon

(* What g does that solves the equation: it adds an element at a time.      *)
Adds(g, c, S) ==
  /\ g[{}] = 0
  /\ \A T \in SUBSET S : T # {} =>
        /\ Chosen(T) \in T /\ T \ {Chosen(T)} \in SUBSET S /\ T \ {Chosen(T)} # T
        /\ g[T] = c[Chosen(T)] + g[T \ {Chosen(T)}]

(* SumFunction adds an element at a time.                                    *)
LEMMA SumAdds ==
  ASSUME NEW S, IsFiniteSet(S), NEW c, DOMAIN c = S
  PROVE  \E g : Adds(g, c, S) /\ SumFunction(c) = g[S]
<1>1. PICK g : Sums(g, c, S) /\ SumFunction(c) = g[S]
  BY SumIsOne
<1>2. Adds(g, c, S)
  BY <1>1, SumsUnfold DEF Adds
<1> QED BY <1>1, <1>2

(* Of two sums over S, what holds of the difference over {} and is kept by   *)
(* one more element holds over S.                                           *)
LEMMA SumChange ==
  ASSUME NEW S, IsFiniteSet(S), NEW x \in S, NEW c \in [S -> Nat], NEW d \in [S -> Nat],
         \A y \in S : y # x => d[y] = c[y]
  PROVE  /\ SumFunction(c) \in Nat /\ SumFunction(d) \in Nat
         /\ SumFunction(d) + c[x] = SumFunction(c) + d[x]
<1>1. PICK g : Adds(g, c, S) /\ SumFunction(c) = g[S]
  BY SumAdds
<1>2. PICK h : Adds(h, d, S) /\ SumFunction(d) = h[S]
  BY SumAdds
<1>3. /\ g[{}] = 0
      /\ \A T \in SUBSET S : T # {} =>
            /\ Chosen(T) \in T /\ T \ {Chosen(T)} \in SUBSET S /\ T \ {Chosen(T)} # T
            /\ g[T] = c[Chosen(T)] + g[T \ {Chosen(T)}]
  BY <1>1 DEF Adds
<1>4. /\ h[{}] = 0
      /\ \A T \in SUBSET S : T # {} =>
            /\ Chosen(T) \in T /\ T \ {Chosen(T)} \in SUBSET S /\ T \ {Chosen(T)} # T
            /\ h[T] = d[Chosen(T)] + h[T \ {Chosen(T)}]
  BY <1>2 DEF Adds
<1> DEFINE P(T) == /\ g[T] \in Nat /\ h[T] \in Nat
                   /\ IF x \in T THEN h[T] + c[x] = g[T] + d[x] ELSE h[T] = g[T]
<1> DEFINE X == {T \in SUBSET S : ~P(T)}
<1>5. X = {}
  <2> SUFFICES ASSUME X # {} PROVE FALSE
    OBVIOUS
  <2>1. X \in SUBSET (SUBSET S)
    OBVIOUS
  <2>2. \A T \in X : T \in SUBSET S /\ ~P(T)
    OBVIOUS
  <2>3. \A T \in SUBSET S : T \notin X => P(T)
    OBVIOUS
  <2> HIDE DEF X
  <2>4. PICK T \in X : \A U \in X : U \subseteq T => U = T
    BY <2>1, SmallestSubset
  <2>5. T # {}
    <3>1. P({})
      BY <1>3, <1>4
    <3> QED BY <3>1, <2>2, <2>4
  <2>6. PICK U : U = T \ {Chosen(T)}
    OBVIOUS
  <2>7. U \in SUBSET S /\ U \notin X /\ Chosen(T) \in T /\ Chosen(T) \in S
    BY <2>2, <2>4, <2>5, <2>6, <1>3
  <2>8. P(U)
    BY <2>3, <2>7
  <2>9. g[T] = c[Chosen(T)] + g[U] /\ h[T] = d[Chosen(T)] + h[U]
    BY <2>2, <2>4, <2>5, <2>6, <1>3, <1>4
  <2>10. PICK y : y = Chosen(T)
    OBVIOUS
  <2>11. y \in S /\ c[y] \in Nat /\ d[y] \in Nat /\ c[x] \in Nat /\ d[x] \in Nat
    BY <2>7, <2>10
  <2>12. CASE y = x
    BY <2>6, <2>7, <2>8, <2>9, <2>10, <2>11, <2>12, <2>2, <2>4
  <2>13. CASE y # x
    <3>1. (x \in T) = (x \in U)
      BY <2>6, <2>10, <2>13
    <3>2. d[y] = c[y]
      BY <2>11, <2>13
    <3>3. CASE x \in T
      BY <3>1, <3>2, <3>3, <2>8, <2>9, <2>10, <2>11, <2>2, <2>4
    <3>4. CASE x \notin T
      BY <3>1, <3>2, <3>4, <2>8, <2>9, <2>10, <2>11, <2>2, <2>4
    <3> QED BY <3>3, <3>4
  <2> QED BY <2>12, <2>13
<1>6. P(S)
  BY <1>5
<1> QED BY <1>1, <1>2, <1>6

(* A sum of naturals is a natural, and no larger than a larger sum; where   *)
(* no summand exceeds m, the sum is at most m for each element.             *)
LEMMA SumBounds ==
  ASSUME NEW S, IsFiniteSet(S), NEW c \in [S -> Nat], NEW d \in [S -> Nat], NEW m \in Nat,
         \A y \in S : c[y] <= d[y] /\ d[y] <= m
  PROVE  /\ SumFunction(c) \in Nat /\ SumFunction(d) \in Nat
         /\ SumFunction(c) <= SumFunction(d)
         /\ SumFunction(d) <= Cardinality(S) * m
<1>1. PICK g : Adds(g, c, S) /\ SumFunction(c) = g[S]
  BY SumAdds
<1>2. PICK h : Adds(h, d, S) /\ SumFunction(d) = h[S]
  BY SumAdds
<1>3. /\ g[{}] = 0
      /\ \A T \in SUBSET S : T # {} =>
            /\ Chosen(T) \in T /\ T \ {Chosen(T)} \in SUBSET S /\ T \ {Chosen(T)} # T
            /\ g[T] = c[Chosen(T)] + g[T \ {Chosen(T)}]
  BY <1>1 DEF Adds
<1>4. /\ h[{}] = 0
      /\ \A T \in SUBSET S : T # {} =>
            /\ Chosen(T) \in T /\ T \ {Chosen(T)} \in SUBSET S /\ T \ {Chosen(T)} # T
            /\ h[T] = d[Chosen(T)] + h[T \ {Chosen(T)}]
  BY <1>2 DEF Adds
<1> DEFINE P(T) == /\ g[T] \in Nat /\ h[T] \in Nat
                   /\ g[T] <= h[T] /\ h[T] <= Cardinality(T) * m
<1> DEFINE X == {T \in SUBSET S : ~P(T)}
<1>5. X = {}
  <2> SUFFICES ASSUME X # {} PROVE FALSE
    OBVIOUS
  <2>1. X \in SUBSET (SUBSET S)
    OBVIOUS
  <2>2. \A T \in X : T \in SUBSET S /\ ~P(T)
    OBVIOUS
  <2>3. \A T \in SUBSET S : T \notin X => P(T)
    OBVIOUS
  <2> HIDE DEF X
  <2>4. PICK T \in X : \A U \in X : U \subseteq T => U = T
    BY <2>1, SmallestSubset
  <2>5. T # {}
    <3>1. Cardinality({}) = 0
      BY FS_EmptySet
    <3>2. P({})
      BY <1>3, <1>4, <3>1
    <3> QED BY <3>2, <2>2, <2>4
  <2>6. PICK U : U = T \ {Chosen(T)}
    OBVIOUS
  <2>7. U \in SUBSET S /\ U \notin X /\ Chosen(T) \in T /\ Chosen(T) \in S
    BY <2>2, <2>4, <2>5, <2>6, <1>3
  <2>8. P(U)
    BY <2>3, <2>7
  <2>9. g[T] = c[Chosen(T)] + g[U] /\ h[T] = d[Chosen(T)] + h[U]
    BY <2>2, <2>4, <2>5, <2>6, <1>3, <1>4
  <2>10. PICK y : y = Chosen(T)
    OBVIOUS
  <2>11. y \in S /\ c[y] \in Nat /\ d[y] \in Nat /\ c[y] <= d[y] /\ d[y] <= m
    BY <2>7, <2>10
  <2>12. PICK k \in Nat : k = Cardinality(U) /\ Cardinality(T) = k + 1
    <3>1. IsFiniteSet(T) /\ IsFiniteSet(U)
      BY <2>2, <2>4, <2>7, FS_Subset
    <3>2. Cardinality(T) \in Nat /\ Cardinality(U) = Cardinality(T) - 1 /\ Cardinality(U) \in Nat
      BY <3>1, <2>6, <2>7, FS_RemoveElement, FS_CardinalityType
    <3> QED BY <3>2
  <2>13. Cardinality(T) * m = k * m + m
    BY <2>12
  <2>14. k * m \in Nat
    BY <2>12
  <2> HIDE DEF P
  <2>15. g[U] \in Nat /\ h[U] \in Nat /\ g[U] <= h[U] /\ h[U] <= k * m
    BY <2>8, <2>12 DEF P
  <2>16. PICK km \in Nat : km = k * m
    BY <2>14
  <2>17. P(T)
    BY <2>9, <2>10, <2>11, <2>13, <2>15, <2>16 DEF P
  <2> QED BY <2>2, <2>4, <2>17
<1>6. P(S)
  BY <1>5
<1> QED BY <1>1, <1>2, <1>6

-----------------------------------------------------------------------------
(* The inductive invariant *)

(* A slot's request is a record of these fields throughout.                  *)
Shape ==
  /\ req = [s \in Slots |-> req[s]]
  /\ \A s \in Slots :
       req[s] = [pc |-> req[s].pc, ask |-> req[s].ask, sent |-> req[s].sent,
                 answer |-> req[s].answer, row |-> req[s].row, got |-> req[s].got]

OnItsWay(r) == r.pc \in {"sent", "read", "logged"}

Answered(r) ==
  /\ r.answer \in Answers /\ ~r.answer.stream
  /\ r.ask.parses \/ r.answer.usage = Absent

Settled(r) ==
  /\ r.got.status \in {200, 400, 502}
  /\ r.got.status = 200 =>
       /\ r.ask \in Asks /\ r.sent = Rewritten(r.ask) /\ r.got.routed = RoutedTo(r.ask)
       /\ r.answer \in Answers
       /\ r.answer.stream \/ r.got.blocks = gate(r.ask.provider, r.answer)

(* What is known of a request, from how far it has come.                    *)
Course(r) ==
  /\ r.pc \in {"idle", "sent", "read", "logged", "done", "cut"}
  /\ r.row \in 0..today \cup {NoRow}
  /\ OnItsWay(r) => r.ask \in Asks /\ r.sent = Rewritten(r.ask)
  /\ r.pc \in {"sent", "read"} => r.row = NoRow
  /\ r.pc \in {"read", "logged"} => Answered(r)
  /\ r.pc = "logged" => Used(r)
  /\ r.pc = "done" => Settled(r)

Counts ==
  /\ policy \in Policies /\ limits \in Limits
  /\ counter \in [day : 0..today \cup {Never}, cost : Nat, anonymous : Nat]
  /\ ledger \in [0..MaxDay -> Nat]
  /\ today \in 0..MaxDay /\ served \in 0..MaxRequests
  /\ unlogged \in Nat /\ forgotten \in Nat /\ slate \in BOOLEAN
  /\ ~slate => forgotten = 0
  /\ \A d \in 0..MaxDay : d > today => ledger[d] = 0

Requests == Shape /\ \A s \in Slots : Course(req[s])

(* Charged today.                                                            *)
Spent == IF counter.day = today THEN counter.cost ELSE 0

(* In the ledger and not charged yet.                                        *)
Pending == SumFunction([s \in Slots |-> CostOf(s)])

(* The most that a request which PreForward let through can still cost.      *)
Risk(s) == IF OnItsWay(req[s]) /\ Parsed(req[s].ask) THEN MaxCost ELSE 0

AtRisk == SumFunction([s \in Slots |-> Risk(s)])

Ceiling == limits.daily + Cardinality(Slots) * MaxCost

(* The day's books, on days with a charge and without.                      *)
Books == Spent + Pending + forgotten = ledger[today] + unlogged

(* A request is let through while the counter is within the limit, and only *)
(* the risk of the requests on their way comes on top.                      *)
Headroom == limits.daily > 0 /\ ~slate => Spent + AtRisk <= Ceiling

IInv == Counts /\ Requests /\ Books /\ Headroom

(* The constants' types.                                                     *)
LEMMA Constants ==
  /\ IsFiniteSet(Slots) /\ MaxCost \in Nat /\ MaxDay \in Nat /\ MaxRequests \in Nat
  /\ Limits \subseteq [session : Nat, daily : Nat]
  /\ Cardinality(Slots) \in Nat /\ Cardinality(Slots) * MaxCost \in Nat
<1>1. IsFiniteSet(Slots)
  BY ProxyAssumption, Zenon
<1>2. MaxCost \in Nat
  BY ProxyAssumption, Zenon
<1>3. MaxDay \in Nat
  BY ProxyAssumption, Zenon
<1>4. MaxRequests \in Nat
  BY ProxyAssumption, Zenon
<1>5. Limits \subseteq [session : Nat, daily : Nat]
  BY ProxyAssumption, Zenon
<1>6. Cardinality(Slots) \in Nat
  BY <1>1, FS_CardinalityType
<1> QED BY <1>1, <1>2, <1>3, <1>4, <1>5, <1>6

(* What an answer costs.                                                     *)
LEMMA Costs ==
  ASSUME NEW a \in Answers, a.usage # Absent
  PROVE  a.usage.cost \in Nat /\ a.usage.cost <= MaxCost /\ a.usage.tokens \in Nat
<1>1. a.usage.cost \in 0..MaxCost /\ a.usage.tokens \in Nat \ {0}
  BY ProxyAssumption, Zenon
<1> QED BY <1>1, Constants

(* A logged request's answer has a cost and was let through by PreForward.   *)
LEMMA LoggedIsParsed ==
  ASSUME NEW r, Course(r), r.pc = "logged"
  PROVE  /\ Parsed(r.ask) /\ OnItsWay(r)
         /\ r.answer.usage.cost \in Nat /\ r.answer.usage.cost <= MaxCost
         /\ r.answer.usage.tokens \in Nat
<1>1. r.answer \in Answers /\ r.answer.usage # Absent /\ r.ask.provider # "gemini" /\ r.ask.parses
  BY DEF Course, Answered, Used
<1> QED BY <1>1, Costs DEF Parsed, OnItsWay

(* The summands of Pending and AtRisk.                                       *)
SummandsOK ==
  \A s \in Slots : /\ CostOf(s) \in Nat /\ Risk(s) \in Nat
                   /\ CostOf(s) <= Risk(s) /\ Risk(s) <= MaxCost

(* What a slot may cost is known from its request's course.                 *)
LEMMA Summands == Requests => SummandsOK
<1> SUFFICES ASSUME Requests, NEW s \in Slots
             PROVE  CostOf(s) \in Nat /\ Risk(s) \in Nat /\ CostOf(s) <= Risk(s) /\ Risk(s) <= MaxCost
  BY DEF SummandsOK
<1>1. Course(req[s])
  BY DEF Requests
<1>2. CASE req[s].pc = "logged"
  <2>1. Parsed(req[s].ask) /\ OnItsWay(req[s]) /\ req[s].answer.usage.cost \in Nat
        /\ req[s].answer.usage.cost <= MaxCost
    BY <1>1, <1>2, LoggedIsParsed
  <2> QED BY <2>1, Constants DEF CostOf, Risk
<1>3. CASE req[s].pc # "logged"
  BY <1>3, Constants DEF CostOf, Risk
<1> QED BY <1>2, <1>3

(* Pending and AtRisk are bounded by what every client may still cost.       *)
RiskBounded ==
  /\ Pending \in Nat /\ AtRisk \in Nat
  /\ Pending <= AtRisk /\ AtRisk <= Cardinality(Slots) * MaxCost

(* What is pending is at risk, and that is at most one answer per client.    *)
LEMMA PendingBelowRisk == Requests => RiskBounded
<1> SUFFICES ASSUME Requests PROVE RiskBounded
  OBVIOUS
<1>1. PICK c : c = [s \in Slots |-> CostOf(s)]
  OBVIOUS
<1>2. PICK d : d = [s \in Slots |-> Risk(s)]
  OBVIOUS
<1>3. c \in [Slots -> Nat] /\ d \in [Slots -> Nat]
      /\ \A s \in Slots : c[s] <= d[s] /\ d[s] <= MaxCost
  BY <1>1, <1>2, Summands DEF SummandsOK
<1>4. /\ SumFunction(c) \in Nat /\ SumFunction(d) \in Nat
      /\ SumFunction(c) <= SumFunction(d)
      /\ SumFunction(d) <= Cardinality(Slots) * MaxCost
  BY <1>3, Constants, SumBounds
<1> QED BY <1>1, <1>2, <1>4 DEF Pending, AtRisk, RiskBounded

(* A step of one slot on the same day changes the sums by its summand.       *)
LEMMA OneSlotMoves ==
  ASSUME Requests, Requests', UNCHANGED today, NEW s \in Slots,
         \A t \in Slots : t # s => req'[t] = req[t]
  PROVE  /\ Pending \in Nat /\ Pending' \in Nat /\ AtRisk \in Nat /\ AtRisk' \in Nat
         /\ Pending' + CostOf(s) = Pending + CostOf(s)'
         /\ AtRisk' + Risk(s) = AtRisk + Risk(s)'
<1>0. \A t \in Slots : CostOf(t) \in Nat /\ Risk(t) \in Nat
  BY Summands DEF SummandsOK
<1>0a. \A t \in Slots : CostOf(t)' \in Nat /\ Risk(t)' \in Nat
  <2>1. SummandsOK'
    BY Summands, PTL
  <2> QED BY <2>1 DEF SummandsOK
<1>1. PICK c : c = [t \in Slots |-> CostOf(t)]
  OBVIOUS
<1>2. PICK d : d = [t \in Slots |-> CostOf(t)']
  OBVIOUS
<1>3. PICK e : e = [t \in Slots |-> Risk(t)]
  OBVIOUS
<1>4. PICK f : f = [t \in Slots |-> Risk(t)']
  OBVIOUS
<1>5. c \in [Slots -> Nat] /\ d \in [Slots -> Nat] /\ e \in [Slots -> Nat] /\ f \in [Slots -> Nat]
  BY <1>0, <1>0a, <1>1, <1>2, <1>3, <1>4
<1>6. \A t \in Slots : t # s => d[t] = c[t]
  BY <1>1, <1>2 DEF CostOf
<1>7. \A t \in Slots : t # s => f[t] = e[t]
  BY <1>3, <1>4 DEF Risk
<1>8. /\ SumFunction(c) \in Nat /\ SumFunction(d) \in Nat
      /\ SumFunction(d) + c[s] = SumFunction(c) + d[s]
  BY <1>5, <1>6, Constants, SumChange
<1>9. /\ SumFunction(e) \in Nat /\ SumFunction(f) \in Nat
      /\ SumFunction(f) + e[s] = SumFunction(e) + f[s]
  BY <1>5, <1>7, Constants, SumChange
<1>10. Pending = SumFunction(c) /\ Pending' = SumFunction(d)
  BY <1>1, <1>2 DEF Pending
<1>11. AtRisk = SumFunction(e) /\ AtRisk' = SumFunction(f)
  BY <1>3, <1>4 DEF AtRisk
<1> QED BY <1>1, <1>2, <1>3, <1>4, <1>8, <1>9, <1>10, <1>11

(* Nothing is pending and nothing at risk when every summand is zero.        *)
LEMMA NoSum ==
  ASSUME NEW c, c = [s \in Slots |-> c[s]], \A s \in Slots : c[s] = 0
  PROVE  SumFunction(c) = 0
<1>1. c \in [Slots -> Nat] /\ \A s \in Slots : c[s] <= c[s] /\ c[s] <= 0
  OBVIOUS
<1>2. SumFunction(c) \in Nat /\ SumFunction(c) <= Cardinality(Slots) * 0
  BY <1>1, Constants, SumBounds
<1> QED BY <1>2, Constants

-----------------------------------------------------------------------------
(* The steps *)

(* A slot's new request leaves the others as they are.                       *)
LEMMA SlotStep ==
  ASSUME Requests, UNCHANGED <<policy, today>>, NEW s \in Slots, NEW r, Set(s, r), Course(r),
         r = [pc |-> r.pc, ask |-> r.ask, sent |-> r.sent,
              answer |-> r.answer, row |-> r.row, got |-> r.got]
  PROVE  /\ Requests' /\ req'[s] = r
         /\ \A t \in Slots : t # s => req'[t] = req[t]
<1>1. req' = [t \in Slots |-> IF t = s THEN r ELSE req[t]]
  BY DEF Requests, Shape, Set
<1>2. \A t \in Slots : req'[t] = IF t = s THEN r ELSE req[t]
  BY <1>1
<1>3. req' = [t \in Slots |-> req'[t]]
  BY <1>1
<1>4. Shape'
  BY <1>2, <1>3 DEF Requests, Shape
<1>5. ASSUME NEW t \in Slots PROVE Course(req[t])' = Course(req'[t])
  <2>1. ASSUME NEW q PROVE Settled(q)' = Settled(q)
    <3>1. gate(q.ask.provider, q.answer)' = gate(q.ask.provider, q.answer)
      BY DEF gate, Decides, DeniedBlock
    <3> QED BY <3>1 DEF Settled, Rewritten, RoutedTo, Routed, Parsed, Pick, RulesFor, Classify
  <2>2. PICK q : q = req'[t]
    OBVIOUS
  <2>3. Course(req[t])' = (Course(q))'
    BY <2>2 DEF Course, Answered, Settled, OnItsWay, Used
  <2>4. Settled(q)' = Settled(q)
    BY <2>1
  <2> QED BY <2>2, <2>4 DEF Course
<1>6. ASSUME NEW t \in Slots PROVE Course(req'[t])
  BY <1>2 DEF Requests
<1> QED BY <1>2, <1>4, <1>5, <1>6 DEF Requests

(* Done changes the two fields of a request that it is for.                 *)
LEMMA DoneIs ==
  ASSUME NEW r, NEW end,
         r = [pc |-> r.pc, ask |-> r.ask, sent |-> r.sent,
              answer |-> r.answer, row |-> r.row, got |-> r.got]
  PROVE  Done(r, end) = [pc |-> "done", ask |-> r.ask, sent |-> r.sent,
                         answer |-> r.answer, row |-> r.row, got |-> end]
<1>1. DOMAIN r = {"pc", "ask", "sent", "answer", "row", "got"}
  OBVIOUS
<1>2. PICK d : d = Done(r, end)
  OBVIOUS
<1>3. /\ d = [f \in DOMAIN r |-> d[f]] /\ d.pc = "done" /\ d.got = end
      /\ d.ask = r.ask /\ d.sent = r.sent /\ d.answer = r.answer /\ d.row = r.row
  BY <1>1, <1>2 DEF Done
<1> QED BY <1>1, <1>2, <1>3

(* So does LogUsage.                                                         *)
LEMMA LoggedIs ==
  ASSUME NEW r, NEW row,
         r = [pc |-> r.pc, ask |-> r.ask, sent |-> r.sent,
              answer |-> r.answer, row |-> r.row, got |-> r.got]
  PROVE  [r EXCEPT !.pc = "logged", !.row = row] =
           [pc |-> "logged", ask |-> r.ask, sent |-> r.sent,
            answer |-> r.answer, row |-> row, got |-> r.got]
<1>1. DOMAIN r = {"pc", "ask", "sent", "answer", "row", "got"}
  OBVIOUS
<1>2. PICK d : d = [r EXCEPT !.pc = "logged", !.row = row]
  OBVIOUS
<1>3. /\ d = [f \in DOMAIN r |-> d[f]] /\ d.pc = "logged" /\ d.got = r.got
      /\ d.ask = r.ask /\ d.sent = r.sent /\ d.answer = r.answer /\ d.row = row
  BY <1>1, <1>2
<1> QED BY <1>1, <1>2, <1>3

(* What fits under the ceiling still does with less at risk.                *)
LEMMA LessRisk ==
  \A spent, risk, less, ceiling \in Nat :
    less <= risk => (spent + risk <= ceiling => spent + less <= ceiling)
OBVIOUS

(* What was at risk is enough for a charge.                                  *)
LEMMA RiskPays ==
  \A spent, risk, less, cost, ceiling \in Nat :
    cost + less <= risk => (spent + risk <= ceiling => (spent + cost) + less <= ceiling)
OBVIOUS

(* Counter, ledger and limits stay, and so do the books.                     *)
LEMMA BooksStay ==
  ASSUME Counts, Requests, Books, Requests', UNCHANGED <<limits, counter, ledger, today, history>>,
         NEW s \in Slots, \A t \in Slots : t # s => req'[t] = req[t],
         CostOf(s)' = CostOf(s)
  PROVE  Books' /\ Spent' = Spent /\ Ceiling' = Ceiling
<1>1. Pending \in Nat /\ Pending' \in Nat /\ Pending' + CostOf(s) = Pending + CostOf(s)' /\ CostOf(s) \in Nat
  BY OneSlotMoves, Summands DEF history, SummandsOK
<1>2. Pending' = Pending
  BY <1>1
<1>3. Spent' = Spent /\ Ceiling' = Ceiling
  BY DEF Spent, Ceiling
<1> QED BY <1>2, <1>3 DEF Books, history

(* A request is refused, let through within the limit, or not parsed.        *)
LEMMA ReceiveStep ==
  ASSUME IInv, NEW s \in Slots, Receive(s)
  PROVE  IInv'
<1> USE DEF IInv
<1>1. PICK ask \in Asks :
        LET r == [pc |-> "sent", ask |-> ask, sent |-> Rewritten(ask),
                  answer |-> Absent, row |-> NoRow, got |-> Absent]
        IN  \/ Set(s, Done([r EXCEPT !.sent = Absent], Failed(400)))
            \/ IF Parsed(ask) /\ OverHard
               THEN Set(s, Done([r EXCEPT !.sent = Absent], Failed(400)))
               ELSE Set(s, r)
  BY DEF Receive
<1>2. PICK sent : sent = [pc |-> "sent", ask |-> ask, sent |-> Rewritten(ask),
                          answer |-> Absent, row |-> NoRow, got |-> Absent]
  OBVIOUS
<1>3. PICK refused : refused = [pc |-> "done", ask |-> ask, sent |-> Absent,
                          answer |-> Absent, row |-> NoRow, got |-> Failed(400)]
  OBVIOUS
<1>4. \/ Set(s, refused)
      \/ Set(s, sent) /\ (Parsed(ask) => ~OverHard)
  <2>1. PICK u : u = [sent EXCEPT !.sent = Absent]
    OBVIOUS
  <2>2. u = [pc |-> "sent", ask |-> ask, sent |-> Absent,
             answer |-> Absent, row |-> NoRow, got |-> Absent]
    BY <1>2, <2>1
  <2>3. PICK got : got = Failed(400)
    OBVIOUS
  <2>4. u = [pc |-> u.pc, ask |-> u.ask, sent |-> u.sent,
             answer |-> u.answer, row |-> u.row, got |-> u.got]
    BY <2>2
  <2>5. refused = Done(u, got)
    BY <1>3, <2>2, <2>3, <2>4, DoneIs
  <2> QED BY <1>1, <1>2, <2>1, <2>3, <2>5
<1>5. UNCHANGED <<policy, limits, counter, ledger, today, history>> /\ served' \in 0..MaxRequests
  <2>1. /\ UNCHANGED <<policy, limits, counter, ledger, today, history>>
        /\ served < MaxRequests /\ served' = served + 1
    BY ONLY Receive(s) DEF Receive
  <2>2. served \in 0..MaxRequests /\ MaxRequests \in Nat
    BY Constants, Zenon DEF Counts
  <2> QED BY ONLY <2>1, <2>2
<1>6. Counts'
  BY <1>5 DEF Counts, history
<1>7. CostOf(s) = 0 /\ Risk(s) = 0
  BY DEF Receive, CostOf, Risk, OnItsWay
<1>8. CASE Set(s, refused)
  <2>1. Course(refused)
    BY <1>3 DEF Course, Settled, OnItsWay, Failed, NoRow
  <2>2. Requests' /\ req'[s] = refused /\ \A t \in Slots : t # s => req'[t] = req[t]
    BY <1>3, <1>5, <1>8, <2>1, SlotStep
  <2>3. CostOf(s)' = 0 /\ Risk(s)' = 0
    BY <1>3, <2>2 DEF CostOf, Risk, OnItsWay
  <2>4. Books' /\ Spent' = Spent /\ Ceiling' = Ceiling
    BY <1>5, <1>7, <2>2, <2>3, BooksStay
  <2>5. AtRisk' = AtRisk
    BY <1>5, <1>7, <2>2, <2>3, OneSlotMoves
  <2> QED BY <1>5, <1>6, <2>2, <2>4, <2>5 DEF Headroom, history
<1>9. CASE Set(s, sent) /\ (Parsed(ask) => ~OverHard)
  <2>1. Course(sent)
    BY <1>2 DEF Course, OnItsWay, NoRow
  <2>2. Requests' /\ req'[s] = sent /\ \A t \in Slots : t # s => req'[t] = req[t]
    BY <1>2, <1>5, <1>9, <2>1, SlotStep
  <2>3. CostOf(s)' = 0 /\ Risk(s)' = IF Parsed(ask) THEN MaxCost ELSE 0
    BY <1>2, <2>2 DEF CostOf, Risk, OnItsWay
  <2>4. Books' /\ Spent' = Spent /\ Ceiling' = Ceiling
    BY <1>5, <1>7, <2>2, <2>3, BooksStay
  <2>5. CASE Parsed(ask)
    <3>1. limits.daily > 0 => counter.cost <= limits.daily
      BY <1>9, <2>5, Constants DEF OverHard, Counts
    <3>2. AtRisk' \in Nat /\ AtRisk' <= Cardinality(Slots) * MaxCost
      <4>1. RiskBounded'
        BY <2>2, PendingBelowRisk, PTL
      <4> QED BY <4>1 DEF RiskBounded
    <3>3. limits.daily > 0 => Spent <= limits.daily
      BY <3>1, Constants DEF Spent, Counts
    <3>4. limits.daily \in Nat /\ Spent \in Nat
      BY Constants DEF Spent, Counts
    <3>5. limits.daily > 0 => Spent' + AtRisk' <= Ceiling'
      BY <2>4, <3>2, <3>3, <3>4, Constants DEF Ceiling
    <3> QED BY <1>5, <1>6, <2>2, <2>4, <3>5 DEF Headroom
  <2>6. CASE ~Parsed(ask)
    <3>1. AtRisk' = AtRisk
      BY <1>5, <1>7, <2>2, <2>3, <2>6, OneSlotMoves
    <3> QED BY <1>5, <1>6, <2>2, <2>4, <3>1 DEF Headroom, history
  <2> QED BY <2>5, <2>6
<1> QED BY <1>4, <1>8, <1>9

(* An answer without usage takes the risk away, any other keeps it.          *)
LEMMA AnswerStep ==
  ASSUME IInv, NEW s \in Slots, Answer(s)
  PROVE  IInv'
<1> USE DEF IInv
<1>1. UNCHANGED <<policy, limits, counter, ledger, today, served, history>> /\ req[s].pc = "sent"
  BY DEF Answer
<1>2. Counts'
  BY <1>1 DEF Counts, history
<1>3. PICK q : q = req[s]
  OBVIOUS
<1>4. /\ Course(q) /\ q.pc = "sent" /\ q.ask \in Asks /\ q.sent = Rewritten(q.ask)
      /\ q = [pc |-> q.pc, ask |-> q.ask, sent |-> q.sent,
               answer |-> q.answer, row |-> q.row, got |-> q.got]
  BY <1>1, <1>3 DEF Requests, Shape, Course, OnItsWay
<1>5. PICK r : /\ Set(s, r)
               /\ \/ r = Done(q, Failed(502))
                  \/ \E a \in Answers : (q.ask.parses \/ a.usage = Absent) /\ r = Arrived(q, a)
  BY <1>3 DEF Answer
<1> DEFINE Fits == /\ Course(r) /\ r.ask = q.ask
                   /\ r.pc \in {"read", "done"}
                   /\ r = [pc |-> r.pc, ask |-> r.ask, sent |-> r.sent,
                            answer |-> r.answer, row |-> r.row, got |-> r.got]
<1>6. Fits
  <2>1. CASE r = Done(q, Failed(502))
    <3>2. q = [pc |-> q.pc, ask |-> q.ask, sent |-> q.sent,
               answer |-> q.answer, row |-> q.row, got |-> q.got]
      BY ONLY <1>4
    <3>3. PICK got : got = Failed(502)
      OBVIOUS
    <3>4. Done(q, got) = [pc |-> "done", ask |-> q.ask, sent |-> q.sent,
                          answer |-> q.answer, row |-> q.row, got |-> got]
      BY ONLY <3>2, DoneIs
    <3>1. r = [pc |-> "done", ask |-> q.ask, sent |-> q.sent,
               answer |-> q.answer, row |-> q.row, got |-> Failed(502)]
      BY ONLY <2>1, <3>3, <3>4
    <3> QED BY <1>4, <3>1 DEF Course, Settled, OnItsWay, Failed
  <2>2. ASSUME NEW a \in Answers, q.ask.parses \/ a.usage = Absent, r = Arrived(q, a)
        PROVE  Fits
    <3>1. CASE a.stream
      <4>3. PICK u, got : /\ u = [q EXCEPT !.answer = a]
                          /\ got = [Failed(200) EXCEPT !.routed = RoutedTo(q.ask)]
        OBVIOUS
      <4>4. got = [status |-> 200, routed |-> RoutedTo(q.ask), blocks |-> <<>>]
        BY ONLY <4>3 DEF Failed
      <4>5. u = [pc |-> q.pc, ask |-> q.ask, sent |-> q.sent,
                 answer |-> a, row |-> q.row, got |-> q.got]
        BY ONLY <1>4, <4>3
      <4>6. u = [pc |-> u.pc, ask |-> u.ask, sent |-> u.sent,
                 answer |-> u.answer, row |-> u.row, got |-> u.got]
        BY ONLY <4>5
      <4>7. Done(u, got) = [pc |-> "done", ask |-> u.ask, sent |-> u.sent,
                            answer |-> u.answer, row |-> u.row, got |-> got]
        BY ONLY <4>6, DoneIs
      <4>8. r = Done(u, got)
        BY ONLY <2>2, <3>1, <4>3 DEF Arrived
      <4>1. r = [pc |-> "done", ask |-> q.ask, sent |-> q.sent, answer |-> a, row |-> q.row,
                 got |-> [status |-> 200, routed |-> RoutedTo(q.ask), blocks |-> <<>>]]
        BY ONLY <4>4, <4>5, <4>7, <4>8
      <4>2. Settled(r)
        BY <1>4, <3>1, <4>1 DEF Settled
      <4> QED BY <1>4, <4>1, <4>2 DEF Course, OnItsWay
    <3>2. CASE ~a.stream
      <4>1. r = [pc |-> "read", ask |-> q.ask, sent |-> q.sent,
                 answer |-> a, row |-> q.row, got |-> q.got]
        BY <1>4, <2>2, <3>2 DEF Arrived
      <4>2. Answered(r)
        BY <1>4, <2>2, <3>2, <4>1 DEF Answered
      <4>3. /\ r.pc = "read" /\ r.ask = q.ask /\ r.sent = q.sent /\ r.row = q.row
            /\ r.answer = a /\ r.got = q.got
        BY <4>1
      <4>4. Course(r)
        BY <1>4, <4>2, <4>3 DEF Course, OnItsWay
      <4>5. r = [pc |-> r.pc, ask |-> r.ask, sent |-> r.sent,
                 answer |-> r.answer, row |-> r.row, got |-> r.got]
        BY <4>1
      <4> QED BY <4>3, <4>4, <4>5
    <3> QED BY <3>1, <3>2
  <2> QED BY <1>5, <2>1, <2>2
<1>7. Requests' /\ req'[s] = r /\ \A t \in Slots : t # s => req'[t] = req[t]
  BY <1>1, <1>5, <1>6, SlotStep
<1>8. CostOf(s) = 0 /\ CostOf(s)' = 0
  BY <1>1, <1>6, <1>7 DEF CostOf
<1>9. Books' /\ Spent' = Spent /\ Ceiling' = Ceiling
  BY <1>1, <1>7, <1>8, BooksStay
<1>10. Risk(s) \in Nat /\ Risk(s)' \in Nat /\ Risk(s)' <= Risk(s)
  BY <1>3, <1>4, <1>6, <1>7, Constants DEF Risk, OnItsWay, Parsed
<1>11. AtRisk' <= AtRisk /\ AtRisk \in Nat /\ AtRisk' \in Nat
  BY <1>1, <1>7, <1>10, OneSlotMoves
<1>12. Spent \in Nat /\ Ceiling \in Nat
  BY Constants DEF Spent, Ceiling, Counts
<1>13. Headroom'
  <2>1. (~slate' => ~slate) /\ limits' = limits
    BY <1>1, Zenon DEF history
  <2>2. limits.daily > 0 /\ ~slate => Spent + AtRisk <= Ceiling
    BY DEF Headroom
  <2>3. Spent + AtRisk <= Ceiling => Spent + AtRisk' <= Ceiling
    BY <1>11, <1>12, LessRisk, Zenon
  <2> QED BY <1>9, <2>1, <2>2, <2>3, Zenon DEF Headroom
<1> QED BY <1>2, <1>7, <1>9, <1>13

(* What is spent and what may be spent are amounts. *)
LEMMA BookTypes == Counts => Spent \in Nat /\ Ceiling \in Nat
<1> SUFFICES ASSUME Counts PROVE Spent \in Nat /\ Ceiling \in Nat
  OBVIOUS
<1>1. counter.cost \in Nat
  BY DEF Counts
<1>2. limits.daily \in Nat
  BY Constants DEF Counts
<1>3. PICK margin \in Nat : margin = Cardinality(Slots) * MaxCost
  BY Constants
<1> QED BY ONLY <1>1, <1>2, <1>3 DEF Spent, Ceiling

(* A row and what is pending for it come together.                           *)
LEMMA LogUsageStep ==
  ASSUME IInv, NEW s \in Slots, LogUsage(s)
  PROVE  IInv'
<1> USE DEF IInv
<1>1. UNCHANGED <<policy, limits, counter, today, served, history>> /\ req[s].pc = "read"
  BY DEF LogUsage
<1>2. PICK q : q = req[s]
  OBVIOUS
<1>3. /\ Course(q) /\ q.pc = "read" /\ q.ask \in Asks /\ q.sent = Rewritten(q.ask)
      /\ q.answer \in Answers /\ ~q.answer.stream /\ (q.ask.parses \/ q.answer.usage = Absent)
      /\ q = [pc |-> q.pc, ask |-> q.ask, sent |-> q.sent,
               answer |-> q.answer, row |-> q.row, got |-> q.got]
  BY <1>1, <1>2 DEF Requests, Shape, Course, OnItsWay, Answered
<1>4. CostOf(s) = 0 /\ Risk(s) = IF Parsed(q.ask) THEN MaxCost ELSE 0
  BY <1>2, <1>3 DEF CostOf, Risk, OnItsWay
<1>5. Spent' = Spent /\ Ceiling' = Ceiling /\ Spent \in Nat /\ Ceiling \in Nat
  <2>1. Counts
    OBVIOUS
  <2>2. Spent' = Spent /\ Ceiling' = Ceiling
    BY <1>1, Zenon DEF Spent, Ceiling
  <2> QED BY <2>1, <2>2, BookTypes, Zenon
<1>6. ASSUME Requests', AtRisk' <= AtRisk, AtRisk \in Nat, AtRisk' \in Nat PROVE Headroom'
  <2>1. (~slate' => ~slate) /\ limits' = limits
    BY <1>1, Zenon DEF history
  <2>2. limits.daily > 0 /\ ~slate => Spent + AtRisk <= Ceiling
    BY DEF Headroom
  <2>3. Spent + AtRisk <= Ceiling => Spent + AtRisk' <= Ceiling
    BY <1>5, <1>6, LessRisk, Zenon
  <2> QED BY <1>5, <2>1, <2>2, <2>3, Zenon DEF Headroom
<1>7. CASE ~Used(q)
  <2>1. PICK r : r = Gated(q)
    OBVIOUS
  <2>2. Set(s, r) /\ UNCHANGED ledger
    BY <1>2, <1>7, <2>1 DEF LogUsage
  <2>3. r = [pc |-> "done", ask |-> q.ask, sent |-> q.sent, answer |-> q.answer, row |-> q.row,
             got |-> [status |-> 200, routed |-> RoutedTo(q.ask),
                      blocks |-> gate(q.ask.provider, q.answer)]]
    BY <1>3, <2>1, DoneIs DEF Gated
  <2>4. Settled(r)
    BY <1>3, <2>3 DEF Settled
  <2>5. Course(r)
    BY <1>3, <2>3, <2>4 DEF Course, OnItsWay
  <2>6. Requests' /\ req'[s] = r /\ \A t \in Slots : t # s => req'[t] = req[t]
    BY <1>1, <2>2, <2>3, <2>5, SlotStep
  <2>7. CostOf(s)' = 0 /\ Risk(s)' = 0
    BY <2>3, <2>6 DEF CostOf, Risk, OnItsWay
  <2>8. Books'
    BY <1>1, <1>4, <2>2, <2>6, <2>7, BooksStay
  <2>9. AtRisk' <= AtRisk /\ AtRisk \in Nat /\ AtRisk' \in Nat
    BY <1>1, <1>4, <2>6, <2>7, OneSlotMoves, Constants
  <2>10. Counts'
    BY <1>1, <2>2 DEF Counts, history
  <2> QED BY <1>6, <2>6, <2>8, <2>9, <2>10
<1>8. ASSUME Used(q), NEW row, Set(s, [q EXCEPT !.pc = "logged", !.row = row]),
             \/ row = today /\ ledger' = [ledger EXCEPT ![today] = @ + q.answer.usage.cost]
             \/ row = NoRow /\ UNCHANGED ledger
      PROVE  IInv'
  <2>1. PICK r : r = [q EXCEPT !.pc = "logged", !.row = row]
    OBVIOUS
  <2>2. r = [pc |-> "logged", ask |-> q.ask, sent |-> q.sent, answer |-> q.answer, row |-> row,
             got |-> q.got]
    BY <1>3, <2>1, LoggedIs
  <2>3. today \in 0..MaxDay /\ NoRow \notin 0..MaxDay /\ row \in 0..today \cup {NoRow}
    BY <1>8, Constants DEF NoRow, Counts
  <2>4. Course(r)
    BY <1>3, <1>8, <2>2, <2>3 DEF Course, OnItsWay, Answered, Used
  <2>5. Requests' /\ req'[s] = r /\ \A t \in Slots : t # s => req'[t] = req[t]
    BY <1>1, <1>8, <2>1, <2>2, <2>4, SlotStep
  <2>6. Risk(s)' = Risk(s) /\ Risk(s) \in Nat
    BY <1>4, <2>2, <2>5, Constants DEF Risk, OnItsWay
  <2>7. AtRisk' <= AtRisk /\ AtRisk \in Nat /\ AtRisk' \in Nat
    BY <1>1, <2>5, <2>6, OneSlotMoves
  <2>8. Headroom'
    BY <1>6, <2>5, <2>7
  <2>9. PICK cost \in Nat : cost = q.answer.usage.cost
    BY <1>3, <1>8, Costs DEF Used
  <2>10. Pending \in Nat /\ Pending' \in Nat /\ Pending' = Pending + CostOf(s)'
    BY <1>1, <1>4, <2>5, OneSlotMoves, Summands DEF SummandsOK
  <2>11. CASE row = today /\ ledger' = [ledger EXCEPT ![today] = @ + cost]
    <3>1. CostOf(s)' = cost
      BY <1>1, <2>2, <2>5, <2>9, <2>11 DEF CostOf
    <3>2. ledger'[today] = ledger[today] + cost /\ ledger[today] \in Nat
          /\ ledger' \in [0..MaxDay -> Nat]
      BY <2>3, <2>11 DEF Counts
    <3>3. \A d \in 0..MaxDay : d > today => ledger'[d] = 0
      BY <2>3, <2>11 DEF Counts
    <3>4. Counts'
      BY <1>1, <3>2, <3>3 DEF Counts, history
    <3>5. forgotten \in Nat /\ unlogged \in Nat /\ forgotten' = forgotten /\ unlogged' = unlogged
          /\ today' = today
      BY <1>1 DEF Counts, history
    <3>6. Books'
      BY <1>5, <2>10, <3>1, <3>2, <3>5 DEF Books
    <3> QED BY <2>5, <2>8, <3>4, <3>6
  <2>12. CASE row = NoRow /\ UNCHANGED ledger
    <3>1. CostOf(s)' = 0
      BY <1>1, <2>2, <2>3, <2>5, <2>12 DEF CostOf
    <3>2. Books'
      BY <1>1, <1>4, <2>5, <2>12, <3>1, BooksStay
    <3>3. Counts'
      BY <1>1, <2>12 DEF Counts, history
    <3> QED BY <2>5, <2>8, <3>2, <3>3
  <2> QED BY <1>8, <2>9, <2>11, <2>12
<1>9. CASE Used(q)
  <2>1. PICK r : r = [q EXCEPT !.pc = "logged"]
    OBVIOUS
  <2>2. [q EXCEPT !.pc = "logged", !.row = NoRow] = r
    <3>1. q.row = NoRow
      BY <1>3 DEF Course
    <3> QED BY <1>3, <2>1, <3>1
  <2>3. \/ /\ ledger' = [ledger EXCEPT ![today] = @ + q.answer.usage.cost]
           /\ Set(s, [q EXCEPT !.pc = "logged", !.row = today])
        \/ Set(s, r) /\ UNCHANGED ledger
    BY <1>2, <1>9, <2>1 DEF LogUsage
  <2>4. CASE /\ ledger' = [ledger EXCEPT ![today] = @ + q.answer.usage.cost]
             /\ Set(s, [q EXCEPT !.pc = "logged", !.row = today])
    <3>1. PICK row : row = today
      OBVIOUS
    <3> QED BY <1>8, <1>9, <2>4, <3>1
  <2>5. CASE Set(s, r) /\ UNCHANGED ledger
    BY <1>8, <1>9, <2>2, <2>5
  <2> QED BY <2>3, <2>4, <2>5
<1> QED BY <1>7, <1>9

(* A charge takes what was pending, or goes to the charges without a row.    *)
LEMMA ChargeStep ==
  ASSUME IInv, NEW s \in Slots, Charge(s)
  PROVE  IInv'
<1> USE DEF IInv
<1>1. UNCHANGED <<policy, limits, ledger, today, served, forgotten, slate>> /\ req[s].pc = "logged"
  BY DEF Charge
<1>2. PICK q : q = req[s]
  OBVIOUS
<1>3. /\ Course(q) /\ q.pc = "logged" /\ q.ask \in Asks /\ q.sent = Rewritten(q.ask)
      /\ q.answer \in Answers /\ ~q.answer.stream
      /\ q = [pc |-> q.pc, ask |-> q.ask, sent |-> q.sent,
               answer |-> q.answer, row |-> q.row, got |-> q.got]
  BY <1>1, <1>2 DEF Requests, Shape, Course, OnItsWay, Answered
<1>4. Parsed(q.ask) /\ q.answer.usage.tokens \in Nat
  BY <1>3, LoggedIsParsed
<1>5. PICK cost \in Nat : cost = q.answer.usage.cost /\ cost <= MaxCost
  BY <1>3, LoggedIsParsed
<1>6. PICK r : r = Gated(q)
  OBVIOUS
<1>7. Set(s, r)
  BY <1>2, <1>6 DEF Charge
<1>8. r = [pc |-> "done", ask |-> q.ask, sent |-> q.sent, answer |-> q.answer, row |-> q.row,
           got |-> [status |-> 200, routed |-> RoutedTo(q.ask),
                    blocks |-> gate(q.ask.provider, q.answer)]]
  BY <1>3, <1>6, DoneIs DEF Gated
<1>9. Settled(r)
  BY <1>3, <1>8 DEF Settled
<1>10. Course(r)
  BY <1>3, <1>8, <1>9 DEF Course, OnItsWay
<1>11. Requests' /\ req'[s] = r /\ \A t \in Slots : t # s => req'[t] = req[t]
  BY <1>1, <1>7, <1>8, <1>10, SlotStep
<1>12. CostOf(s)' = 0 /\ Risk(s)' = 0 /\ Risk(s) = MaxCost
  BY <1>2, <1>3, <1>4, <1>8, <1>11 DEF CostOf, Risk, OnItsWay
<1>13. CostOf(s) = IF q.row = today THEN cost ELSE 0
  BY <1>2, <1>3, <1>5 DEF CostOf
<1>14. /\ Pending \in Nat /\ Pending' \in Nat /\ Pending = Pending' + CostOf(s)
       /\ AtRisk \in Nat /\ AtRisk' \in Nat /\ AtRisk = AtRisk' + MaxCost
  BY <1>1, <1>11, <1>12, OneSlotMoves, Constants
<1>15. counter' = Charged(q.answer.usage)
       /\ unlogged' = IF q.row = today THEN unlogged ELSE unlogged + cost
  BY <1>2, <1>5 DEF Charge
<1>16. /\ Spent \in Nat /\ unlogged \in Nat /\ forgotten \in Nat /\ ledger[today] \in Nat
       /\ today \in 0..MaxDay /\ limits.daily \in Nat
  BY Constants DEF Spent, Counts
<1>17. /\ counter'.day = today /\ counter'.cost = Spent + cost
       /\ counter' \in [day : 0..today \cup {Never}, cost : Nat, anonymous : Nat]
  <2>1. counter' = [day |-> today,
                    cost |-> (IF counter.day = today THEN counter.cost ELSE 0) + cost,
                    anonymous |-> IF q.answer.usage.anon
                                  THEN counter.anonymous + q.answer.usage.tokens
                                  ELSE counter.anonymous]
    BY ONLY <1>5, <1>15 DEF Charged
  <2>2. counter.cost \in Nat /\ counter.anonymous \in Nat
    BY DEF Counts
  <2>3. (IF counter.day = today THEN counter.cost ELSE 0) = Spent
    BY ONLY Zenon DEF Spent
  <2>4. today \in 0..today \cup {Never}
    BY <1>16
  <2> QED BY ONLY <1>4, <1>16, <2>1, <2>2, <2>3, <2>4, cost \in Nat
<1>18. Spent' = Spent + cost
  BY <1>1, <1>17 DEF Spent
<1>19. Counts'
  <2>1. unlogged' \in Nat
    BY <1>15, <1>16
  <2>2. (~slate' => ~slate) /\ slate' \in BOOLEAN /\ forgotten' = forgotten
    BY <1>1 DEF Counts
  <2>3. ~slate' => forgotten' = 0
    BY <2>2 DEF Counts
  <2> QED BY <1>1, <1>17, <2>1, <2>2, <2>3 DEF Counts
<1>20. Books'
  <2>1. ledger'[today'] = ledger[today] /\ forgotten' = forgotten
    BY <1>1
  <2>2. CASE q.row = today
    BY <1>13, <1>14, <1>15, <1>16, <1>18, <2>1, <2>2 DEF Books
  <2>3. CASE q.row # today
    BY <1>13, <1>14, <1>15, <1>16, <1>18, <2>1, <2>3 DEF Books
  <2> QED BY <2>2, <2>3
<1>21. Headroom'
  <2>1. (~slate' => ~slate) /\ limits' = limits /\ Ceiling' = Ceiling /\ Ceiling \in Nat
    BY <1>1, <1>16, Constants DEF Ceiling
  <2>2. limits.daily > 0 /\ ~slate => Spent + AtRisk <= Ceiling
    BY DEF Headroom
  <2>3. Spent + AtRisk <= Ceiling => (Spent + cost) + AtRisk' <= Ceiling
    <3>1. MaxCost \in Nat
      BY Constants
    <3>2. cost + AtRisk' <= AtRisk
      BY <1>5, <1>14, <3>1
    <3>3. Spent \in Nat /\ AtRisk \in Nat /\ AtRisk' \in Nat /\ cost \in Nat /\ Ceiling \in Nat
      BY <1>5, <1>14, <1>16, <2>1
    <3> QED BY <3>2, <3>3, RiskPays, Zenon
  <2> QED BY <1>18, <2>1, <2>2, <2>3, Zenon DEF Headroom
<1> QED BY <1>11, <1>19, <1>20, <1>21

(* The new day starts with nothing spent and nothing in its ledger.          *)
LEMMA MidnightStep ==
  ASSUME IInv, Midnight
  PROVE  IInv'
<1> USE DEF IInv
<1>1. /\ today' = today + 1 /\ today \in 0..MaxDay /\ today' \in 0..MaxDay
      /\ unlogged' = 0 /\ forgotten' = 0 /\ slate' = FALSE
      /\ UNCHANGED <<policy, limits, req, counter, ledger, served>>
  BY Constants DEF Midnight, Counts
<1>2. ledger'[today'] = 0
  BY <1>1, Constants DEF Counts
<1>3. counter'.day # today' /\ counter'.day \in 0..today' \cup {Never}
  BY <1>1, Constants DEF Counts, Never
<1>4. Counts'
  <2>1. counter' \in [day : 0..today' \cup {Never}, cost : Nat, anonymous : Nat]
    BY <1>1, <1>3 DEF Counts
  <2>2. \A d \in 0..MaxDay : d > today' => ledger'[d] = 0
    BY <1>1, Constants DEF Counts
  <2> QED BY <1>1, <2>1, <2>2 DEF Counts
<1>5. Requests'
  <2>1. Shape'
    BY <1>1 DEF Requests, Shape
  <2>2. ASSUME NEW t \in Slots PROVE Course(req[t])'
    <3>1. ASSUME NEW q PROVE Settled(q)' = Settled(q)
      <4>1. gate(q.ask.provider, q.answer)' = gate(q.ask.provider, q.answer)
        BY <1>1 DEF gate, Decides, DeniedBlock
      <4> QED BY <4>1 DEF Settled, Rewritten, RoutedTo, Routed, Parsed, Pick, RulesFor, Classify
    <3>2. PICK q : q = req[t]
      OBVIOUS
    <3>3. Course(q) /\ req'[t] = q
      BY <1>1, <3>2 DEF Requests
    <3>4. q.row \in 0..today' \cup {NoRow}
      BY <1>1, <3>3 DEF Course
    <3>5. Settled(q)' = Settled(q)
      BY <3>1
    <3> QED BY <3>3, <3>4, <3>5 DEF Course, Answered, OnItsWay, Used
  <2> QED BY <2>1, <2>2 DEF Requests
<1>6. Pending' = 0
  <2>1. PICK c : c = [t \in Slots |-> CostOf(t)']
    OBVIOUS
  <2>2. ASSUME NEW t \in Slots PROVE CostOf(t)' = 0
    <3>1. req'[t].row # today'
      BY <1>1, Constants DEF Requests, Course, NoRow
    <3> QED BY <3>1 DEF CostOf
  <2>3. SumFunction(c) = 0
    BY <2>1, <2>2, NoSum
  <2> QED BY <2>1, <2>3 DEF Pending
<1>7. Spent' = 0
  BY <1>3 DEF Spent
<1>8. Books'
  BY <1>1, <1>2, <1>6, <1>7 DEF Books
<1>9. AtRisk' \in Nat /\ AtRisk' <= Cardinality(Slots) * MaxCost
  <2>1. RiskBounded'
    BY <1>5, PendingBelowRisk, PTL
  <2> QED BY <2>1 DEF RiskBounded
<1>10. limits'.daily \in Nat
  BY <1>1, Constants DEF Counts
<1>11. Headroom'
  BY <1>7, <1>9, <1>10, Constants DEF Headroom, Ceiling
<1> QED BY <1>4, <1>5, <1>8, <1>11

(* What the day's rows come to: the books, read the other way.               *)
LEMMA LedgerBelowCeiling ==
  ASSUME IInv
  PROVE  limits.daily > 0 /\ ~slate => ledger[today] <= Ceiling
<1> USE DEF IInv
<1>1. /\ Spent \in Nat /\ unlogged \in Nat /\ ledger[today] \in Nat /\ limits.daily \in Nat
      /\ Ceiling \in Nat /\ forgotten \in Nat
  BY Constants DEF Spent, Counts, Ceiling
<1>2. Pending \in Nat /\ AtRisk \in Nat /\ Pending <= AtRisk
  BY PendingBelowRisk DEF RiskBounded
<1>3. ~slate => forgotten = 0
  BY DEF Counts
<1>4. Spent + Pending + forgotten = ledger[today] + unlogged
  BY DEF Books
<1>5. limits.daily > 0 /\ ~slate => Spent + AtRisk <= Ceiling
  BY DEF Headroom
<1> HIDE DEF IInv
<1>6. forgotten = 0 /\ Spent + AtRisk <= Ceiling => ledger[today] <= Ceiling
  BY <1>1, <1>2, <1>4
<1> QED BY <1>3, <1>5, <1>6

(* Nothing is on its way any more, and the counter is the day's ledger.      *)
LEMMA RestartStep ==
  ASSUME IInv, Restart
  PROVE  IInv'
<1> USE DEF IInv
<1>1. /\ unlogged' = 0 /\ UNCHANGED <<policy, limits, ledger, today, served>>
      /\ \/ counter' = Hydrated /\ forgotten' = 0 /\ UNCHANGED slate
         \/ counter' = CleanSlate /\ forgotten' = ledger[today] /\ slate' = TRUE
  BY DEF Restart
<1>2. today \in 0..MaxDay /\ ledger[today] \in Nat /\ Never \notin 0..MaxDay /\ limits.daily \in Nat
  BY Constants DEF Counts, Never
<1>3. ASSUME NEW t \in Slots
      PROVE  /\ Course(req'[t]) /\ ~OnItsWay(req'[t])
             /\ req'[t] = [pc |-> req'[t].pc, ask |-> req'[t].ask, sent |-> req'[t].sent,
                           answer |-> req'[t].answer, row |-> req'[t].row, got |-> req'[t].got]
  <2>1. PICK q : q = req[t]
    OBVIOUS
  <2>2. /\ Course(q)
        /\ q = [pc |-> q.pc, ask |-> q.ask, sent |-> q.sent,
                 answer |-> q.answer, row |-> q.row, got |-> q.got]
    BY <2>1 DEF Requests, Shape
  <2>3. CASE q.pc \in {"idle", "done"}
    <3>1. req'[t] = q
      BY <2>1, <2>3 DEF Restart
    <3> QED BY <2>2, <2>3, <3>1 DEF OnItsWay
  <2>4. CASE q.pc \notin {"idle", "done"}
    <3>1. req'[t] = [q EXCEPT !.pc = "cut"]
      BY <2>1, <2>4 DEF Restart
    <3>2. req'[t] = [pc |-> "cut", ask |-> q.ask, sent |-> q.sent,
                     answer |-> q.answer, row |-> q.row, got |-> q.got]
      BY <2>2, <3>1
    <3>3. PICK r : r = req'[t]
      OBVIOUS
    <3>4. Course(r) /\ ~OnItsWay(r)
      BY <2>2, <3>2, <3>3 DEF Course, OnItsWay
    <3> QED BY <3>2, <3>3, <3>4
  <2> QED BY <2>3, <2>4
<1>4. Requests'
  <2>1. req' = [t \in Slots |-> req'[t]]
    BY DEF Restart
  <2>2. Shape'
    BY <1>3, <2>1 DEF Shape
  <2>3. ASSUME NEW t \in Slots PROVE Course(req[t])'
    <3>1. ASSUME NEW q PROVE Settled(q)' = Settled(q)
      <4>1. gate(q.ask.provider, q.answer)' = gate(q.ask.provider, q.answer)
        BY <1>1 DEF gate, Decides, DeniedBlock
      <4> QED BY <4>1 DEF Settled, Rewritten, RoutedTo, Routed, Parsed, Pick, RulesFor, Classify
    <3>2. PICK q : q = req'[t]
      OBVIOUS
    <3>3. Course(q)
      BY <1>3, <3>2
    <3>4. Settled(q)' = Settled(q)
      BY <3>1
    <3> QED BY <1>1, <3>2, <3>3, <3>4 DEF Course, Answered, OnItsWay, Used
  <2> QED BY <2>2, <2>3 DEF Requests
<1>5. Pending' = 0 /\ AtRisk' = 0
  <2>1. PICK c : c = [t \in Slots |-> CostOf(t)']
    OBVIOUS
  <2>2. PICK d : d = [t \in Slots |-> Risk(t)']
    OBVIOUS
  <2>3. \A t \in Slots : CostOf(t)' = 0 /\ Risk(t)' = 0
    BY <1>3 DEF CostOf, Risk, OnItsWay
  <2>4. SumFunction(c) = 0 /\ SumFunction(d) = 0
    BY <2>1, <2>2, <2>3, NoSum
  <2> QED BY <2>1, <2>2, <2>4 DEF Pending, AtRisk
<1>6. Spent' + forgotten' = ledger[today] /\ Spent' \in Nat /\ forgotten' \in Nat
      /\ counter' \in [day : 0..today \cup {Never}, cost : Nat, anonymous : Nat]
      /\ slate' \in BOOLEAN /\ (~slate' => forgotten' = 0 /\ Spent' = ledger[today] /\ ~slate)
  <2>1. CASE counter' = Hydrated /\ forgotten' = 0 /\ UNCHANGED slate
    BY <1>1, <1>2, <2>1 DEF Hydrated, Spent, Counts
  <2>2. CASE counter' = CleanSlate /\ forgotten' = ledger[today] /\ slate' = TRUE
    BY <1>1, <1>2, <2>2 DEF CleanSlate, Spent, Counts
  <2> QED BY <1>1, <2>1, <2>2
<1>7. Counts'
  BY <1>1, <1>6 DEF Counts
<1>8. Books'
  BY <1>1, <1>2, <1>5, <1>6 DEF Books
<1>9. Headroom'
  <2>1. limits' = limits /\ Ceiling' = Ceiling
    BY <1>1 DEF Ceiling
  <2>2. limits.daily > 0 /\ ~slate => ledger[today] <= Ceiling
    BY LedgerBelowCeiling
  <2>3. ~slate' => Spent' + AtRisk' = ledger[today]
    BY <1>2, <1>5, <1>6
  <2> QED BY <1>6, <2>1, <2>2, <2>3, Zenon DEF Headroom
<1> QED BY <1>4, <1>7, <1>8, <1>9

(* The invariant holds in the beginning.                                     *)
LEMMA InitStep == Init => IInv
<1> SUFFICES ASSUME Init PROVE IInv
  OBVIOUS
<1>1. Counts
  <2>1. 0 \in 0..MaxDay /\ 0 \in 0..MaxRequests
    BY Constants
  <2>2. counter \in [day : 0..today \cup {Never}, cost : Nat, anonymous : Nat]
    BY DEF Init
  <2>3. ledger \in [0..MaxDay -> Nat] /\ \A d \in 0..MaxDay : d > today => ledger[d] = 0
    BY DEF Init
  <2>4. slate \in BOOLEAN
    BY DEF Init
  <2> QED BY <2>1, <2>2, <2>3, <2>4 DEF Init, Counts
<1>2. \A s \in Slots : Course(req[s]) /\ ~OnItsWay(req[s])
  BY DEF Init, Course, OnItsWay
<1>3. Requests
  BY <1>2 DEF Init, Requests, Shape
<1>4. Pending = 0 /\ AtRisk = 0
  <2>1. PICK c : c = [t \in Slots |-> CostOf(t)]
    OBVIOUS
  <2>2. PICK d : d = [t \in Slots |-> Risk(t)]
    OBVIOUS
  <2>3. \A t \in Slots : CostOf(t) = 0 /\ Risk(t) = 0
    BY <1>2 DEF CostOf, Risk, OnItsWay
  <2>4. SumFunction(c) = 0 /\ SumFunction(d) = 0
    BY <2>1, <2>2, <2>3, NoSum
  <2> QED BY <2>1, <2>2, <2>4 DEF Pending, AtRisk
<1>5. Spent = 0 /\ ledger[today] = 0 /\ forgotten = 0 /\ unlogged = 0
  BY Constants DEF Init, Spent
<1>6. Books
  BY <1>4, <1>5 DEF Books
<1>7. Headroom
  BY <1>1, <1>4, <1>5, Constants DEF Headroom, Ceiling, Counts
<1> QED BY <1>1, <1>3, <1>6, <1>7 DEF IInv

(* Every step keeps the invariant.                                           *)
LEMMA NextStep == IInv /\ [Next]_vars => IInv'
<1> SUFFICES ASSUME IInv, [Next]_vars PROVE IInv'
  OBVIOUS
<1>1. ASSUME NEW s \in Slots, Receive(s) PROVE IInv'
  BY <1>1, ReceiveStep
<1>2. ASSUME NEW s \in Slots, Answer(s) PROVE IInv'
  BY <1>2, AnswerStep
<1>3. ASSUME NEW s \in Slots, LogUsage(s) PROVE IInv'
  BY <1>3, LogUsageStep
<1>4. ASSUME NEW s \in Slots, Charge(s) PROVE IInv'
  BY <1>4, ChargeStep
<1>5. CASE Midnight
  BY <1>5, MidnightStep
<1>6. CASE Restart
  BY <1>6, RestartStep
<1>7. CASE UNCHANGED vars
  <2>1. UNCHANGED <<policy, limits, req, counter, ledger, today, served>>
        /\ UNCHANGED <<unlogged, forgotten, slate>>
    BY <1>7 DEF vars, history
  <2>2. Counts'
    BY <2>1 DEF IInv, Counts
  <2>3. ASSUME NEW q PROVE Course(q)' = Course(q)
    <3>1. gate(q.ask.provider, q.answer)' = gate(q.ask.provider, q.answer)
      BY <2>1 DEF gate, Decides, DeniedBlock
    <3>2. Settled(q)' = Settled(q)
      BY <3>1 DEF Settled, Rewritten, RoutedTo, Routed, Parsed, Pick, RulesFor, Classify
    <3> QED BY <2>1, <3>2 DEF Course, Answered, OnItsWay, Used
  <2>4. ASSUME NEW t \in Slots PROVE Course(req[t])'
    <3>1. PICK q : q = req[t]
      OBVIOUS
    <3>2. Course(q)'
      BY <2>3, <3>1 DEF IInv, Requests
    <3> QED BY <2>1, <3>1, <3>2 DEF Course, Answered, OnItsWay, Used
  <2>5. Requests'
    BY <2>1, <2>4 DEF IInv, Requests, Shape
  <2>6. Pending' = Pending /\ AtRisk' = AtRisk
    BY <2>1 DEF Pending, AtRisk, CostOf, Risk
  <2>7. Spent' = Spent /\ Ceiling' = Ceiling
    BY <2>1 DEF Spent, Ceiling
  <2>8. Books' /\ Headroom'
    BY <2>1, <2>6, <2>7 DEF IInv, Books, Headroom
  <2> QED BY <2>2, <2>5, <2>8 DEF IInv
<1> QED BY <1>1, <1>2, <1>3, <1>4, <1>5, <1>6, <1>7 DEF Next

(* The invariant holds in every behaviour of the proxy.                      *)
THEOREM Invariant == Spec => []IInv
<1>1. Init => IInv
  BY InitStep
<1>2. IInv /\ [Next]_vars => IInv'
  BY NextStep
<1> QED BY <1>1, <1>2, PTL DEF Spec

-----------------------------------------------------------------------------
(* What follows *)

(* Every variable keeps its type, and what is read as a whole was sent.      *)
THEOREM TypeCorrect == Spec => []TypeOK
<1>1. IInv => TypeOK
  <2> SUFFICES ASSUME IInv PROVE TypeOK
    OBVIOUS
  <2>1. today \in 0..MaxDay /\ counter \in [day : 0..MaxDay \cup {Never}, cost : Nat, anonymous : Nat]
    BY Constants DEF IInv, Counts
  <2>2. ASSUME NEW s \in Slots
        PROVE  /\ req[s].pc \in {"idle", "sent", "read", "logged", "done", "cut"}
               /\ req[s].row \in 0..MaxDay \cup {NoRow}
               /\ req[s].pc \in {"read", "logged"} => req[s].sent # Absent /\ ~req[s].answer.stream
               /\ req[s].pc = "done" => req[s].got.status \in {200, 400, 502}
    <3>1. Course(req[s])
      BY DEF IInv, Requests
    <3>2. req[s].row \in 0..MaxDay \cup {NoRow}
      BY <2>1, <3>1, Constants DEF Course
    <3>3. req[s].pc \in {"read", "logged"} => req[s].sent # Absent /\ ~req[s].answer.stream
      BY <3>1, AbsentAssumption DEF Course, OnItsWay, Answered
    <3> QED BY <3>1, <3>2, <3>3 DEF Course, Settled
  <2> QED BY <2>1, <2>2 DEF IInv, Counts, TypeOK
<1> QED BY <1>1, Invariant, PTL

(* The budget's counter and the usage ledger agree on what the day has cost, *)
(* apart from what is named: rows not charged yet, rows a failed hydration   *)
(* left out, charges without a row of the day.                               *)
THEOREM CounterAndLedgerAgree == Spec => []CounterFollowsLedger
<1>1. IInv => CounterFollowsLedger
  BY DEF IInv, Books, Spent, Pending, CounterFollowsLedger
<1> QED BY <1>1, Invariant, PTL

(* However many clients' requests overlap, the day costs no more than its    *)
(* limit and one answer for each client.                                     *)
THEOREM OverrunIsBounded == Spec => []OverrunBounded
<1>1. IInv => OverrunBounded
  <2> SUFFICES ASSUME IInv, limits.daily > 0, counter.day = today, ~slate
               PROVE  counter.cost <= limits.daily + Cardinality(Slots) * MaxCost
    BY DEF OverrunBounded
  <2>1. Spent + AtRisk <= Ceiling /\ Spent = counter.cost
    BY DEF IInv, Headroom, Spent
  <2>2. AtRisk \in Nat /\ counter.cost \in Nat /\ limits.daily \in Nat
    BY PendingBelowRisk, Constants DEF IInv, RiskBounded, Counts
  <2>3. Ceiling \in Nat
    BY <2>2, Constants DEF Ceiling
  <2>4. counter.cost <= Ceiling
    BY <2>1, <2>2, <2>3
  <2> QED BY <2>4 DEF Ceiling
<1> QED BY <1>1, Invariant, PTL

(* No whole answer of Anthropic or OpenAI that parses as JSON brings its     *)
(* client a call that the policy denies, and each brings all the rest; any   *)
(* other whole answer is brought as it came.                                 *)
THEOREM DeniedCallsStayBehind == Spec => []DeniedStaysBehind
<1>1. IInv => DeniedStaysBehind
  <2> DEFINE Held(r) ==
        /\ Len(r.got.blocks) = Len(r.answer.blocks)
        /\ \A i \in DOMAIN r.got.blocks :
             IF Decides(r.ask.provider, r.answer) /\ DeniedBlock(r.answer.blocks[i])
             THEN r.got.blocks[i] = Refusal
             ELSE r.got.blocks[i] = r.answer.blocks[i]
  <2> SUFFICES ASSUME IInv, NEW s \in Slots, WholeAnswer(req[s])
               PROVE  Held(req[s])
    BY Zenon DEF DeniedStaysBehind
  <2>0. PICK r : r = req[s]
    OBVIOUS
  <2>1. r.answer \in Answers /\ r.got.blocks = gate(r.ask.provider, r.answer)
    BY <2>0 DEF WholeAnswer, IInv, Requests, Course, Settled
  <2>2. r.answer.blocks \in Seq(Range(r.answer.blocks))
    BY <2>1, ProxyAssumption, Zenon
  <2>3. DOMAIN r.answer.blocks = 1..Len(r.answer.blocks) /\ Len(r.answer.blocks) \in Nat
    BY <2>2
  <2>4. PICK n \in Nat : n = Len(r.answer.blocks)
    BY <2>3
  <2>5. /\ r.got.blocks = [i \in 1..n |-> r.got.blocks[i]]
        /\ DOMAIN r.got.blocks = 1..n
        /\ \A i \in 1..n :
             IF Decides(r.ask.provider, r.answer) /\ DeniedBlock(r.answer.blocks[i])
             THEN r.got.blocks[i] = Refusal
             ELSE r.got.blocks[i] = r.answer.blocks[i]
    BY <2>1, <2>3, <2>4 DEF gate
  <2>6. Len(r.got.blocks) = n
    BY <2>5
  <2>7. Held(r)
    BY <2>4, <2>5, <2>6
  <2> QED BY <2>0, <2>7
<1> QED BY <1>1, Invariant, PTL

(* An answer without the header is one to the client's own request, all its  *)
(* fields included; with it, one to the model that the header names.         *)
THEOREM RoutingShows == Spec => []RoutingIsShown
<1>1. IInv => RoutingIsShown
  <2> SUFFICES ASSUME IInv, NEW s \in Slots, NEW r, r = req[s],
                      r.pc = "done", r.got.status = 200
               PROVE  IF r.got.routed = Absent
                      THEN r.sent = [model |-> r.ask.model, other |-> r.ask.other]
                      ELSE r.sent.model = r.got.routed
    BY DEF RoutingIsShown
  <2>1. r.ask \in Asks /\ r.sent = Rewritten(r.ask) /\ r.got.routed = RoutedTo(r.ask)
    BY DEF IInv, Requests, Course, Settled
  <2>2. Pick(r.ask) # Absent
    BY ONLY <2>1, AbsentAssumption
  <2> QED BY <2>1, <2>2 DEF Rewritten, RoutedTo
<1> QED BY <1>1, Invariant, PTL
=============================================================================
