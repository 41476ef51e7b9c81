--------------------------- MODULE JournalProofs ---------------------------
(***************************************************************************)
(* Proofs about Journal, for any hooks, runs, sessions and number of cuts: *)
(* the types; that no more rows are lost to the readers than writes        *)
(* failed; that the list of runs and the directory check of a resume go by *)
(* the same row; and that the three scans of the eventlog and its tail     *)
(* tell one story.  That the tail shows a row in the end is a matter of    *)
(* fairness and is left to TLC.                                            *)
(***************************************************************************)
EXTENDS Journal, SequenceTheorems, FiniteSetTheorems, WellFoundedInduction, TLAPS

-----------------------------------------------------------------------------
(* The inductive invariant                                                 *)

Pieces == [row: Rows, size: {"part", "most", "body", "line"}]

Tails == [on: BOOLEAN, from: Nat, at: Nat, ate: {"", "part", "most", "body"}, shown: Seq(Rows)]

EndedRuns == {r \in Runs : ended[r] # 0}

(* The append that a row is of its writer's. *)
Rank(kind) == IF kind = "end" THEN 2 ELSE 1

(* No writer is through with more than it has to append, and a run has its  *)
(* end when its start is done.                                              *)
ProgressInv ==
  /\ tail \in Tails
  /\ \A w \in Writers : at[w] <= Len(Program(w))
  /\ \A r \in Runs : ended[r] # 0 => at[r] > 0
  /\ \A r \in Runs : ended[r] <= Cardinality(EndedRuns)

(* What the writer in the middle of a write has written: a part of its next *)
(* row, at the end of the file.                                             *)
BusyInv ==
  busy # None =>
    /\ ~Finished(busy) /\ busy \notin dead
    /\ log # <<>>
    /\ \E size \in {"part", "most"} :
         log[Len(log)] = Piece(Row(busy, Program(busy)[at[busy] + 1]), size)
    /\ busy \in Runs /\ at[busy] = 1 => ended[busy] # 0

(* A piece is of a row its writer is through with, or died over, or is at.  *)
Written(i) ==
  LET row == RowAt(i)
      w == row.writer
      rank == Rank(row.kind)
  IN  /\ row.kind = "end" => w \in Runs /\ row.ended = ended[w] /\ ended[w] # 0
      /\ file = "index" => w \in Runs /\ row.kind \in {"start", "end"}
      /\ \/ rank <= at[w]
         \/ rank = at[w] + 1 /\ w \in dead
         \/ rank = at[w] + 1 /\ w = busy /\ i = Len(log)

WrittenInv == \A i \in DOMAIN log : Written(i)

(* A whole line is a row whose append returned nil. *)
AckedInv ==
  /\ \A i \in DOMAIN log : log[i].size = "line" => RowAt(i) \in acked
  /\ \A row \in acked : \E i \in DOMAIN log : log[i].size = "line" /\ RowAt(i) = row

(* The lines that stay unfinished are as many as writes failed, at most. *)
Unfinished == {i \in DOMAIN log : log[i].size # "line" /\ ~(busy # None /\ i = Len(log))}

CutInv == Cardinality(Unfinished) <= cuts

EndRow(i, id) ==
  i \in DOMAIN log /\ RowAt(i).kind = "end" /\ Session[RowAt(i).writer] = id

(* The end rows of an id stand in the order of their times, and a run that   *)
(* has yet to log its end has a later one, unless two runs of the id were in *)
(* flight at once.                                                           *)
OrderInv ==
  file = "index" => \A id \in Ids \ overlap : \A i \in DOMAIN log : EndRow(i, id) =>
    /\ \A j \in DOMAIN log : i < j /\ EndRow(j, id) => RowAt(i).ended < RowAt(j).ended
    /\ \A r \in Runs : /\ Session[r] = id /\ r # RowAt(i).writer
                       /\ ended[r] # 0 /\ at[r] = 1 /\ r \notin dead
                       => RowAt(i).ended < ended[r]

(* What the tail shows it read, from the front to the back. *)
ShownInv ==
  /\ \A k \in DOMAIN tail.shown : \E i \in DOMAIN log :
       i <= tail.at /\ RowAt(i) = tail.shown[k]
  /\ \A j, k \in DOMAIN tail.shown : j < k =>
       \E i, l \in DOMAIN log : /\ i < l /\ l <= tail.at
                                /\ RowAt(i) = tail.shown[j]
                                /\ RowAt(l) = tail.shown[k]

JournalInv ==
  /\ TypeOK /\ ProgressInv /\ BusyInv /\ WrittenInv
  /\ AckedInv /\ CutInv /\ OrderInv /\ ShownInv

-----------------------------------------------------------------------------
(* The processes and their programs *)

(* There are finitely many runs, and a set of them counts less than all of   *)
(* them when one is not in it.                                              *)
LEMMA CountOfRuns ==
  /\ IsFiniteSet(Runs) /\ Cardinality(Runs) \in Nat
  /\ \A S \in SUBSET Runs : /\ IsFiniteSet(S) /\ Cardinality(S) \in 0..Cardinality(Runs)
                            /\ S # Runs => Cardinality(S) < Cardinality(Runs)
<1>1. IsFiniteSet(Hooks \cup Runs) /\ Runs \in SUBSET (Hooks \cup Runs)
  BY JournalAssumption
<1>2. IsFiniteSet(Runs)
  BY <1>1, FS_Subset
<1>3. Cardinality(Runs) \in Nat
  BY <1>2, FS_CardinalityType
<1>4. ASSUME NEW S \in SUBSET Runs
      PROVE  /\ IsFiniteSet(S) /\ Cardinality(S) \in 0..Cardinality(Runs)
             /\ S # Runs => Cardinality(S) < Cardinality(Runs)
  <2>1. /\ IsFiniteSet(S) /\ Cardinality(S) <= Cardinality(Runs)
        /\ Cardinality(Runs) = Cardinality(S) => Runs = S
    BY <1>2, FS_Subset
  <2>2. Cardinality(S) \in Nat
    BY <2>1, FS_CardinalityType
  <2> QED BY <1>3, <2>1, <2>2
<1> QED BY <1>2, <1>3, <1>4

(* The k-th append of a program has rank k; only runs write ends, and to     *)
(* the index only runs write, a start and an end.                           *)
LEMMA ProgramFacts ==
  ASSUME file \in Files, NEW w \in Writers
  PROVE  /\ Len(Program(w)) \in 0..2
         /\ file = "index" /\ w \in Runs => Len(Program(w)) = 2
         /\ \A k \in 1..Len(Program(w)) :
              /\ Program(w)[k] \in {"decision", "start", "end"}
              /\ Rank(Program(w)[k]) = k
              /\ Program(w)[k] = "end" => w \in Runs
              /\ file = "index" => w \in Runs /\ Program(w)[k] \in {"start", "end"}
<1>1. Program(w) \in {<<>>, <<"decision">>, <<"start", "end">>}
  BY Zenon DEF Program
<1>2. Program(w) = <<"start", "end">> => w \in Runs
  BY JournalAssumption DEF Program, Writers
<1>3. file = "index" => Program(w) = IF w \in Runs THEN <<"start", "end">> ELSE <<>>
  BY DEF Program
<1>4. CASE Program(w) = <<>>
  BY <1>3, <1>4 DEF Rank
<1>5. CASE Program(w) = <<"decision">>
  BY <1>3, <1>5 DEF Rank
<1>6. CASE Program(w) = <<"start", "end">>
  BY <1>2, <1>3, <1>6 DEF Rank
<1> QED BY <1>1, <1>4, <1>5, <1>6

(* What a process appends next is a row. *)
LEMMA RowIsARow ==
  ASSUME TypeOK, NEW w \in Writers, ~Finished(w), at[w] <= Len(Program(w))
  PROVE  /\ at[w] + 1 \in 1..Len(Program(w))
         /\ Row(w, Program(w)[at[w] + 1]) \in Rows
<1>1. file \in Files /\ at[w] \in 0..2 /\ ended \in [Runs -> 0..Cardinality(Runs)]
  BY DEF TypeOK
<1>2. at[w] + 1 \in 1..Len(Program(w))
  BY <1>1, ProgramFacts DEF Finished
<1>3. PICK kind : kind = Program(w)[at[w] + 1]
  OBVIOUS
<1>4. kind \in {"decision", "start", "end"} /\ (kind = "end" => w \in Runs)
  BY <1>1, <1>2, <1>3, ProgramFacts
<1>5. Row(w, kind) \in Rows
  BY <1>1, <1>4, CountOfRuns DEF Row, Rows
<1> QED BY <1>2, <1>3, <1>5

(* Nobody is None. *)
LEMMA NoneIsNoWriter == \A w \in Writers : w # None
BY JournalAssumption DEF Writers

-----------------------------------------------------------------------------
(* What an action does to the file *)

Appended(piece) ==
  /\ log' \in Seq(Pieces)
  /\ Len(log') = Len(log) + 1
  /\ log'[Len(log) + 1] = piece
  /\ \A i \in 1..Len(log) : log'[i] = log[i]

Regrown(size) ==
  /\ log' \in Seq(Pieces)
  /\ log # <<>>
  /\ Len(log') = Len(log)
  /\ log'[Len(log)] = Piece(RowAt(Len(log)), size)
  /\ \A i \in 1..Len(log) : i # Len(log) => log'[i] = log[i]

(* The positions of the file and what is there. *)
LEMMA LogFacts ==
  ASSUME TypeOK
  PROVE  /\ log \in Seq(Pieces) /\ Len(log) \in Nat /\ DOMAIN log = 1..Len(log)
         /\ \A i \in 1..Len(log) : log[i] \in Pieces /\ RowAt(i) \in Rows
                                   /\ log[i].size \in {"part", "most", "body", "line"}
         /\ log # <<>> => Len(log) > 0
<1>1. log \in Seq(Pieces)
  BY DEF TypeOK, Pieces
<1>2. Len(log) \in Nat /\ DOMAIN log = 1..Len(log) /\ log \in [1..Len(log) -> Pieces]
  BY <1>1, LenProperties
<1>3. \A i \in 1..Len(log) : log[i] \in Pieces
  BY <1>2
<1>4. \A i \in 1..Len(log) : RowAt(i) \in Rows /\ log[i].size \in {"part", "most", "body", "line"}
  BY <1>3 DEF Pieces, RowAt
<1>5. log # <<>> => Len(log) > 0
  BY <1>1, EmptySeq
<1> QED BY <1>1, <1>2, <1>3, <1>4, <1>5

(* A begun write is a piece more. *)
LEMMA BeginAppends ==
  ASSUME TypeOK, ProgressInv, NEW w \in Writers, Begin(w)
  PROVE  \E size \in {"part", "most"} : Appended(Piece(Row(w, Program(w)[at[w] + 1]), size))
<1>1. Row(w, Program(w)[at[w] + 1]) \in Rows
  BY RowIsARow DEF ProgressInv, Begin
<1>2. PICK size \in {"part", "most"} :
        log' = Append(log, Piece(Row(w, Program(w)[at[w] + 1]), size))
  BY DEF Begin, Halves
<1>3. PICK piece : piece = Piece(Row(w, Program(w)[at[w] + 1]), size)
  OBVIOUS
<1>4. piece \in Pieces
  BY <1>1, <1>3 DEF Piece, Pieces
<1>5. log' = Append(log, piece) /\ log \in Seq(Pieces)
  BY <1>2, <1>3, LogFacts
<1>6. Appended(piece)
  BY ONLY <1>4, <1>5, AppendProperties DEF Appended
<1> QED BY <1>3, <1>6

(* A write that ends leaves its piece, perhaps in another size. *)
LEMMA GrowRegrows ==
  ASSUME TypeOK, log # <<>>, NEW size \in {"part", "most", "body", "line"}, Grow(size)
  PROVE  Regrown(size)
<1>1. /\ log \in Seq(Pieces) /\ Len(log) \in 1..Len(log) /\ log[Len(log)] \in Pieces
      /\ DOMAIN log = 1..Len(log)
  BY LogFacts
<1>2. PICK piece : piece = Piece(RowAt(Len(log)), size)
  OBVIOUS
<1>3. [log[Len(log)] EXCEPT !.size = size] = piece /\ piece \in Pieces
  BY <1>1, <1>2 DEF Pieces, Piece, RowAt
<1>4. log' = [log EXCEPT ![Len(log)] = piece]
  BY <1>1, <1>3 DEF Grow
<1>5. /\ log' \in Seq(Pieces) /\ Len(log') = Len(log)
      /\ \A i \in 1..Len(log) : log'[i] = IF i = Len(log) THEN piece ELSE log[i]
  BY <1>1, <1>3, <1>4, ExceptSeq
<1> QED BY <1>1, <1>2, <1>5 DEF Regrown

(* One that stops short leaves it without a newline. *)
LEMMA CutRegrows ==
  ASSUME TypeOK, log # <<>>, NEW w \in Writers, Cut(w)
  PROVE  \E size \in {"part", "most", "body"} : Regrown(size)
<1>1. PICK size \in {"part", "most", "body"} : Grow(size)
  BY DEF Cut, Halves
<1> QED BY <1>1, GrowRegrows

-----------------------------------------------------------------------------
(* Types and progress *)

(* They are right in the beginning. *)
LEMMA TypeInit == Init => TypeOK /\ ProgressInv
<1> SUFFICES ASSUME Init PROVE TypeOK /\ ProgressInv
  OBVIOUS
<1>1. log = <<>> /\ Len(log) = 0 /\ log \in Seq(Pieces)
  BY EmptySeq DEF Init
<1>2. /\ Cardinality(Runs) \in Nat /\ Cardinality(EndedRuns) \in 0..Cardinality(Runs)
      /\ MaxCuts \in Nat
  BY CountOfRuns, JournalAssumption DEF EndedRuns
<1>3. file \in Files /\ \A w \in Writers : Len(Program(w)) \in 0..2
  BY ProgramFacts DEF Init
<1>4. <<>> \in Seq(Rows)
  BY EmptySeq
<1>5. /\ tail = [on |-> FALSE, from |-> 0, at |-> 0, ate |-> "", shown |-> <<>>]
      /\ at = [w \in Writers |-> 0] /\ ended = [r \in Runs |-> 0]
  BY DEF Init
<1>6. at \in [Writers -> 0..2] /\ ended \in [Runs -> 0..Cardinality(Runs)]
  <2>1. PICK n : n = Cardinality(Runs)
    OBVIOUS
  <2>2. 0 \in 0..2 /\ 0 \in 0..n
    BY <1>2, <2>1
  <2> QED BY <1>5, <2>1, <2>2
<1>7. TypeOK
  <2>1. /\ tail.on = FALSE /\ tail.ate = "" /\ tail.at = 0 /\ tail.from = 0
        /\ tail.shown = <<>>
    BY <1>5
  <2>2. 0 \in 0..Len(log) /\ 0 \in 0..MaxCuts
    BY <1>1, <1>2
  <2> QED BY <1>1, <1>4, <1>6, <2>1, <2>2 DEF Init, TypeOK, Pieces
<1>8. tail \in Tails
  BY <1>4, <1>5 DEF Tails
<1>9. ASSUME NEW w \in Writers PROVE at[w] <= Len(Program(w))
  <2>1. PICK n : n = Len(Program(w))
    OBVIOUS
  <2>2. n \in 0..2
    BY <1>3, <2>1
  <2>3. at[w] = 0
    BY <1>5
  <2>4. at[w] <= n
    BY <2>2, <2>3
  <2> QED BY <2>1, <2>4
<1>10. \A r \in Runs : ended[r] = 0
  BY <1>5
<1>11. ProgressInv
  BY <1>2, <1>8, <1>9, <1>10 DEF ProgressInv
<1> QED BY <1>7, <1>11

(* What the appends of a program are does not change. *)
LEMMA SameProgram ==
  ASSUME file' = file
  PROVE  \A w : Program(w)' = Program(w)
BY DEF Program

(* The types after a write, when the rest is in order. *)
LEMMA TypeAfterWrite ==
  ASSUME TypeOK, UNCHANGED <<file, ended, tail, split>>,
         log' \in Seq(Pieces), Len(log') \in Nat, Len(log) <= Len(log'),
         busy' \in Writers \cup {None}, at' \in [Writers -> 0..2], dead' \subseteq Writers,
         acked' \subseteq Rows, cuts' \in 0..MaxCuts, overlap' \subseteq Ids
  PROVE  TypeOK'
<1>1. Len(log) \in Nat
  BY LogFacts
<1>2. Rows' = Rows
  BY DEF Rows
<1>3. tail.at \in 0..Len(log) /\ tail.from \in 0..Len(log)
  BY DEF TypeOK
<1>4. tail.at \in 0..Len(log') /\ tail.from \in 0..Len(log')
  BY <1>1, <1>3
<1> QED BY <1>2, <1>4 DEF TypeOK, Pieces

(* The progress after a write. *)
LEMMA ProgressAfterWrite ==
  ASSUME TypeOK, ProgressInv, UNCHANGED <<file, ended, tail>>, NEW w \in Writers,
         \/ at' = at
         \/ ~Finished(w) /\ at' = [at EXCEPT ![w] = @ + 1]
  PROVE  ProgressInv'
<1>1. file \in Files /\ at \in [Writers -> 0..2] /\ \A v \in Writers : Len(Program(v)) \in 0..2
  BY ProgramFacts DEF TypeOK
<1>2. (\A v \in Writers : Program(v)' = Program(v)) /\ EndedRuns' = EndedRuns
  BY SameProgram DEF EndedRuns
<1>3. Runs \subseteq Writers
  BY DEF Writers
<1>4. \A v \in Writers : at'[v] <= Len(Program(v)) /\ at'[v] >= at[v]
  BY <1>1 DEF ProgressInv, Finished
<1>5. \A v \in Writers : (at[v] > 0) => (at'[v] > 0)
  BY <1>1, <1>4
<1> QED BY <1>2, <1>3, <1>4, <1>5 DEF ProgressInv

(* One append more. *)
LEMMA OneMore ==
  ASSUME TypeOK, ProgressInv, NEW w \in Writers, ~Finished(w)
  PROVE  [at EXCEPT ![w] = @ + 1] \in [Writers -> 0..2]
<1>1. PICK n : n = Len(Program(w))
  OBVIOUS
<1>2. file \in Files /\ at \in [Writers -> 0..2] /\ n \in 0..2
  BY <1>1, ProgramFacts DEF TypeOK
<1>3. at[w] <= n /\ at[w] # n
  BY <1>1 DEF ProgressInv, Finished
<1>4. at[w] + 1 \in 0..2
  BY <1>2, <1>3
<1> QED BY <1>2, <1>4

(* A write, begun, ended or left out, keeps the types. *)
LEMMA WriterTypes ==
  ASSUME TypeOK, ProgressInv, BusyInv, NEW w \in Writers,
         Begin(w) \/ Complete(w) \/ Cut(w) \/ Skip(w)
  PROVE  TypeOK' /\ ProgressInv'
<1> USE NoneIsNoWriter
<1>1. /\ Len(log) \in Nat /\ log \in Seq(Pieces)
      /\ log # <<>> => Len(log) > 0 /\ RowAt(Len(log)) \in Rows
  BY LogFacts
<1>2. /\ busy \in Writers \cup {None} /\ at \in [Writers -> 0..2] /\ dead \subseteq Writers
      /\ acked \subseteq Rows /\ cuts \in 0..MaxCuts /\ overlap \subseteq Ids
      /\ MaxCuts \in Nat
  BY JournalAssumption DEF TypeOK
<1>3. CASE Begin(w)
  <2>1. PICK size \in {"part", "most"} : Appended(Piece(Row(w, Program(w)[at[w] + 1]), size))
    BY <1>3, BeginAppends
  <2>2. overlap' \subseteq Ids
    BY <1>2, <1>3 DEF Begin, Ids
  <2>3. TypeOK'
    BY <1>1, <1>2, <1>3, <2>1, <2>2, TypeAfterWrite DEF Begin, Appended
  <2>4. ProgressInv'
    BY <1>3, ProgressAfterWrite DEF Begin
  <2> QED BY <2>3, <2>4
<1>4. CASE Complete(w)
  <2>1. busy = w /\ log # <<>> /\ ~Finished(w)
    BY <1>4 DEF Complete, BusyInv
  <2>2. Regrown("line")
    BY <1>4, <2>1, GrowRegrows DEF Complete
  <2>3. acked' \subseteq Rows
    BY <1>1, <1>2, <1>4, <2>1 DEF Complete, Last, RowAt
  <2>4. at' = [at EXCEPT ![w] = @ + 1]
    BY <1>4 DEF Complete
  <2>5. at' \in [Writers -> 0..2]
    BY <2>1, <2>4, OneMore
  <2>6. TypeOK'
    BY <1>1, <1>2, <1>4, <2>2, <2>3, <2>5, TypeAfterWrite DEF Complete, Regrown
  <2>7. ProgressInv'
    BY <1>4, <2>1, <2>4, ProgressAfterWrite DEF Complete
  <2> QED BY <2>6, <2>7
<1>5. CASE Cut(w)
  <2>1. busy = w /\ log # <<>> /\ ~Finished(w)
    BY <1>5 DEF Cut, BusyInv
  <2>2. PICK size \in {"part", "most", "body"} : Regrown(size)
    BY <1>5, <2>1, CutRegrows
  <2>3. /\ at' = at \/ at' = [at EXCEPT ![w] = @ + 1]
        /\ dead' \subseteq Writers
    BY <1>2, <1>5 DEF Cut, GoesOnOrDies
  <2>4. at' \in [Writers -> 0..2]
    BY <1>2, <2>1, <2>3, OneMore
  <2>5. cuts' \in 0..MaxCuts
    BY <1>2, <1>5 DEF Cut
  <2>6. TypeOK'
    BY <1>1, <1>2, <1>5, <2>2, <2>3, <2>4, <2>5, TypeAfterWrite DEF Cut, Regrown
  <2>7. ProgressInv'
    BY <1>5, <2>1, <2>3, ProgressAfterWrite DEF Cut
  <2> QED BY <2>6, <2>7
<1>6. CASE Skip(w)
  <2>1. ~Finished(w)
    BY <1>6 DEF Skip
  <2>2. /\ at' = at \/ at' = [at EXCEPT ![w] = @ + 1]
        /\ dead' \subseteq Writers
    BY <1>2, <1>6 DEF Skip, GoesOnOrDies
  <2>3. at' \in [Writers -> 0..2]
    BY <1>2, <2>1, <2>2, OneMore
  <2>4. cuts' \in 0..MaxCuts
    BY <1>2, <1>6 DEF Skip
  <2>5. TypeOK'
    BY <1>1, <1>2, <1>6, <2>2, <2>3, <2>4, TypeAfterWrite DEF Skip
  <2>6. ProgressInv'
    BY <1>6, <2>1, <2>2, ProgressAfterWrite DEF Skip
  <2> QED BY <2>5, <2>6
<1> QED BY <1>3, <1>4, <1>5, <1>6

(* An end is later than every other. *)
LEMMA EndIsLatest ==
  ASSUME TypeOK, ProgressInv, NEW w \in Runs, End(w)
  PROVE  /\ ended[w] = 0 /\ ended'[w] \in 1..Cardinality(Runs)
         /\ ended' = [ended EXCEPT ![w] = ended'[w]]
         /\ \A r \in Runs : ended[r] < ended'[w]
         /\ Cardinality(EndedRuns') = ended'[w]
<1>1. /\ ended \in [Runs -> 0..Cardinality(Runs)]
      /\ ended' = [ended EXCEPT ![w] = Cardinality(EndedRuns) + 1] /\ ended[w] = 0
  BY DEF TypeOK, End, EndedRuns
<1>2. EndedRuns \subseteq Runs /\ w \notin EndedRuns /\ EndedRuns # Runs
  BY <1>1 DEF EndedRuns
<1>3. /\ IsFiniteSet(EndedRuns) /\ Cardinality(EndedRuns) \in Nat
      /\ Cardinality(EndedRuns) < Cardinality(Runs) /\ Cardinality(Runs) \in Nat
  BY <1>2, CountOfRuns
<1>4. PICK count : count = Cardinality(EndedRuns)
  OBVIOUS
<1>5. ended'[w] = count + 1 /\ count \in Nat /\ count < Cardinality(Runs)
  BY <1>1, <1>3, <1>4
<1>6. EndedRuns' = EndedRuns \cup {w}
  BY <1>1, <1>5 DEF EndedRuns
<1>7. Cardinality(EndedRuns') = count + 1
  BY <1>2, <1>3, <1>4, <1>6, FS_AddElement
<1>8. \A r \in Runs : ended[r] <= count
  BY <1>4 DEF ProgressInv
<1>9. \A r \in Runs : ended[r] < ended'[w]
  BY <1>1, <1>3, <1>5, <1>8
<1> QED BY <1>1, <1>3, <1>4, <1>5, <1>7, <1>9

(* So does the end of a run. *)
LEMMA EndTypes ==
  ASSUME TypeOK, ProgressInv, NEW w \in Runs, End(w)
  PROVE  TypeOK' /\ ProgressInv'
<1>1. /\ ended \in [Runs -> 0..Cardinality(Runs)] /\ Cardinality(Runs) \in Nat
      /\ ended' = [ended EXCEPT ![w] = ended'[w]] /\ ended'[w] \in 1..Cardinality(Runs)
      /\ (\A r \in Runs : ended[r] < ended'[w])
      /\ Cardinality(EndedRuns') = ended'[w]
  BY EndIsLatest, CountOfRuns DEF TypeOK
<1>2. /\ UNCHANGED <<file, log, busy, at, dead, acked, cuts, overlap, tail, split>>
      /\ at[w] = 1 /\ w \in Writers
  BY DEF End, Writers
<1>3. TypeOK'
  <2>1. ended' \in [Runs -> 0..Cardinality(Runs)]
    BY <1>1
  <2>2. Rows' = Rows
    BY DEF Rows
  <2> QED BY <1>2, <2>1, <2>2 DEF TypeOK
<1>4. ProgressInv'
  <2>1. \A v : Program(v)' = Program(v)
    BY <1>2, SameProgram
  <2>2. \A r \in Runs : ended'[r] <= ended'[w]
    BY <1>1
  <2>3. \A r \in Runs : ended'[r] # 0 => at'[r] > 0
    BY <1>1, <1>2 DEF ProgressInv
  <2>4. tail' \in Tails /\ \A v \in Writers : at'[v] <= Len(Program(v))
    BY <1>2 DEF ProgressInv
  <2>5. \A r \in Runs : ended'[r] <= Cardinality(EndedRuns')
    BY <1>1, <2>2
  <2> QED BY <2>1, <2>3, <2>4, <2>5 DEF ProgressInv
<1> QED BY <1>3, <1>4

-----------------------------------------------------------------------------
(* The tail *)

(* Some number of a set of them is the least. *)
LEMMA LeastNumber ==
  ASSUME NEW X \in SUBSET Nat, X # {}
  PROVE  \E n \in X : \A m \in X : n <= m
<1>1. PICK n \in X : \A m \in X : ~(<<m, n>> \in OpToRel(<, Nat))
  BY NatLessThanWellFounded, WFMin
<1>2. ASSUME NEW m \in X PROVE n <= m
  <2>1. m \in Nat /\ n \in Nat
    BY <1>1
  <2>2. ~(m < n)
    BY <1>1, <2>1 DEF OpToRel
  <2> QED BY <2>1, <2>2
<1> QED BY <1>1, <1>2

(* Min takes the least. *)
LEMMA MinIsLeast ==
  ASSUME NEW X \in SUBSET Nat, X # {}
  PROVE  Min(X) \in X /\ \A m \in X : Min(X) <= m
<1>1. \E n \in X : \A m \in X : n <= m
  BY LeastNumber
<1> QED BY <1>1, Zenon DEF Min

(* The next whole line that the tail has not read. *)
LEMMA NextNewline ==
  ASSUME TypeOK, Newlines # {}
  PROVE  /\ Min(Newlines) \in 1..Len(log) /\ Min(Newlines) > tail.at
         /\ log[Min(Newlines)].size = "line"
<1>1. Newlines \in SUBSET Nat
  BY LogFacts DEF Newlines
<1>2. PICK i : i = Min(Newlines)
  OBVIOUS
<1>3. i \in Newlines
  BY <1>1, <1>2, MinIsLeast
<1>4. i \in 1..Len(log) /\ i > tail.at /\ log[i].size = "line"
  BY <1>3, LogFacts DEF Newlines
<1> QED BY <1>2, <1>4

(* The fields of the tail are what they are taken to be. *)
LEMMA TailFacts ==
  ASSUME TypeOK, ProgressInv
  PROVE  /\ tail \in Tails /\ tail.at \in 0..Len(log) /\ tail.from \in 0..Len(log)
         /\ tail.shown \in Seq(Rows) /\ Len(tail.shown) \in Nat
         /\ DOMAIN tail.shown = 1..Len(tail.shown)
<1>1. tail \in Tails /\ tail.at \in 0..Len(log) /\ tail.from \in 0..Len(log)
  BY DEF TypeOK, ProgressInv
<1>2. tail.shown \in Seq(Rows)
  BY DEF TypeOK
<1> QED BY <1>1, <1>2, LenProperties

(* A tail made field by field. *)
LEMMA MadeTail ==
  ASSUME NEW from \in Nat, NEW pos \in Nat, NEW ate \in {"", "part", "most", "body"}
  PROVE  [on |-> TRUE, from |-> from, at |-> pos, ate |-> ate, shown |-> <<>>] \in Tails
<1>1. <<>> \in Seq(Rows)
  BY EmptySeq
<1> QED BY <1>1 DEF Tails

(* What a poll of the tail makes of it. *)
LEMMA TailNext ==
  ASSUME TypeOK, ProgressInv, TailStart \/ TailPoll
  PROVE  /\ tail' \in Tails /\ tail'.at \in 0..Len(log) /\ tail'.from \in 0..Len(log)
         /\ split' \subseteq Rows
         /\ \/ tail'.shown = <<>>
            \/ tail'.shown = tail.shown /\ tail'.at >= tail.at
            \/ \E i \in 1..Len(log) : /\ i > tail.at /\ tail'.at = i
                                      /\ tail'.shown = Append(tail.shown, RowAt(i))
<1>1. /\ Len(log) \in Nat /\ (log # <<>> => Len(log) > 0)
      /\ \A i \in 1..Len(log) : RowAt(i) \in Rows /\ log[i].size \in {"part", "most", "body", "line"}
  BY LogFacts
<1>2. /\ tail \in Tails /\ tail.at \in 0..Len(log) /\ tail.from \in 0..Len(log)
      /\ tail.shown \in Seq(Rows) /\ DOMAIN log = 1..Len(log)
  BY TailFacts, LogFacts
<1>3. split \subseteq Rows
  BY DEF TypeOK
<1> PICK N \in Nat : N = Len(log)
  BY <1>1
<1>4. CASE TailStart
  <2>1. split' = split
    BY <1>4 DEF TailStart
  <2>2. CASE log = <<>> \/ Last(log).size = "line"
    <3>1. tail' = [on |-> TRUE, from |-> N, at |-> N, ate |-> "", shown |-> <<>>]
      BY <1>4, <2>2 DEF TailStart
    <3>2. tail' \in Tails /\ tail'.from = N /\ tail'.at = N /\ tail'.shown = <<>>
      BY <3>1, MadeTail
    <3>3. N \in 0..Len(log) /\ split' \subseteq Rows
      BY <1>1, <1>3, <2>1
    <3>4. tail'.at \in 0..Len(log) /\ tail'.from \in 0..Len(log)
      BY <3>2, <3>3
    <3> QED BY ONLY <3>2, <3>3, <3>4
  <2>3. CASE ~(log = <<>> \/ Last(log).size = "line")
    <3>1. PICK size : size = log[N].size
      OBVIOUS
    <3>2. tail' = [on |-> TRUE, from |-> N, at |-> N - 1, ate |-> size, shown |-> <<>>]
      BY <1>4, <2>3, <3>1 DEF TailStart, Last
    <3>3. N > 0
      BY <1>1, <2>3
    <3>4. size \in {"part", "most", "body"}
      BY <1>1, <2>3, <3>1, <3>3 DEF Last
    <3>5. N - 1 \in Nat /\ N - 1 \in 0..N
      BY <3>3
    <3>6. tail' \in Tails /\ tail'.from = N /\ tail'.at = N - 1 /\ tail'.shown = <<>>
      BY <3>2, <3>4, <3>5, MadeTail
    <3>7. /\ N \in 0..Len(log) /\ N - 1 \in 0..Len(log)
          /\ split' \subseteq Rows
      BY <1>1, <1>3, <2>1, <3>3
    <3>8. tail'.at \in 0..Len(log) /\ tail'.from \in 0..Len(log)
      BY <3>6, <3>7
    <3> QED BY ONLY <3>6, <3>7, <3>8
  <2> QED BY <2>2, <2>3
<1>5. CASE TailMeetsEnd
  <2>1. N > tail.at /\ N > 0
    BY <1>2, <1>5 DEF TailMeetsEnd
  <2>2. log[N].size # "line"
    BY <1>2, <1>5, <2>1 DEF TailMeetsEnd, Newlines
  <2>3. PICK size : size = log[N].size
    OBVIOUS
  <2>4. size \in {"part", "most", "body"}
    BY <1>1, <2>1, <2>2, <2>3
  <2>5. tail' = [on |-> tail.on, from |-> tail.from, at |-> N - 1, ate |-> size,
                 shown |-> tail.shown]
    <3>1. tail' = [tail EXCEPT !.at = N - 1, !.ate = size]
      BY <1>5, <2>3 DEF TailMeetsEnd, Last
    <3> QED BY <1>2, <3>1 DEF Tails
  <2>6. N - 1 \in Nat /\ N - 1 \in 0..N /\ N - 1 >= tail.at
    BY <1>2, <2>1
  <2>7. split' \subseteq Rows
    BY <1>1, <1>3, <1>5, <2>1 DEF TailMeetsEnd
  <2>8. /\ tail' \in Tails /\ tail'.from = tail.from /\ tail'.at = N - 1
        /\ tail'.shown = tail.shown
    <3>1. tail.on \in BOOLEAN /\ tail.from \in Nat
      BY <1>2 DEF Tails
    <3>2. tail' \in Tails
      BY <1>2, <2>4, <2>5, <2>6, <3>1 DEF Tails
    <3>3. tail'.from = tail.from /\ tail'.at = N - 1 /\ tail'.shown = tail.shown
      BY <2>5
    <3> QED BY <3>2, <3>3
  <2> QED BY <1>2, <2>6, <2>7, <2>8
<1>6. CASE TailReadsLine
  <2>1. PICK i : i = Min(Newlines)
    OBVIOUS
  <2>2. i \in 1..N /\ i > tail.at /\ i \in Nat
    <3>1. i \in 1..N /\ i > tail.at
      BY <1>6, <2>1, NextNewline DEF TailReadsLine
    <3> QED BY <3>1
  <2>3. PICK shown : shown = IF LineParses(i) THEN Append(tail.shown, RowAt(i)) ELSE tail.shown
    OBVIOUS
  <2>4. shown \in Seq(Rows)
    BY <1>1, <1>2, <2>2, <2>3, AppendProperties
  <2>5. tail' = [on |-> tail.on, from |-> tail.from, at |-> i, ate |-> "", shown |-> shown]
    BY <1>2, <1>6, <2>1, <2>3 DEF TailReadsLine, Tails
  <2>6. tail' \in Tails /\ tail'.from = tail.from /\ tail'.at = i /\ tail'.shown = shown
    <3>1. tail.on \in BOOLEAN /\ tail.from \in Nat
      BY <1>2 DEF Tails
    <3>2. tail' \in Tails
      BY <2>2, <2>4, <2>5, <3>1 DEF Tails
    <3>3. tail'.from = tail.from /\ tail'.at = i /\ tail'.shown = shown
      BY <2>5
    <3> QED BY <3>2, <3>3
  <2>7. split' = split
    BY <1>6 DEF TailReadsLine
  <2>8. tail'.at \in 0..Len(log) /\ tail'.from \in 0..Len(log) /\ tail'.at >= tail.at
    BY <1>2, <2>2, <2>6
  <2>9. CASE LineParses(i)
    <3>1. tail'.shown = Append(tail.shown, RowAt(i))
      BY <2>3, <2>6, <2>9
    <3> QED BY <1>3, <2>2, <2>6, <2>7, <2>8, <3>1
  <2>10. CASE ~LineParses(i)
    BY <1>3, <2>3, <2>6, <2>7, <2>8, <2>10
  <2> QED BY <2>9, <2>10
<1> QED BY <1>4, <1>5, <1>6 DEF TailPoll

(* What the tail does keeps the types. *)
LEMMA TailTypes ==
  ASSUME TypeOK, ProgressInv, TailStart \/ TailPoll
  PROVE  TypeOK' /\ ProgressInv'
<1>1. UNCHANGED writers
  BY DEF TailStart, TailPoll, TailMeetsEnd, TailReadsLine
<1>2. UNCHANGED <<file, log, busy, at, dead, ended, acked, cuts, overlap>>
  BY <1>1 DEF writers
<1>3. /\ tail' \in Tails /\ tail'.at \in 0..Len(log) /\ tail'.from \in 0..Len(log)
      /\ split' \subseteq Rows
  BY TailNext
<1>4. Rows' = Rows /\ EndedRuns' = EndedRuns /\ \A w : Program(w)' = Program(w)
  BY <1>2, SameProgram DEF Rows, EndedRuns
<1>5. tail'.on \in BOOLEAN /\ tail'.ate \in {"", "part", "most", "body"} /\ tail'.shown \in Seq(Rows)
  BY <1>3 DEF Tails
<1>6. TypeOK'
  BY <1>2, <1>3, <1>4, <1>5 DEF TypeOK
<1>7. Tails' = Tails
  BY <1>4 DEF Tails
<1>8. ProgressInv'
  BY <1>2, <1>3, <1>4, <1>7 DEF ProgressInv
<1> QED BY <1>6, <1>8

(* What every action is. *)
LEMMA NextIs ==
  ASSUME Next
  PROVE  \/ \E w \in Writers : Begin(w) \/ Complete(w) \/ Cut(w) \/ Skip(w)
         \/ \E w \in Runs : End(w)
         \/ TailStart \/ TailPoll
BY DEF Next, End

(* Every step keeps the types. *)
LEMMA TypeStep ==
  TypeOK /\ ProgressInv /\ BusyInv /\ [Next]_vars => TypeOK' /\ ProgressInv'
<1> SUFFICES ASSUME TypeOK, ProgressInv, BusyInv, [Next]_vars PROVE TypeOK' /\ ProgressInv'
  OBVIOUS
<1>1. CASE Next
  BY <1>1, NextIs, WriterTypes, EndTypes, TailTypes
<1>2. CASE UNCHANGED vars
  <2>1. UNCHANGED <<file, log, busy, at, dead, ended, acked, cuts, overlap, tail, split>>
    BY <1>2 DEF vars, writers
  <2>2. /\ Rows' = Rows /\ EndedRuns' = EndedRuns /\ Tails' = Tails
        /\ \A w : Program(w)' = Program(w)
    BY <2>1, SameProgram DEF Rows, EndedRuns, Tails
  <2>3. TypeOK'
    BY <2>1, <2>2 DEF TypeOK
  <2>4. ProgressInv'
    BY <2>1, <2>2 DEF ProgressInv
  <2> QED BY <2>3, <2>4
<1> QED BY <1>1, <1>2

-----------------------------------------------------------------------------
(* Whose rows there are *)

(* The rows an action leaves where they are, and their number. *)
SameRows ==
  /\ log' \in Seq(Pieces) /\ Len(log') = Len(log) /\ DOMAIN log' = 1..Len(log)
  /\ \A i \in 1..Len(log) : RowAt(i)' = RowAt(i)
  /\ \A i \in 1..Len(log) : i # Len(log) => log'[i] = log[i]

(* A piece that has grown is of the row it was of. *)
LEMMA RegrownRows ==
  ASSUME TypeOK, NEW size, Regrown(size)
  PROVE  SameRows /\ Len(log) \in 1..Len(log) /\ log'[Len(log)].size = size
<1>1. Len(log) \in 1..Len(log)
  BY LogFacts DEF Regrown
<1>2. log'[Len(log)].row = RowAt(Len(log)) /\ log'[Len(log)].size = size
  BY DEF Regrown, Piece
<1>3. \A i \in 1..Len(log) : RowAt(i)' = RowAt(i)
  BY <1>2 DEF Regrown, RowAt
<1>4. DOMAIN log' = 1..Len(log)
  BY LenProperties DEF Regrown
<1> QED BY <1>1, <1>2, <1>3, <1>4 DEF SameRows, Regrown

(* A file that nobody writes to keeps its rows. *)
LEMMA UnchangedRows ==
  ASSUME TypeOK, UNCHANGED log
  PROVE  SameRows
BY LogFacts DEF SameRows, RowAt

(* A piece more leaves the others where they are. *)
LEMMA AppendedRows ==
  ASSUME TypeOK, NEW piece, Appended(piece)
  PROVE  /\ DOMAIN log' = 1..(Len(log) + 1) /\ Len(log') = Len(log) + 1 /\ log' # <<>>
         /\ \A i \in 1..Len(log) : log'[i] = log[i] /\ RowAt(i)' = RowAt(i)
         /\ log'[Len(log) + 1] = piece
<1>1. log' \in Seq(Pieces) /\ Len(log') = Len(log) + 1 /\ Len(log) \in Nat
  BY LogFacts DEF Appended
<1>2. DOMAIN log' = 1..(Len(log) + 1) /\ log' # <<>>
  BY <1>1, LenProperties, EmptySeq
<1>3. \A i \in 1..Len(log) : log'[i] = log[i] /\ RowAt(i)' = RowAt(i)
  BY DEF Appended, RowAt
<1>4. log'[Len(log) + 1] = piece
  BY DEF Appended, RowAt
<1> QED BY <1>1, <1>2, <1>3, <1>4

(* What the actions that write are to the others of the state. *)
LEMMA WriteEffects ==
  ASSUME TypeOK, BusyInv, NEW w \in Writers, Complete(w) \/ Cut(w) \/ Skip(w)
  PROVE  /\ SameRows /\ GoesOnOrDies(w) /\ w \notin dead
         /\ UNCHANGED <<file, ended, overlap, tail>>
         /\ \/ busy = w /\ busy' = None
            \/ busy # w /\ busy' = busy /\ log' = log
<1>1. CASE Complete(w)
  <2>1. busy = w /\ log # <<>> /\ w \notin dead
    BY <1>1, NoneIsNoWriter DEF Complete, BusyInv
  <2>2. SameRows
    BY <1>1, <2>1, GrowRegrows, RegrownRows DEF Complete
  <2> QED BY <1>1, <2>1, <2>2 DEF Complete, GoesOnOrDies
<1>2. CASE Cut(w)
  <2>1. busy = w /\ log # <<>> /\ w \notin dead
    BY <1>2, NoneIsNoWriter DEF Cut, BusyInv
  <2>2. SameRows
    BY <1>2, <2>1, CutRegrows, RegrownRows
  <2> QED BY <1>2, <2>1, <2>2 DEF Cut
<1>3. CASE Skip(w)
  <2>1. SameRows
    BY <1>3, UnchangedRows DEF Skip
  <2> QED BY <1>3, <2>1 DEF Skip
<1> QED BY <1>1, <1>2, <1>3

(* Where a writer that goes on or dies gets to, and that nobody else moves. *)
LEMMA WhereItGoes ==
  ASSUME TypeOK, NEW w \in Writers, GoesOnOrDies(w)
  PROVE  /\ \A v \in Writers : v # w => at'[v] = at[v] /\ (v \in dead' <=> v \in dead)
         /\ at'[w] = at[w] + 1 \/ (at'[w] = at[w] /\ w \in dead')
         /\ \A v \in dead : v \in dead'
BY DEF TypeOK, GoesOnOrDies

(* Nobody but the writer itself touches what it is in the middle of. *)
LEMMA BusyStep ==
  TypeOK /\ ProgressInv /\ BusyInv /\ [Next]_vars => BusyInv'
<1> SUFFICES ASSUME TypeOK, ProgressInv, BusyInv, [Next]_vars PROVE BusyInv'
  OBVIOUS
<1>1. file \in Files /\ busy \in Writers \cup {None} /\ \A v : Program(v)' = Program(v)
  <2>1. file' = file
    BY DEF Next, Begin, Complete, Cut, Skip, End, TailStart, TailPoll, TailMeetsEnd,
           TailReadsLine, vars, writers
  <2> QED BY <2>1, SameProgram DEF TypeOK
<1>2. ASSUME NEW w \in Writers, Begin(w) PROVE BusyInv'
  <2>1. PICK size \in {"part", "most"} : Appended(Piece(Row(w, Program(w)[at[w] + 1]), size))
    BY <1>2, BeginAppends
  <2>2. /\ log' # <<>>
        /\ log'[Len(log')] = Piece(Row(w, Program(w)[at[w] + 1]), size)
    BY <2>1, AppendedRows
  <2>3. /\ busy' = w /\ ~Finished(w) /\ w \notin dead /\ UNCHANGED <<at, dead, ended>>
        /\ w \in Runs /\ at[w] = 1 => ended[w] # 0
    BY <1>2 DEF Begin
  <2>4. \A kind : Row(w, kind)' = Row(w, kind)
    BY <2>3 DEF Row
  <2> QED BY <1>1, <2>2, <2>3, <2>4 DEF BusyInv, Finished, Piece
<1>3. ASSUME NEW w \in Writers, Complete(w) \/ Cut(w) \/ Skip(w) PROVE BusyInv'
  <2>1. /\ UNCHANGED <<file, ended>> /\ GoesOnOrDies(w)
        /\ \/ busy = w /\ busy' = None
           \/ busy # w /\ busy' = busy /\ log' = log
    BY <1>3, WriteEffects
  <2>2. CASE busy' = None
    BY <2>2 DEF BusyInv
  <2>3. CASE busy' # None
    <3>1. busy # w /\ busy' = busy /\ log' = log /\ busy \in Writers
      BY <1>1, <2>1, <2>3
    <3>2. at'[busy] = at[busy] /\ (busy \in dead' <=> busy \in dead)
      BY <2>1, <3>1, WhereItGoes
    <3>3. \A kind : Row(busy, kind)' = Row(busy', kind)
      BY <2>1, <3>1 DEF Row
    <3> QED BY <1>1, <2>1, <2>3, <3>1, <3>2, <3>3 DEF BusyInv, Finished, Piece, Row
  <2> QED BY <2>2, <2>3
<1>4. ASSUME NEW w \in Runs, End(w) PROVE BusyInv'
  <2>1. /\ UNCHANGED <<log, busy, at, dead>> /\ at[w] = 1 /\ ended[w] = 0
        /\ ended' = [ended EXCEPT ![w] = ended'[w]]
    BY <1>4, EndIsLatest DEF End
  <2>2. CASE busy = None
    BY <2>1, <2>2 DEF BusyInv
  <2>3. CASE busy # None
    <3>1. busy \in Writers /\ busy # w
      BY <1>1, <1>4, <2>1, <2>3 DEF BusyInv
    <3>2. busy \in Runs => ended'[busy] = ended[busy]
      BY <2>1, <3>1 DEF TypeOK
    <3>3. at[busy] + 1 \in 1..Len(Program(busy))
      BY <2>3, <3>1, RowIsARow DEF BusyInv, ProgressInv
    <3>4. Program(busy)[at[busy] + 1] = "end" => busy \in Runs
      BY <1>1, <3>1, <3>3, ProgramFacts
    <3>5. Row(busy, Program(busy)[at[busy] + 1])' = Row(busy, Program(busy)[at[busy] + 1])
      BY <1>1, <2>1, <3>2, <3>4 DEF Row
    <3> QED BY <1>1, <2>1, <2>3, <3>2, <3>5 DEF BusyInv, Finished, Piece
  <2> QED BY <2>2, <2>3
<1>5. ASSUME UNCHANGED <<file, log, busy, at, dead, ended>> PROVE BusyInv'
  <2>1. \A v, kind : Row(v, kind)' = Row(v, kind)
    BY <1>5 DEF Row
  <2> QED BY <1>1, <1>5, <2>1 DEF BusyInv, Finished, Piece
<1>6. CASE TailStart \/ TailPoll
  BY <1>5, <1>6 DEF TailStart, TailPoll, TailMeetsEnd, TailReadsLine, writers
<1>7. CASE UNCHANGED vars
  BY <1>5, <1>7 DEF vars, writers
<1> QED BY <1>2, <1>3, <1>4, <1>6, <1>7, NextIs

(* The row of a piece, its writer and its rank. *)
LEMMA RowFacts ==
  ASSUME TypeOK, NEW i \in 1..Len(log)
  PROVE  /\ RowAt(i).writer \in Writers /\ RowAt(i).kind \in {"decision", "start", "end"}
         /\ Rank(RowAt(i).kind) \in 1..2 /\ at[RowAt(i).writer] \in 0..2
         /\ RowAt(i).ended \in 0..Cardinality(Runs)
<1>1. RowAt(i) \in Rows
  BY LogFacts
<1>2. RowAt(i).writer \in Writers /\ at \in [Writers -> 0..2]
  BY <1>1 DEF TypeOK, Rows
<1>3. at[RowAt(i).writer] \in 0..2
  BY <1>2
<1> QED BY <1>1, <1>2, <1>3 DEF Rows, Rank

(* No step makes a piece one that its writer has yet to come to. *)
LEMMA WrittenStep ==
  /\ TypeOK /\ ProgressInv /\ BusyInv /\ WrittenInv /\ [Next]_vars
  => WrittenInv'
<1> SUFFICES ASSUME TypeOK, ProgressInv, BusyInv, WrittenInv, [Next]_vars
             PROVE  WrittenInv'
  OBVIOUS
<1>1. file \in Files /\ DOMAIN log = 1..Len(log) /\ Len(log) \in Nat
  BY LogFacts DEF TypeOK
<1>2. ASSUME NEW i \in 1..Len(log)
      PROVE  /\ Written(i) /\ RowAt(i).writer \in Writers /\ at[RowAt(i).writer] \in 0..2
             /\ Rank(RowAt(i).kind) \in 1..2
  BY <1>1, RowFacts DEF WrittenInv
<1>3. ASSUME NEW w \in Writers, Begin(w) PROVE WrittenInv'
  <2>1. PICK rank : rank = at[w] + 1
    OBVIOUS
  <2>2. PICK kind : kind = Program(w)[rank]
    OBVIOUS
  <2>3. PICK size \in {"part", "most"} : Appended(Piece(Row(w, kind), size))
    BY <1>3, <2>1, <2>2, BeginAppends
  <2>4. /\ DOMAIN log' = 1..(Len(log) + 1) /\ Len(log') = Len(log) + 1
        /\ \A i \in 1..Len(log) : RowAt(i)' = RowAt(i)
        /\ log'[Len(log) + 1] = Piece(Row(w, kind), size)
    BY <2>3, AppendedRows
  <2>5. /\ busy = None /\ busy' = w /\ ~Finished(w) /\ UNCHANGED <<file, at, dead, ended>>
        /\ w \in Runs /\ at[w] = 1 => ended[w] # 0
    BY <1>3 DEF Begin
  <2>6. ASSUME NEW i \in 1..Len(log) PROVE Written(i)'
    <3>1. RowAt(i).writer # busy
      BY <1>2, <2>5, NoneIsNoWriter
    <3>2. RowAt(i)' = RowAt(i)
      BY <2>4
    <3> QED BY <1>2, <2>5, <3>1, <3>2 DEF Written
  <2>7. ASSUME NEW i, i = Len(log) + 1 PROVE Written(i)'
    <3>1. rank \in 1..Len(Program(w))
      BY <2>1, <2>5, RowIsARow DEF ProgressInv
    <3>2. /\ kind \in {"decision", "start", "end"} /\ Rank(kind) = rank
          /\ kind = "end" => w \in Runs
          /\ file = "index" => w \in Runs /\ kind \in {"start", "end"}
      BY <1>1, <2>2, <3>1, ProgramFacts
    <3>3. kind = "end" => at[w] = 1
      <4>1. at \in [Writers -> 0..2]
        BY DEF TypeOK
      <4>2. at[w] \in 0..2
        BY <1>3, <4>1
      <4> QED BY <2>1, <3>2, <4>2 DEF Rank
    <3>4. RowAt(i)' = Row(w, kind)
      BY <2>4, <2>7 DEF RowAt, Piece
    <3>5. /\ RowAt(i)'.writer = w /\ RowAt(i)'.kind = kind
          /\ RowAt(i)'.ended = IF kind = "end" THEN ended[w] ELSE 0
      BY <3>4 DEF Row
    <3>6. i = Len(log')
      BY <2>4, <2>7
    <3> QED BY <2>1, <2>5, <3>2, <3>3, <3>5, <3>6 DEF Written
  <2> QED BY <1>1, <2>4, <2>6, <2>7 DEF WrittenInv
<1>4. ASSUME NEW w \in Writers, Complete(w) \/ Cut(w) \/ Skip(w) PROVE WrittenInv'
  <2>1. /\ SameRows /\ UNCHANGED <<file, ended>> /\ GoesOnOrDies(w)
        /\ \/ busy = w /\ busy' = None
           \/ busy # w /\ busy' = busy /\ log' = log
    BY <1>4, WriteEffects
  <2>2. /\ \A v \in Writers : v # w => at'[v] = at[v] /\ (v \in dead' <=> v \in dead)
        /\ at'[w] = at[w] + 1 \/ (at'[w] = at[w] /\ w \in dead')
        /\ \A v \in dead : v \in dead'
    BY <2>1, WhereItGoes
  <2>3. ASSUME NEW i \in 1..Len(log) PROVE Written(i)'
    <3>1. RowAt(i)' = RowAt(i) /\ Len(log') = Len(log)
      BY <2>1 DEF SameRows
    <3>2. CASE RowAt(i).writer = w
      BY <1>2, <2>1, <2>2, <3>1, <3>2 DEF Written
    <3>3. CASE RowAt(i).writer # w
      <4>1. /\ at'[RowAt(i).writer] = at[RowAt(i).writer]
            /\ RowAt(i).writer = busy => busy' = busy
        BY <1>2, <2>1, <2>2, <3>3
      <4> QED BY <1>2, <2>1, <2>2, <3>1, <4>1 DEF Written
    <3> QED BY <3>2, <3>3
  <2>4. DOMAIN log' = 1..Len(log)
    BY <2>1 DEF SameRows
  <2> QED BY <2>3, <2>4 DEF WrittenInv
<1>5. ASSUME UNCHANGED <<file, log, busy, at, dead>>,
             \A w \in Runs : ended[w] # 0 => ended'[w] = ended[w]
      PROVE  WrittenInv'
  <2>1. ASSUME NEW i \in 1..Len(log) PROVE Written(i)'
    <3>1. RowAt(i)' = RowAt(i)
      BY <1>5 DEF RowAt
    <3> QED BY <1>2, <1>5, <3>1 DEF Written
  <2> QED BY <1>1, <1>5, <2>1 DEF WrittenInv
<1>6. ASSUME NEW w \in Runs, End(w) PROVE WrittenInv'
  <2>1. ended[w] = 0 /\ ended' = [ended EXCEPT ![w] = ended'[w]]
    BY <1>6, EndIsLatest
  <2>2. \A v \in Runs : ended[v] # 0 => ended'[v] = ended[v]
    BY <2>1 DEF TypeOK
  <2> QED BY <1>5, <1>6, <2>2 DEF End
<1>7. CASE TailStart \/ TailPoll
  BY <1>5, <1>7 DEF TailStart, TailPoll, TailMeetsEnd, TailReadsLine, writers
<1>8. CASE UNCHANGED vars
  BY <1>5, <1>8 DEF vars, writers
<1> QED BY <1>3, <1>4, <1>6, <1>7, <1>8, NextIs

-----------------------------------------------------------------------------
(* Which rows are whole *)

(* The whole lines stay the rows whose append returned nil. *)
LEMMA AckedStep ==
  TypeOK /\ ProgressInv /\ BusyInv /\ AckedInv /\ [Next]_vars => AckedInv'
<1> SUFFICES ASSUME TypeOK, ProgressInv, BusyInv, AckedInv, [Next]_vars PROVE AckedInv'
  OBVIOUS
<1>1. DOMAIN log = 1..Len(log) /\ Len(log) \in Nat /\ (log # <<>> => Len(log) > 0)
  BY LogFacts
<1>2. ASSUME NEW w \in Writers, Begin(w) PROVE AckedInv'
  <2>1. PICK row : row = Row(w, Program(w)[at[w] + 1])
    OBVIOUS
  <2>2. PICK size \in {"part", "most"} : Appended(Piece(row, size))
    BY <1>2, <2>1, BeginAppends
  <2>3. /\ DOMAIN log' = 1..(Len(log) + 1)
        /\ \A i \in 1..Len(log) : log'[i] = log[i] /\ RowAt(i)' = RowAt(i)
        /\ log'[Len(log) + 1] = Piece(row, size)
    BY <2>2, AppendedRows
  <2>4. log'[Len(log) + 1].size # "line"
    BY <2>3 DEF Piece
  <2>5. acked' = acked
    BY <1>2 DEF Begin
  <2>6. \A i \in DOMAIN log' : log'[i].size = "line" => RowAt(i)' \in acked
    BY <1>1, <2>3, <2>4 DEF AckedInv
  <2>7. ASSUME NEW r \in acked PROVE \E i \in DOMAIN log' : log'[i].size = "line" /\ RowAt(i)' = r
    <3>1. PICK i \in DOMAIN log : log[i].size = "line" /\ RowAt(i) = r
      BY <2>7 DEF AckedInv
    <3> QED BY <1>1, <2>3, <3>1
  <2> QED BY <2>5, <2>6, <2>7 DEF AckedInv
<1>3. ASSUME NEW w \in Writers, Complete(w) PROVE AckedInv'
  <2>1. log # <<>> /\ acked' = acked \cup {Last(log).row}
    BY <1>3, NoneIsNoWriter DEF Complete, BusyInv
  <2>2. Regrown("line")
    BY <1>3, <2>1, GrowRegrows DEF Complete
  <2>3. SameRows /\ Len(log) \in 1..Len(log) /\ log'[Len(log)].size = "line"
    BY <2>2, RegrownRows
  <2>4. PICK N : N = Len(log)
    OBVIOUS
  <2>5. acked' = acked \cup {RowAt(N)} /\ N \in 1..N /\ RowAt(N)' = RowAt(N)
    BY <2>1, <2>3, <2>4 DEF Last, RowAt, SameRows
  <2>6. ASSUME NEW i \in DOMAIN log', log'[i].size = "line" PROVE RowAt(i)' \in acked'
    <3>1. i \in 1..Len(log) /\ RowAt(i)' = RowAt(i)
      BY <2>3, <2>6 DEF SameRows
    <3>2. CASE i = N
      BY <2>5, <3>1, <3>2
    <3>3. CASE i # N
      <4>1. log'[i] = log[i]
        BY <2>3, <2>4, <3>1, <3>3 DEF SameRows
      <4>2. RowAt(i) \in acked
        BY <1>1, <2>6, <3>1, <4>1 DEF AckedInv
      <4> QED BY ONLY <2>5, <3>1, <4>2
    <3> QED BY <3>2, <3>3
  <2>7. ASSUME NEW r \in acked' PROVE \E i \in DOMAIN log' : log'[i].size = "line" /\ RowAt(i)' = r
    <3>1. CASE r = RowAt(N)
      BY <2>3, <2>4, <2>5, <3>1 DEF SameRows
    <3>2. CASE r # RowAt(N)
      <4>1. r \in acked
        BY <2>5, <2>7, <3>2
      <4>2. PICK i \in DOMAIN log : log[i].size = "line" /\ RowAt(i) = r
        BY <4>1 DEF AckedInv
      <4>3. i # N
        BY <3>2, <4>2
      <4> QED BY <1>1, <2>3, <2>4, <4>2, <4>3 DEF SameRows
    <3> QED BY <3>1, <3>2
  <2> QED BY <2>6, <2>7 DEF AckedInv
<1>4. ASSUME NEW w \in Writers, Cut(w) PROVE AckedInv'
  <2>1. log # <<>> /\ acked' = acked /\ log[Len(log)].size \in {"part", "most"}
    BY <1>4, NoneIsNoWriter DEF Cut, BusyInv, Piece
  <2>2. PICK size \in {"part", "most", "body"} : Regrown(size)
    BY <1>4, <2>1, CutRegrows
  <2>3. SameRows /\ log'[Len(log)].size # "line"
    BY <2>2, RegrownRows
  <2>4. \A i \in 1..Len(log) : (log'[i].size = "line") <=> (log[i].size = "line")
    BY <2>1, <2>3 DEF SameRows
  <2>5. \A i \in DOMAIN log' : log'[i].size = "line" => RowAt(i)' \in acked'
    BY <1>1, <2>1, <2>3, <2>4 DEF AckedInv, SameRows
  <2>6. ASSUME NEW r \in acked' PROVE \E i \in DOMAIN log' : log'[i].size = "line" /\ RowAt(i)' = r
    <3>1. PICK i \in DOMAIN log : log[i].size = "line" /\ RowAt(i) = r
      BY <2>1, <2>6 DEF AckedInv
    <3> QED BY <1>1, <2>3, <2>4, <3>1 DEF SameRows
  <2> QED BY <2>5, <2>6 DEF AckedInv
<1>5. ASSUME UNCHANGED <<log, acked>> PROVE AckedInv'
  BY <1>5 DEF AckedInv, RowAt
<1>6. ASSUME NEW w \in Writers, Skip(w) \/ End(w) PROVE AckedInv'
  BY <1>5, <1>6 DEF Skip, End
<1>7. CASE TailStart \/ TailPoll
  BY <1>5, <1>7 DEF TailStart, TailPoll, TailMeetsEnd, TailReadsLine, writers
<1>8. CASE UNCHANGED vars
  BY <1>5, <1>8 DEF vars, writers
<1>9. CASE Next
  BY <1>2, <1>3, <1>4, <1>6, <1>7, <1>9 DEF Next
<1> QED BY <1>8, <1>9

(* There are finitely many unfinished lines. *)
LEMMA UnfinishedFinite ==
  ASSUME TypeOK
  PROVE  IsFiniteSet(Unfinished) /\ Cardinality(Unfinished) \in Nat
<1>1. Len(log) \in Nat /\ DOMAIN log = 1..Len(log)
  BY LogFacts
<1>2. IsFiniteSet(1..Len(log)) /\ Unfinished \in SUBSET (1..Len(log))
  BY <1>1, FS_Interval DEF Unfinished
<1> QED BY <1>2, FS_Subset, FS_CardinalityType

(* Only a write that fails leaves an unfinished line behind. *)
LEMMA CutStep ==
  TypeOK /\ ProgressInv /\ BusyInv /\ CutInv /\ [Next]_vars => CutInv'
<1> SUFFICES ASSUME TypeOK, ProgressInv, BusyInv, CutInv, [Next]_vars PROVE CutInv'
  OBVIOUS
<1>1. /\ DOMAIN log = 1..Len(log) /\ Len(log) \in Nat /\ (log # <<>> => Len(log) > 0)
      /\ cuts \in Nat
  <2>1. cuts \in 0..MaxCuts /\ MaxCuts \in Nat
    BY JournalAssumption DEF TypeOK
  <2>2. cuts \in Nat
    BY <2>1
  <2> QED BY <2>2, LogFacts
<1>2. IsFiniteSet(Unfinished) /\ Cardinality(Unfinished) \in Nat
  BY UnfinishedFinite
<1>3. ASSUME NEW w \in Writers, Begin(w) PROVE CutInv'
  <2>1. PICK row : row = Row(w, Program(w)[at[w] + 1])
    OBVIOUS
  <2>2. PICK size \in {"part", "most"} : Appended(Piece(row, size))
    BY <1>3, <2>1, BeginAppends
  <2>3. /\ DOMAIN log' = 1..(Len(log) + 1) /\ Len(log') = Len(log) + 1
        /\ \A i \in 1..Len(log) : log'[i] = log[i]
    BY <2>2, AppendedRows
  <2>4. busy = None /\ busy' # None /\ cuts' = cuts
    BY <1>3, NoneIsNoWriter DEF Begin
  <2>5. Unfinished' = Unfinished
    <3>1. ASSUME NEW i PROVE i \in Unfinished' <=> i \in Unfinished
      BY <1>1, <2>3, <2>4 DEF Unfinished
    <3> QED BY <3>1
  <2> QED BY <2>4, <2>5 DEF CutInv
<1>4. ASSUME NEW w \in Writers, Complete(w) PROVE CutInv'
  <2>1. log # <<>> /\ busy # None /\ busy' = None /\ cuts' = cuts
    BY <1>4, NoneIsNoWriter DEF Complete, BusyInv
  <2>2. Regrown("line")
    BY <1>4, <2>1, GrowRegrows DEF Complete
  <2>3. SameRows /\ log'[Len(log)].size = "line"
    BY <2>2, RegrownRows
  <2>4. Unfinished' = Unfinished
    <3>1. ASSUME NEW i PROVE i \in Unfinished' <=> i \in Unfinished
      BY <1>1, <2>1, <2>3 DEF Unfinished, SameRows
    <3> QED BY <3>1
  <2> QED BY <2>1, <2>4 DEF CutInv
<1>5. ASSUME NEW w \in Writers, Cut(w) PROVE CutInv'
  <2>1. log # <<>> /\ busy # None /\ busy' = None /\ cuts' = cuts + 1
    BY <1>5, NoneIsNoWriter DEF Cut, BusyInv
  <2>2. PICK size \in {"part", "most", "body"} : Regrown(size)
    BY <1>5, <2>1, CutRegrows
  <2>3. SameRows /\ log'[Len(log)].size # "line"
    BY <2>2, RegrownRows
  <2>4. PICK N \in Nat : N = Len(log)
    BY <1>1
  <2>5. /\ N > 0 /\ Len(log') = N /\ log'[N].size # "line"
        /\ DOMAIN log' = 1..N /\ \A i \in 1..N : i # N => log'[i] = log[i]
    BY <1>1, <2>1, <2>3, <2>4 DEF SameRows
  <2>6. Unfinished' = Unfinished \cup {N}
    <3>1. ASSUME NEW i PROVE i \in Unfinished' <=> i \in Unfinished \cup {N}
      <4>1. CASE i = N
        <5>1. N \in 1..N
          BY <2>5
        <5>2. N \in Unfinished'
          BY <2>1, <2>5, <5>1 DEF Unfinished
        <5> QED BY <4>1, <5>2
      <4>2. CASE i # N
        <5>1. i \in Unfinished' <=> i \in 1..N /\ log'[i].size # "line"
          BY <2>1, <2>5 DEF Unfinished
        <5>2. i \in Unfinished <=> i \in 1..N /\ log[i].size # "line"
          BY <1>1, <2>4, <4>2 DEF Unfinished
        <5> QED BY <2>5, <4>2, <5>1, <5>2
      <4> QED BY <4>1, <4>2
    <3> QED BY <3>1
  <2>7. PICK M : M = Cardinality(Unfinished)
    OBVIOUS
  <2>8. Cardinality(Unfinished') = M \/ Cardinality(Unfinished') = M + 1
    BY <1>2, <2>6, <2>7, FS_AddElement
  <2>9. M \in Nat /\ M <= cuts
    BY <1>2, <2>7 DEF CutInv
  <2> QED BY <1>1, <2>1, <2>8, <2>9 DEF CutInv
<1>6. ASSUME UNCHANGED log, cuts' \in Nat, cuts <= cuts',
             (busy' # None) <=> (busy # None)
      PROVE  CutInv'
  <2>1. Unfinished' = Unfinished
    BY <1>6 DEF Unfinished
  <2> QED BY <1>1, <1>2, <1>6, <2>1 DEF CutInv
<1>7. ASSUME NEW w \in Writers, Skip(w) \/ End(w) PROVE CutInv'
  BY <1>1, <1>6, <1>7 DEF Skip, End
<1>8. CASE TailStart \/ TailPoll
  <2>1. UNCHANGED <<log, cuts, busy>>
    BY <1>8 DEF TailStart, TailPoll, TailMeetsEnd, TailReadsLine, writers
  <2> QED BY <1>1, <1>6, <2>1
<1>9. CASE UNCHANGED vars
  <2>1. UNCHANGED <<log, cuts, busy>>
    BY <1>9 DEF vars, writers
  <2> QED BY <1>1, <1>6, <2>1
<1>10. CASE Next
  BY <1>3, <1>4, <1>5, <1>7, <1>8, <1>10 DEF Next
<1> QED BY <1>9, <1>10

-----------------------------------------------------------------------------
(* The order of the end rows *)

(* What OrderInv says of a piece. *)
Ordered(i, id) ==
  /\ \A j \in DOMAIN log : i < j /\ EndRow(j, id) => RowAt(i).ended < RowAt(j).ended
  /\ \A r \in Runs : /\ Session[r] = id /\ r # RowAt(i).writer
                     /\ ended[r] # 0 /\ at[r] = 1 /\ r \notin dead
                     => RowAt(i).ended < ended[r]

(* OrderInv in these terms. *)
LEMMA OrderIs ==
  OrderInv <=> (file = "index" => \A id \in Ids \ overlap : \A i \in DOMAIN log :
                                    EndRow(i, id) => Ordered(i, id))
BY DEF OrderInv, Ordered

(* An end row is appended behind the earlier ends of its id: a run that    *)
(* was in flight when the other's end was written makes the id overlap.    *)
LEMMA OrderStep ==
  /\ TypeOK /\ ProgressInv /\ BusyInv /\ WrittenInv /\ OrderInv /\ [Next]_vars
  => OrderInv'
<1> SUFFICES ASSUME TypeOK, ProgressInv, BusyInv, WrittenInv, OrderInv, [Next]_vars
             PROVE  OrderInv'
  OBVIOUS
<1>1. /\ file \in Files /\ DOMAIN log = 1..Len(log) /\ Len(log) \in Nat
      /\ at \in [Writers -> 0..2] /\ Runs \subseteq Writers
  BY LogFacts DEF TypeOK, Writers
<1>2. file' = file
  BY DEF Next, Begin, Complete, Cut, Skip, End, TailStart, TailPoll, TailMeetsEnd,
         TailReadsLine, vars, writers
<1>3. CASE file # "index"
  BY <1>2, <1>3 DEF OrderInv
<1>4. CASE file = "index"
  <2>1. ASSUME NEW id \in Ids \ overlap, NEW i \in DOMAIN log, EndRow(i, id) PROVE Ordered(i, id)
    BY <1>4, <2>1, OrderIs
  <2>2. ASSUME NEW i \in 1..Len(log), RowAt(i).kind = "end"
        PROVE  /\ RowAt(i).writer \in Runs /\ RowAt(i).ended = ended[RowAt(i).writer]
               /\ \/ at[RowAt(i).writer] >= 2
                  \/ RowAt(i).writer \in dead
                  \/ RowAt(i).writer = busy
    <3>1. Written(i) /\ RowAt(i).writer \in Writers /\ at[RowAt(i).writer] \in 0..2
      BY <1>1, RowFacts DEF WrittenInv
    <3>2. Rank(RowAt(i).kind) = 2
      BY <2>2 DEF Rank
    <3> QED BY <2>2, <3>1, <3>2 DEF Written
  <2>3. ASSUME NEW w \in Writers, Begin(w) PROVE OrderInv'
    <3>1. PICK kind : kind = Program(w)[at[w] + 1]
      OBVIOUS
    <3>2. PICK size \in {"part", "most"} : Appended(Piece(Row(w, kind), size))
      BY <2>3, <3>1, BeginAppends
    <3>3. PICK N \in Nat : N = Len(log)
      BY <1>1
    <3>4. /\ DOMAIN log' = 1..(N + 1) /\ DOMAIN log = 1..N
          /\ \A i \in 1..N : RowAt(i)' = RowAt(i)
          /\ log'[N + 1] = Piece(Row(w, kind), size)
      BY <1>1, <3>2, <3>3, AppendedRows
    <3>5. /\ busy = None /\ ~Finished(w) /\ w \notin dead /\ UNCHANGED <<at, dead, ended>>
          /\ w \in Runs /\ at[w] = 1 => ended[w] # 0
          /\ overlap' = overlap \cup {Session[r] : r \in
                           {o \in Runs \ {w} : InFlight(o) /\ Session[o] = Session[w]}}
      BY <2>3 DEF Begin
    <3>6. kind = "end" => w \in Runs /\ at[w] = 1
      <4>1. at[w] + 1 \in 1..Len(Program(w)) /\ at[w] \in 0..2
        BY <1>1, <3>5, RowIsARow DEF ProgressInv
      <4>2. Rank(kind) = at[w] + 1 /\ (kind = "end" => w \in Runs)
        BY <1>1, <3>1, <4>1, ProgramFacts
      <4> QED BY <4>1, <4>2 DEF Rank
    <3>7. ASSUME NEW i, i = N + 1
          PROVE  /\ RowAt(i)'.writer = w /\ RowAt(i)'.kind = kind
                 /\ kind = "end" => RowAt(i)'.ended = ended[w]
      BY <3>4, <3>7 DEF RowAt, Piece, Row
    <3>8. ASSUME NEW id \in Ids \ overlap', NEW i \in DOMAIN log', EndRow(i, id)'
          PROVE  Ordered(i, id)'
      <4>1. id \in Ids \ overlap
        BY <3>5, <3>8
      <4>2. CASE i \in 1..N
        <5>1. EndRow(i, id) /\ RowAt(i)' = RowAt(i)
          BY <3>4, <3>8, <4>2 DEF EndRow
        <5>2. Ordered(i, id)
          BY <2>1, <3>4, <4>1, <4>2, <5>1
        <5>3. ASSUME NEW j \in DOMAIN log', i < j, EndRow(j, id)'
              PROVE  RowAt(i)'.ended < RowAt(j)'.ended
          <6>1. CASE j \in 1..N
            <7>1. EndRow(j, id) /\ RowAt(j)' = RowAt(j)
              BY <3>4, <5>3, <6>1 DEF EndRow
            <7> QED BY <3>4, <5>1, <5>2, <5>3, <6>1, <7>1 DEF Ordered
          <6>2. CASE j = N + 1
            <7>1. /\ Session[w] = id /\ w \in Runs /\ at[w] = 1
                  /\ RowAt(j)'.ended = ended[w]
              BY <3>6, <3>7, <5>3, <6>2 DEF EndRow
            <7>2. /\ RowAt(i).kind = "end" /\ RowAt(i).writer # w
              BY <1>1, <2>2, <3>3, <3>5, <4>2, <5>1, <7>1, NoneIsNoWriter DEF EndRow
            <7>3. RowAt(i).ended < ended[w]
              BY <3>5, <5>2, <7>1, <7>2 DEF Ordered
            <7> QED BY <5>1, <7>1, <7>3
          <6> QED BY <3>4, <5>3, <6>1, <6>2
        <5> QED BY <3>5, <5>1, <5>2, <5>3 DEF Ordered
      <4>3. CASE i = N + 1
        <5>1. Session[w] = id /\ RowAt(i)'.writer = w /\ kind = "end"
          BY <3>7, <3>8, <4>3 DEF EndRow
        <5>2. ASSUME NEW r \in Runs, Session[r] = id, r # w, at[r] = 1, r \notin dead
              PROVE  FALSE
          <6>1. InFlight(r)
            <7>1. Len(Program(r)) = 2
              BY <1>1, <1>4, ProgramFacts
            <7> QED BY <5>2, <7>1 DEF InFlight, Finished
          <6>2. Session[r] \in overlap'
            BY <3>5, <5>1, <5>2, <6>1
          <6> QED BY <3>8, <5>2, <6>2
        <5>3. \A j \in DOMAIN log' : ~(i < j)
          BY <3>4, <4>3
        <5> QED BY <3>5, <5>1, <5>2, <5>3 DEF Ordered
      <4> QED BY <3>4, <3>8, <4>2, <4>3
    <3>9. Ids' = Ids
      BY DEF Ids
    <3> QED BY <3>8, <3>9 DEF OrderInv, Ordered
  <2>4. ASSUME SameRows, overlap' = overlap,
               ASSUME NEW i \in 1..Len(log), RowAt(i).kind = "end",
                      NEW r \in Runs, ended'[r] # 0, at'[r] = 1, r \notin dead'
               PROVE  \/ ended'[r] = ended[r] /\ ended[r] # 0 /\ at[r] = 1 /\ r \notin dead
                      \/ RowAt(i).ended < ended'[r]
        PROVE  OrderInv'
    <3>1. ASSUME NEW id \in Ids \ overlap', NEW i \in DOMAIN log', EndRow(i, id)'
          PROVE  Ordered(i, id)'
      <4>1. i \in DOMAIN log /\ RowAt(i)' = RowAt(i) /\ DOMAIN log' = DOMAIN log
        BY <1>1, <2>4, <3>1 DEF SameRows
      <4>2. EndRow(i, id) /\ RowAt(i).kind = "end"
        BY <3>1, <4>1 DEF EndRow
      <4>3. Ordered(i, id)
        BY <2>1, <2>4, <3>1, <4>1, <4>2
      <4>4. ASSUME NEW j \in DOMAIN log', i < j, EndRow(j, id)'
            PROVE  RowAt(i)'.ended < RowAt(j)'.ended
        <5>1. RowAt(j)' = RowAt(j) /\ EndRow(j, id)
          BY <1>1, <2>4, <4>1, <4>4 DEF SameRows, EndRow
        <5> QED BY <4>1, <4>3, <4>4, <5>1 DEF Ordered
      <4>5. ASSUME NEW r \in Runs, Session[r] = id, r # RowAt(i).writer,
                   ended'[r] # 0, at'[r] = 1, r \notin dead'
            PROVE  RowAt(i).ended < ended'[r]
        BY <1>1, <2>4, <4>1, <4>2, <4>3, <4>5 DEF Ordered
      <4> QED BY <4>1, <4>4, <4>5 DEF Ordered
    <3>2. Ids' = Ids
      BY DEF Ids
    <3> QED BY <3>1, <3>2 DEF OrderInv, Ordered
  <2>5. ASSUME NEW w \in Writers, Complete(w) \/ Cut(w) \/ Skip(w) PROVE OrderInv'
    <3>1. SameRows /\ UNCHANGED <<ended, overlap>> /\ GoesOnOrDies(w) /\ w \notin dead
      BY <2>5, WriteEffects
    <3>2. /\ \A v \in Writers : v # w => at'[v] = at[v] /\ (v \in dead' <=> v \in dead)
          /\ at'[w] = at[w] + 1 \/ (at'[w] = at[w] /\ w \in dead')
          /\ \A v \in dead : v \in dead'
      BY <3>1, WhereItGoes
    <3>3. ASSUME NEW r \in Runs, ended'[r] # 0, at'[r] = 1, r \notin dead'
          PROVE  ended'[r] = ended[r] /\ ended[r] # 0 /\ at[r] = 1 /\ r \notin dead
      <4>1. ended[r] # 0 /\ r \notin dead
        BY <3>1, <3>2, <3>3
      <4>2. at[r] > 0 /\ at[r] \in 0..2
        BY <1>1, <4>1 DEF ProgressInv
      <4>3. at[r] = 1
        BY <1>1, <3>2, <3>3, <4>2
      <4> QED BY <3>1, <4>1, <4>3
    <3> QED BY <2>4, <3>1, <3>3
  <2>6. ASSUME NEW w \in Runs, End(w) PROVE OrderInv'
    <3>1. /\ ended' = [ended EXCEPT ![w] = ended'[w]] /\ (\A r \in Runs : ended[r] < ended'[w])
          /\ ended \in [Runs -> 0..Cardinality(Runs)]
      BY <2>6, EndIsLatest DEF TypeOK
    <3>2. SameRows /\ overlap' = overlap /\ UNCHANGED <<at, dead>>
      BY <2>6, UnchangedRows DEF End
    <3>3. ASSUME NEW i \in 1..Len(log), RowAt(i).kind = "end",
                 NEW r \in Runs, ended'[r] # 0, at'[r] = 1, r \notin dead'
          PROVE  \/ ended'[r] = ended[r] /\ ended[r] # 0 /\ at[r] = 1 /\ r \notin dead
                 \/ RowAt(i).ended < ended'[r]
      <4>1. CASE r = w
        BY <2>2, <3>1, <3>3, <4>1
      <4>2. CASE r # w
        BY <3>1, <3>2, <3>3, <4>2
      <4> QED BY <4>1, <4>2
    <3> QED BY <2>4, <3>2, <3>3
  <2>7. ASSUME UNCHANGED <<log, overlap, ended, at, dead>> PROVE OrderInv'
    <3>1. SameRows
      BY <2>7, UnchangedRows
    <3> QED BY <2>4, <2>7, <3>1
  <2>8. CASE TailStart \/ TailPoll
    BY <2>7, <2>8 DEF TailStart, TailPoll, TailMeetsEnd, TailReadsLine, writers
  <2>9. CASE UNCHANGED vars
    BY <2>7, <2>9 DEF vars, writers
  <2> QED BY <2>3, <2>5, <2>6, <2>8, <2>9, NextIs
<1> QED BY <1>3, <1>4

-----------------------------------------------------------------------------
(* What the tail shows *)

(* The tail reads on towards the end of the file. *)
LEMMA ShownStep ==
  TypeOK /\ ProgressInv /\ BusyInv /\ ShownInv /\ [Next]_vars => ShownInv'
<1> SUFFICES ASSUME TypeOK, ProgressInv, BusyInv, ShownInv, [Next]_vars PROVE ShownInv'
  OBVIOUS
<1>1. /\ DOMAIN log = 1..Len(log) /\ Len(log) \in Nat
      /\ tail.at \in 0..Len(log) /\ tail.shown \in Seq(Rows) /\ Len(tail.shown) \in Nat
      /\ DOMAIN tail.shown = 1..Len(tail.shown)
  BY LogFacts, TailFacts
<1>2. ASSUME tail' = tail,
             \A i \in 1..Len(log) : i \in DOMAIN log' /\ RowAt(i)' = RowAt(i)
      PROVE  ShownInv'
  <2>1. ASSUME NEW k \in DOMAIN tail'.shown
        PROVE  \E i \in DOMAIN log' : i <= tail'.at /\ RowAt(i)' = tail'.shown[k]
    <3>1. PICK i \in DOMAIN log : i <= tail.at /\ RowAt(i) = tail.shown[k]
      BY <1>2, <2>1 DEF ShownInv
    <3> QED BY <1>1, <1>2, <3>1
  <2>2. ASSUME NEW j \in DOMAIN tail'.shown, NEW k \in DOMAIN tail'.shown, j < k
        PROVE  \E i, l \in DOMAIN log' : /\ i < l /\ l <= tail'.at
                                         /\ RowAt(i)' = tail'.shown[j]
                                         /\ RowAt(l)' = tail'.shown[k]
    <3>1. PICK i \in DOMAIN log, l \in DOMAIN log :
            i < l /\ l <= tail.at /\ RowAt(i) = tail.shown[j] /\ RowAt(l) = tail.shown[k]
      BY <1>2, <2>2 DEF ShownInv
    <3> QED BY <1>1, <1>2, <3>1
  <2> QED BY <2>1, <2>2 DEF ShownInv
<1>3. ASSUME NEW w \in Writers, Begin(w) PROVE ShownInv'
  <2>1. PICK size \in {"part", "most"} : Appended(Piece(Row(w, Program(w)[at[w] + 1]), size))
    BY <1>3, BeginAppends
  <2>2. /\ DOMAIN log' = 1..(Len(log) + 1)
        /\ \A i \in 1..Len(log) : RowAt(i)' = RowAt(i)
    BY <2>1, AppendedRows
  <2>3. \A i \in 1..Len(log) : i \in DOMAIN log' /\ RowAt(i)' = RowAt(i)
    BY <1>1, <2>2
  <2> QED BY <1>2, <1>3, <2>3 DEF Begin
<1>4. ASSUME NEW w \in Writers, Complete(w) \/ Cut(w) \/ Skip(w) PROVE ShownInv'
  <2>1. SameRows /\ tail' = tail
    BY <1>4, WriteEffects
  <2> QED BY <1>2, <2>1 DEF SameRows
<1>5. ASSUME NEW w \in Runs, End(w) PROVE ShownInv'
  BY <1>1, <1>2, <1>5 DEF End, RowAt
<1>6. ASSUME TailStart \/ TailPoll PROVE ShownInv'
  <2>1. log' = log
    BY <1>6 DEF TailStart, TailPoll, TailMeetsEnd, TailReadsLine, writers
  <2>2. \A i : RowAt(i)' = RowAt(i)
    BY <2>1 DEF RowAt
  <2>3. /\ tail'.at \in 0..Len(log)
        /\ \/ tail'.shown = <<>>
           \/ tail'.shown = tail.shown /\ tail'.at >= tail.at
           \/ \E i \in 1..Len(log) : /\ i > tail.at /\ tail'.at = i
                                     /\ tail'.shown = Append(tail.shown, RowAt(i))
    BY <1>6, TailNext
  <2>4. CASE tail'.shown = <<>>
    <3>1. DOMAIN tail'.shown = {}
      BY <2>4
    <3> QED BY <3>1 DEF ShownInv
  <2>5. CASE tail'.shown = tail.shown /\ tail'.at >= tail.at
    <3>1. ASSUME NEW i \in DOMAIN log, i <= tail.at PROVE i <= tail'.at
      BY <1>1, <2>3, <2>5, <3>1
    <3> QED BY <2>1, <2>2, <2>5, <3>1 DEF ShownInv
  <2>6. CASE \E i \in 1..Len(log) : /\ i > tail.at /\ tail'.at = i
                                    /\ tail'.shown = Append(tail.shown, RowAt(i))
    <3>1. PICK i \in 1..Len(log) : /\ i > tail.at /\ tail'.at = i
                                   /\ tail'.shown = Append(tail.shown, RowAt(i))
      BY <2>6
    <3>2. RowAt(i) \in Rows
      BY LogFacts
    <3>3. PICK n \in Nat : n = Len(tail.shown)
      BY <1>1
    <3>4. /\ tail'.shown \in Seq(Rows) /\ Len(tail'.shown) = n + 1
          /\ (\A k \in 1..n : tail'.shown[k] = tail.shown[k]) /\ tail'.shown[n + 1] = RowAt(i)
      BY <1>1, <3>1, <3>2, <3>3, AppendProperties
    <3>5. DOMAIN tail'.shown = 1..(n + 1)
      BY <3>4, LenProperties
    <3>6. ASSUME NEW k \in 1..n
          PROVE  \E l \in DOMAIN log : l < i /\ l <= tail'.at /\ RowAt(l) = tail'.shown[k]
      <4>1. PICK l \in DOMAIN log : l <= tail.at /\ RowAt(l) = tail.shown[k]
        BY <1>1, <3>3 DEF ShownInv
      <4> QED BY <1>1, <3>1, <3>4, <4>1
    <3>7. ASSUME NEW k \in DOMAIN tail'.shown
          PROVE  \E l \in DOMAIN log' : l <= tail'.at /\ RowAt(l)' = tail'.shown[k]
      <4>1. CASE k = n + 1
        BY <1>1, <2>1, <2>2, <3>1, <3>4, <4>1
      <4>2. CASE k \in 1..n
        BY <2>1, <2>2, <3>6, <4>2
      <4> QED BY <3>5, <3>7, <4>1, <4>2
    <3>8. ASSUME NEW j \in DOMAIN tail'.shown, NEW k \in DOMAIN tail'.shown, j < k
          PROVE  \E m, l \in DOMAIN log' : /\ m < l /\ l <= tail'.at
                                           /\ RowAt(m)' = tail'.shown[j]
                                           /\ RowAt(l)' = tail'.shown[k]
      <4>1. CASE k = n + 1
        <5>1. j \in 1..n
          BY <3>5, <3>8, <4>1
        <5>2. PICK m \in DOMAIN log : m < i /\ RowAt(m) = tail'.shown[j]
          BY <3>6, <5>1
        <5>3. m \in DOMAIN log' /\ i \in DOMAIN log' /\ m < i /\ i <= tail'.at
          BY <1>1, <2>1, <3>1, <5>2
        <5>4. RowAt(m)' = tail'.shown[j] /\ RowAt(i)' = tail'.shown[k]
          BY ONLY <2>2, <3>4, <4>1, <5>2
        <5> QED BY ONLY <5>3, <5>4
      <4>2. CASE k \in 1..n
        <5>1. j \in 1..n
          BY <3>5, <3>8, <4>2
        <5>2. PICK m \in DOMAIN log, l \in DOMAIN log :
                m < l /\ l <= tail.at /\ RowAt(m) = tail.shown[j] /\ RowAt(l) = tail.shown[k]
          BY <1>1, <3>3, <3>8, <4>2, <5>1 DEF ShownInv
        <5>3. l <= tail'.at
          BY <1>1, <3>1, <5>2
        <5> QED BY <2>1, <2>2, <3>4, <4>2, <5>1, <5>2, <5>3
      <4> QED BY <3>5, <3>8, <4>1, <4>2
    <3> QED BY <3>7, <3>8 DEF ShownInv
  <2> QED BY <2>3, <2>4, <2>5, <2>6
<1>7. CASE UNCHANGED vars
  BY <1>1, <1>2, <1>7 DEF vars, writers, RowAt
<1> QED BY <1>3, <1>4, <1>5, <1>6, <1>7, NextIs

-----------------------------------------------------------------------------
(* The invariant holds *)

(* It holds in the beginning. *)
LEMMA InitInv == Init => JournalInv
<1> SUFFICES ASSUME Init PROVE JournalInv
  OBVIOUS
<1>1. TypeOK /\ ProgressInv
  BY TypeInit
<1>2. /\ log = <<>> /\ busy = None /\ acked = {} /\ cuts = 0
      /\ DOMAIN log = {} /\ DOMAIN tail.shown = {}
  <2>1. log = <<>> /\ busy = None /\ acked = {} /\ cuts = 0 /\ tail.shown = <<>>
    BY DEF Init
  <2>2. DOMAIN log = {}
    BY <2>1
  <2>3. DOMAIN tail.shown = {}
    BY <2>1
  <2> QED BY <2>1, <2>2, <2>3
<1>3. BusyInv /\ WrittenInv /\ AckedInv /\ OrderInv /\ ShownInv
  BY <1>2 DEF BusyInv, WrittenInv, AckedInv, OrderInv, ShownInv
<1>4. Unfinished = {}
  BY <1>2 DEF Unfinished
<1>5. CutInv
  BY <1>2, <1>4, FS_EmptySet DEF CutInv
<1> QED BY <1>1, <1>3, <1>5 DEF JournalInv

(* Every step keeps the invariant. *)
LEMMA StepInv == JournalInv /\ [Next]_vars => JournalInv'
<1> SUFFICES ASSUME JournalInv, [Next]_vars PROVE JournalInv'
  OBVIOUS
<1>1. /\ TypeOK /\ ProgressInv /\ BusyInv /\ WrittenInv
      /\ AckedInv /\ CutInv /\ OrderInv /\ ShownInv
  BY DEF JournalInv
<1> QED BY <1>1, TypeStep, BusyStep, WrittenStep, AckedStep, CutStep, OrderStep, ShownStep
        DEF JournalInv

(* The inductive invariant holds throughout. *)
THEOREM JournalInvariant == Spec => []JournalInv
BY InitInv, StepInv, PTL DEF Spec

(* In every state the variables are of their types. *)
THEOREM TypeCorrect == Spec => []TypeOK
<1>1. JournalInv => TypeOK
  BY DEF JournalInv
<1> QED BY <1>1, JournalInvariant, PTL

-----------------------------------------------------------------------------
(* No more rows are lost than writes failed *)

(* A row that a scan does not find stands behind a line that was cut. *)
LEMMA LostBehindCut ==
  ASSUME TypeOK, AckedInv, ~Fails, NEW row \in acked, row \notin {RowAt(i) : i \in Scanned}
  PROVE  \E j \in Unfinished : j + 1 \in DOMAIN log /\ RowAt(j + 1) = row
<1>1. DOMAIN log = 1..Len(log) /\ Len(log) \in Nat
  BY LogFacts
<1>2. PICK i \in DOMAIN log : log[i].size = "line" /\ RowAt(i) = row
  BY DEF AckedInv
<1>3. i \notin Scanned
  BY <1>2
<1>4. i > 1 /\ log[i - 1].size # "line"
  BY <1>1, <1>2, <1>3 DEF Scanned, Parses, Glued
<1>5. i - 1 \in DOMAIN log /\ i - 1 # Len(log) /\ (i - 1) + 1 = i
  BY <1>1, <1>4
<1>6. i - 1 \in Unfinished
  BY <1>4, <1>5 DEF Unfinished
<1> QED BY <1>2, <1>5, <1>6

(* A piece alone. *)
LEMMA OneOfASequence ==
  ASSUME NEW S, NEW s \in Seq(S), NEW i \in 1..Len(s)
  PROVE  SubSeq(s, i, i) = <<s[i]>>
<1>1. s[i] \in S /\ i \in Int /\ \A k \in i..i : s[k] \in S
  OBVIOUS
<1>2. SubSeq(s, i, i) \in Seq(S)
  BY ONLY <1>1, SubSeqProperties
<1>3. Len(SubSeq(s, i, i)) = 1 /\ SubSeq(s, i, i)[1] = s[i]
  OBVIOUS
<1>4. PICK one \in Seq(S) : one = SubSeq(s, i, i)
  BY <1>2
<1>5. /\ <<s[i]>> \in Seq(S) /\ Len(one) = Len(<<s[i]>>)
      /\ \A k \in 1..Len(one) : one[k] = <<s[i]>>[k]
  BY <1>1, <1>3, <1>4
<1>6. one = <<s[i]>>
  BY ONLY <1>5, SeqEqual
<1> QED BY <1>4, <1>6

(* A scan fails at one row, or behind a line that was cut. *)
LEMMA FailsByOneOrCut ==
  ASSUME TypeOK, CutInv, Fails
  PROVE  cuts > 0 \/ \E i \in DOMAIN log : TooLong(<<log[i]>>)
<1>1. DOMAIN log = 1..Len(log) /\ Len(log) \in Nat /\ log \in Seq(Pieces)
  BY LogFacts
<1>2. PICK i \in DOMAIN log : \E j \in i..Len(log) :
        (\A k \in (i + 1)..j : Glued(k)) /\ TooLong(SubSeq(log, i, j))
  BY DEF Fails
<1>3. PICK j \in i..Len(log) :
        (\A k \in (i + 1)..j : Glued(k)) /\ TooLong(SubSeq(log, i, j))
  BY <1>2
<1>4. CASE i = j
  <2>1. i \in 1..Len(log)
    BY <1>1
  <2>2. SubSeq(log, i, i) = <<log[i]>>
    BY ONLY <1>1, <2>1, OneOfASequence
  <2> QED BY <1>3, <1>4, <2>2
<1>5. CASE i # j
  <2>1. i + 1 \in (i + 1)..j /\ i \in 1..Len(log) /\ i # Len(log)
    BY <1>1, <1>3, <1>5
  <2>2. log[(i + 1) - 1].size # "line" /\ (i + 1) - 1 = i
    BY <1>1, <1>3, <2>1 DEF Glued
  <2>3. i \in Unfinished
    BY <1>1, <2>1, <2>2 DEF Unfinished
  <2>4. IsFiniteSet(Unfinished) /\ Cardinality(Unfinished) \in Nat
    BY UnfinishedFinite
  <2>5. Cardinality(Unfinished) # 0
    BY <2>3, <2>4, FS_EmptySet
  <2>6. cuts \in 0..MaxCuts /\ MaxCuts \in Nat /\ Cardinality(Unfinished) <= cuts
    BY JournalAssumption DEF TypeOK, CutInv
  <2>7. PICK c \in Nat : c = Cardinality(Unfinished)
    BY <2>4
  <2>8. cuts > 0
    BY <2>5, <2>6, <2>7
  <2> QED BY <2>8
<1> QED BY <1>4, <1>5

(* The invariant bounds what is lost, and what is found too early. *)
LEMMA RowsAreFoundByInv ==
  ASSUME TypeOK, BusyInv, AckedInv, CutInv
  PROVE  RowsAreFound
<1> DEFINE seen == {RowAt(i) : i \in Scanned}
<1>1. DOMAIN log = 1..Len(log) /\ Len(log) \in Nat
  BY LogFacts
<1>2. IsFiniteSet(Unfinished) /\ Cardinality(Unfinished) \in Nat /\ Cardinality(Unfinished) <= cuts
  BY UnfinishedFinite DEF CutInv
<1>3. cuts \in Nat
  <2>1. cuts \in 0..MaxCuts /\ MaxCuts \in Nat
    BY JournalAssumption DEF TypeOK
  <2> QED BY <2>1
<1>4. ASSUME ~Fails PROVE Cardinality(acked \ seen) <= cuts
  <2>1. PICK f : f = [j \in Unfinished |-> RowAt(j + 1)]
    OBVIOUS
  <2>2. f \in Surjection(Unfinished, {f[j] : j \in Unfinished})
    BY <2>1 DEF Surjection
  <2>3. /\ IsFiniteSet({f[j] : j \in Unfinished})
        /\ Cardinality({f[j] : j \in Unfinished}) <= Cardinality(Unfinished)
    BY <1>2, <2>2, FS_Surjection
  <2>4. acked \ seen \in SUBSET {f[j] : j \in Unfinished}
    BY <1>4, <2>1, LostBehindCut
  <2>5. /\ IsFiniteSet(acked \ seen)
        /\ Cardinality(acked \ seen) <= Cardinality({f[j] : j \in Unfinished})
    BY <2>3, <2>4, FS_Subset
  <2>6. PICK a, b, c : /\ a = Cardinality(acked \ seen)
                       /\ b = Cardinality({f[j] : j \in Unfinished})
                       /\ c = Cardinality(Unfinished)
    OBVIOUS
  <2>7. a \in Nat /\ b \in Nat /\ c \in Nat /\ a <= b /\ b <= c /\ c <= cuts
    BY <1>2, <2>3, <2>5, <2>6, FS_CardinalityType
  <2>8. a <= cuts
    BY <1>3, <2>7
  <2> QED BY <2>6, <2>8
<1>5. ASSUME Fails PROVE cuts > 0 \/ \E i \in DOMAIN log : TooLong(<<log[i]>>)
  BY <1>5, FailsByOneOrCut
<1>6. Cardinality(seen \ acked) <= cuts
  <2>1. CASE seen \ acked = {}
    BY <1>3, <2>1, FS_EmptySet
  <2>2. CASE seen \ acked # {}
    <3>1. ASSUME NEW i \in Scanned, RowAt(i) \notin acked
          PROVE  i = Len(log) /\ log[i].size = "body"
      <4>1. i \in DOMAIN log /\ Parses(i)
        BY DEF Scanned
      <4>2. log[i].size # "line"
        BY <3>1, <4>1 DEF AckedInv
      <4> QED BY <4>1, <4>2 DEF Parses
    <3>2. PICK i \in Scanned : RowAt(i) \notin acked
      BY <2>2
    <3>3. i \in DOMAIN log /\ i = Len(log) /\ log[i].size = "body"
      BY <3>1, <3>2 DEF Scanned
    <3>4. i \in Unfinished
      <4>1. busy # None => log[i].size \in {"part", "most"}
        BY <3>3 DEF BusyInv, Piece
      <4> QED BY <3>3, <4>1 DEF Unfinished
    <3>5. Cardinality(Unfinished) # 0
      BY <1>2, <3>4, FS_EmptySet
    <3>6. seen \ acked = {RowAt(i)}
      <4>1. ASSUME NEW row \in seen \ acked PROVE row = RowAt(i)
        <5>1. PICK j \in Scanned : row = RowAt(j)
          OBVIOUS
        <5>2. j = i
          BY <3>1, <3>3, <4>1, <5>1
        <5> QED BY <5>1, <5>2
      <4>2. RowAt(i) \in seen \ acked
        BY <3>2
      <4> QED BY <4>1, <4>2
    <3>7. Cardinality(seen \ acked) = 1
      BY <3>6, FS_Singleton
    <3>8. PICK c : c = Cardinality(Unfinished)
      OBVIOUS
    <3>9. 1 <= cuts
      <4>1. c \in Nat /\ c # 0 /\ c <= cuts
        BY <1>2, <3>5, <3>8
      <4> QED BY <1>3, <4>1
    <3> QED BY <3>7, <3>9
  <2> QED BY <2>1, <2>2
<1> QED BY <1>4, <1>5, <1>6 DEF RowsAreFound

(* A scan that gets through misses no more of the rows whose append          *)
(* succeeded than writes failed, and one that does not get through met a row *)
(* too long on its own, or what a failed write left; no more rows are read   *)
(* without having been appended than writes failed.                          *)
THEOREM NoMoreLostThanCut == Spec => []RowsAreFound
<1>1. JournalInv => RowsAreFound
  BY RowsAreFoundByInv DEF JournalInv
<1> QED BY <1>1, JournalInvariant, PTL

-----------------------------------------------------------------------------
(* The list of runs and the check of a resume *)

(* Of the things that a bounded number is given to, one has the greatest. *)
LEMMA GreatestBy ==
  ASSUME NEW X, X # {}, NEW f, NEW M \in Nat, \A x \in X : f[x] \in 0..M
  PROVE  \E x \in X : \A y \in X : f[y] <= f[x]
<1> DEFINE Gaps == {M - f[x] : x \in X}
<1>1. Gaps \in SUBSET Nat /\ Gaps # {}
  OBVIOUS
<1>2. PICK gap \in Gaps : \A other \in Gaps : gap <= other
  BY <1>1, LeastNumber
<1>3. PICK x \in X : gap = M - f[x]
  OBVIOUS
<1>4. ASSUME NEW y \in X PROVE f[y] <= f[x]
  <2>1. M - f[x] <= M - f[y]
    BY <1>2, <1>3
  <2>2. f[x] \in 0..M /\ f[y] \in 0..M
    OBVIOUS
  <2> QED BY <2>1, <2>2
<1> QED BY <1>4

(* Max takes the greatest. *)
LEMMA MaxIsGreatest ==
  ASSUME NEW N \in Nat, NEW X \in SUBSET (1..N), X # {}
  PROVE  Max(X) \in X /\ \A m \in X : m <= Max(X)
<1>1. PICK f : f = [x \in X |-> x]
  OBVIOUS
<1>2. \A x \in X : f[x] \in 0..N
  BY <1>1
<1>3. PICK x \in X : \A y \in X : f[y] <= f[x]
  BY <1>2, GreatestBy
<1>4. \A y \in X : x >= y
  BY <1>1, <1>3
<1>5. Max(X) \in X /\ \A y \in X : Max(X) >= y
  BY <1>4, Zenon DEF Max
<1>6. PICK max : max = Max(X)
  OBVIOUS
<1>7. \A m \in X : m <= max
  <2>1. \A y \in X : max \in 1..N /\ y \in 1..N /\ max >= y
    BY <1>5, <1>6
  <2> QED BY <2>1
<1> QED BY <1>5, <1>6, <1>7

(* A row is not None. *)
LEMMA RowIsNotNone ==
  ASSUME TypeOK, NEW i \in 1..Len(log)
  PROVE  RowAt(i) # None
<1>1. RowAt(i) \in Rows
  BY LogFacts
<1>2. Rows \subseteq [writer: Hooks \cup Runs, kind: {"decision", "start", "end"}, ended: Nat]
  BY CountOfRuns DEF Rows, Writers
<1> QED BY <1>1, <1>2, JournalAssumption

(* What an index row is. *)
LEMMA IndexRowFacts ==
  ASSUME TypeOK, NEW id, NEW kind
  PROVE  /\ IndexRows(id, kind) \in SUBSET (1..Len(log)) /\ IndexRows(id, kind) \in SUBSET Nat
         /\ IndexRows(id, kind) \in SUBSET Scanned
         /\ \A i \in IndexRows(id, kind) : RowAt(i) # None /\ Session[RowAt(i).writer] = id
                                           /\ RowAt(i).kind = kind
<1>1. DOMAIN log = 1..Len(log) /\ Len(log) \in Nat
  BY LogFacts
<1>2. IndexRows(id, kind) \in SUBSET (1..Len(log))
  BY <1>1 DEF IndexRows, Scanned
<1>3. \A i \in IndexRows(id, kind) : RowAt(i) # None
  BY <1>2, RowIsNotNone
<1> QED BY <1>1, <1>2, <1>3 DEF IndexRows

(* The row with the latest end. *)
LatestEnd(id) ==
  CHOOSE i \in IndexRows(id, "end") : \A j \in IndexRows(id, "end") :
    RowAt(j).ended <= RowAt(i).ended

(* It is there when there are end rows. *)
LEMMA LatestEndFacts ==
  ASSUME TypeOK, NEW id, IndexRows(id, "end") # {}
  PROVE  /\ LatestEnd(id) \in IndexRows(id, "end")
         /\ \A j \in IndexRows(id, "end") : RowAt(j).ended <= RowAt(LatestEnd(id)).ended
<1>1. PICK X : X = IndexRows(id, "end")
  OBVIOUS
<1>2. PICK f : f = [i \in X |-> RowAt(i).ended]
  OBVIOUS
<1>3. PICK M \in Nat : M = Cardinality(Runs)
  BY CountOfRuns
<1>4. X \in SUBSET (1..Len(log)) /\ X # {}
  BY <1>1, IndexRowFacts
<1>5. \A i \in X : f[i] \in 0..M
  BY <1>2, <1>3, <1>4, RowFacts
<1>6. PICK i \in X : \A j \in X : f[j] <= f[i]
  BY <1>4, <1>5, GreatestBy
<1>7. \A j \in X : RowAt(j).ended <= RowAt(i).ended
  BY <1>2, <1>6
<1> QED BY <1>1, <1>7, Zenon DEF LatestEnd

(* The row that a scan reads is of a run that got as far, or died over it.   *)
LEMMA ReadRowWasWritten ==
  ASSUME TypeOK, BusyInv, WrittenInv, file = "index", NEW i \in Scanned
  PROVE  /\ RowAt(i).writer \in Runs
         /\ at[RowAt(i).writer] > 0 \/ RowAt(i).writer \in dead
<1>1. i \in DOMAIN log /\ DOMAIN log = 1..Len(log) /\ log[i].size \in {"line", "body"}
  BY LogFacts DEF Scanned, Parses
<1>2. /\ Written(i) /\ RowAt(i).writer \in Writers /\ Rank(RowAt(i).kind) \in 1..2
      /\ at[RowAt(i).writer] \in 0..2
  BY <1>1, RowFacts DEF WrittenInv
<1>3. ~(RowAt(i).writer = busy /\ i = Len(log))
  BY <1>1, <1>2, NoneIsNoWriter DEF BusyInv, Piece
<1> QED BY <1>2, <1>3 DEF Written

(* From the invariant: of an id's end rows the last is the latest. *)
LEMMA ListAgreesByInv ==
  ASSUME TypeOK, BusyInv, WrittenInv, OrderInv
  PROVE  ListAgreesWithResume
<1> SUFFICES ASSUME file = "index", NEW id \in Ids
    PROVE /\ \/ Listed(id) = FindLatest(id)
             \/ id \in overlap
             \/ IndexRows(id, "end") = {} /\ Cardinality(IndexRows(id, "start")) > 1
          /\ Listed(id) = None <=> FindLatest(id) = None
          /\ \A cwd \in {Cwd[r] : r \in Runs} : MayResume(id, cwd, FALSE) =>
               \/ FindLatest(id) = None
               \/ \E r \in Runs : Session[r] = id /\ Cwd[r] = cwd /\ (at[r] > 0 \/ r \in dead)
  BY DEF ListAgreesWithResume
<1>1. PICK N \in Nat : N = Len(log) /\ DOMAIN log = 1..N
  BY LogFacts
<1>2. PICK E, S : E = IndexRows(id, "end") /\ S = IndexRows(id, "start")
  OBVIOUS
<1>3. /\ E \in SUBSET (1..N) /\ S \in SUBSET (1..N) /\ E \in SUBSET Nat /\ S \in SUBSET Nat
      /\ \A i \in E \cup S : i \in Scanned /\ RowAt(i) # None /\ Session[RowAt(i).writer] = id
      /\ \A i \in E : RowAt(i).kind = "end"
  BY <1>1, <1>2, IndexRowFacts
<1>4. FindLatest(id) = IF E # {} THEN RowAt(Max(E))
                       ELSE IF S # {} THEN RowAt(Max(S)) ELSE None
  BY <1>2 DEF FindLatest
<1>5. Listed(id) = IF E # {} THEN RowAt(LatestEnd(id))
                   ELSE IF S # {} THEN RowAt(Min(S)) ELSE None
  BY <1>2 DEF Listed, LatestEnd
<1>6. E # {} => Max(E) \in E /\ LatestEnd(id) \in E
  BY <1>2, <1>3, MaxIsGreatest, LatestEndFacts
<1>7. S # {} => Max(S) \in S /\ Min(S) \in S
  BY <1>3, MaxIsGreatest, MinIsLeast
<1>8. ASSUME E # {}, id \notin overlap PROVE Listed(id) = FindLatest(id)
  <2>1. PICK max, late : max = Max(E) /\ late = LatestEnd(id)
    OBVIOUS
  <2>2. max \in E /\ late \in E /\ late <= max
    BY <1>3, <1>6, <1>8, <2>1, MaxIsGreatest
  <2>3. RowAt(max).ended <= RowAt(late).ended
    BY <1>2, <1>8, <2>1, <2>2, LatestEndFacts
  <2>4. EndRow(max, id) /\ EndRow(late, id)
    BY <1>1, <1>3, <2>2 DEF EndRow
  <2>5. late < max => RowAt(late).ended < RowAt(max).ended
    BY <1>1, <1>3, <1>8, <2>2, <2>4 DEF OrderInv
  <2>6. RowAt(late).ended \in Nat /\ RowAt(max).ended \in Nat
    <3>1. PICK M \in Nat : M = Cardinality(Runs)
      BY CountOfRuns
    <3>2. RowAt(late).ended \in 0..M /\ RowAt(max).ended \in 0..M
      BY <1>1, <1>3, <2>2, <3>1, RowFacts
    <3> QED BY <3>2
  <2>7. late = max
    BY <1>3, <2>2, <2>3, <2>5, <2>6
  <2> QED BY <1>4, <1>5, <1>8, <2>1, <2>7
<1>9. ASSUME E = {}, S # {}, ~(Cardinality(S) > 1) PROVE Listed(id) = FindLatest(id)
  <2>1. IsFiniteSet(S)
    <3>1. IsFiniteSet(1..N)
      BY FS_Interval
    <3> QED BY <1>3, <3>1, FS_Subset
  <2>2. Cardinality(S) \in Nat /\ Cardinality(S) # 0
    BY <1>9, <2>1, FS_CardinalityType, FS_EmptySet
  <2>3. Cardinality(S) = 1
    BY <1>9, <2>2
  <2>4. PICK x : S = {x}
    BY <2>1, <2>3, FS_Singleton
  <2>5. Max(S) = x /\ Min(S) = x
    BY <1>7, <1>9, <2>4
  <2> QED BY <1>4, <1>5, <1>9, <2>5
<1>10. \/ Listed(id) = FindLatest(id)
       \/ id \in overlap
       \/ E = {} /\ Cardinality(S) > 1
  BY <1>4, <1>5, <1>8, <1>9
<1>11. Listed(id) = None <=> FindLatest(id) = None
  BY <1>3, <1>4, <1>5, <1>6, <1>7
<1>12. ASSUME NEW cwd, MayResume(id, cwd, FALSE), FindLatest(id) # None
       PROVE  \E r \in Runs : Session[r] = id /\ Cwd[r] = cwd /\ (at[r] > 0 \/ r \in dead)
  <2>1. PICK i \in E \cup S : FindLatest(id) = RowAt(i)
    BY <1>4, <1>6, <1>7, <1>12
  <2>2. Cwd[RowAt(i).writer] = cwd
    BY <1>12, <2>1 DEF MayResume
  <2>3. /\ RowAt(i).writer \in Runs /\ Session[RowAt(i).writer] = id
        /\ at[RowAt(i).writer] > 0 \/ RowAt(i).writer \in dead
    BY <1>3, <2>1, ReadRowWasWritten
  <2> QED BY <2>2, <2>3
<1> QED BY <1>2, <1>10, <1>11, <1>12

(* What `run --list` says of an id and what --resume goes by are the same    *)
(* row, whatever was lost, unless two runs of that id were in flight at once *)
(* or there is only more than one start; and nobody resumes, unforced, in a  *)
(* directory where no run of the id was.                                    *)
THEOREM ListAndResumeAgree == Spec => []ListAgreesWithResume
<1>1. JournalInv => ListAgreesWithResume
  BY ListAgreesByInv DEF JournalInv
<1> QED BY <1>1, JournalInvariant, PTL

-----------------------------------------------------------------------------
(* The rows at some positions                                              *)
(*                                                                         *)
(* RowsIn is defined by a recursive function; that its equation has a      *)
(* solution, and that it has rows, follows from the least position at which*)
(* it would fail.                                                          *)

Collects(f, positions, N) ==
  f = [n \in 0..N |->
         IF n = 0 THEN <<>>
         ELSE IF n \in positions THEN Append(f[n - 1], RowAt(n)) ELSE f[n - 1]]

(* What the equation says of each position. *)
Collected(f, positions, N) ==
  /\ f[0] = <<>>
  /\ \A n \in 1..N :
       f[n] = IF n \in positions THEN Append(f[n - 1], RowAt(n)) ELSE f[n - 1]

(* Nothing else than what the equation says. *)
LEMMA CollectsUnfold ==
  ASSUME NEW f, NEW positions, NEW N \in Nat, Collects(f, positions, N)
  PROVE  Collected(f, positions, N)
<1>1. \A n \in 0..N : f[n] =
        IF n = 0 THEN <<>>
        ELSE IF n \in positions THEN Append(f[n - 1], RowAt(n)) ELSE f[n - 1]
  BY Zenon DEF Collects
<1>2. 0 \in 0..N /\ \A n \in 1..N : n \in 0..N /\ n # 0
  OBVIOUS
<1> QED BY <1>1, <1>2 DEF Collected

(* The equation has a solution. *)
LEMMA CollectionExists ==
  ASSUME NEW positions, NEW N \in Nat
  PROVE  \E f : Collects(f, positions, N)
<1> DEFINE X == {n \in Nat : ~\E f : Collects(f, positions, n)}
<1> SUFFICES ASSUME X # {} PROVE FALSE
  OBVIOUS
<1>1. /\ X \in SUBSET Nat /\ (\A n \in X : ~\E f : Collects(f, positions, n))
      /\ \A n \in Nat : n \notin X => \E f : Collects(f, positions, n)
  OBVIOUS
<1> HIDE DEF X
<1>2. PICK n \in X : \A m \in X : n <= m
  BY <1>1, LeastNumber
<1>3. CASE n = 0
  <2>1. PICK f : f = [m \in 0..0 |-> <<>>]
    OBVIOUS
  <2>2. [m \in 0..0 |->
           IF m = 0 THEN <<>>
           ELSE IF m \in positions THEN Append(f[m - 1], RowAt(m)) ELSE f[m - 1]] = f
    BY <2>1
  <2>3. Collects(f, positions, n)
    BY <1>3, <2>2 DEF Collects
  <2> QED BY <1>1, <1>2, <2>3
<1>4. CASE n # 0
  <2>1. n - 1 \in Nat /\ n - 1 \notin X
    BY <1>1, <1>2, <1>4
  <2>2. PICK f : Collects(f, positions, n - 1)
    BY <1>1, <2>1
  <2>3. PICK last : last = IF n \in positions THEN Append(f[n - 1], RowAt(n)) ELSE f[n - 1]
    OBVIOUS
  <2>4. PICK h : h = [m \in 0..n |-> IF m = n THEN last ELSE f[m]]
    OBVIOUS
  <2>5. f[0] = <<>> /\ \A m \in 1..(n - 1) :
          f[m] = IF m \in positions THEN Append(f[m - 1], RowAt(m)) ELSE f[m - 1]
    BY <2>1, <2>2, CollectsUnfold DEF Collected
  <2>6. \A m \in 0..n : h[m] =
          IF m = 0 THEN <<>>
          ELSE IF m \in positions THEN Append(h[m - 1], RowAt(m)) ELSE h[m - 1]
    <3> SUFFICES ASSUME NEW m \in 0..n
                 PROVE  h[m] = IF m = 0 THEN <<>>
                               ELSE IF m \in positions THEN Append(h[m - 1], RowAt(m))
                               ELSE h[m - 1]
      OBVIOUS
    <3>1. CASE m = 0
      BY <1>2, <1>4, <2>4, <2>5, <3>1
    <3>2. CASE m = n
      <4>1. h[m] = last /\ h[m - 1] = f[n - 1]
        BY <1>1, <1>2, <1>4, <2>4, <3>2
      <4> QED BY <1>4, <2>3, <3>2, <4>1
    <3>3. CASE m # 0 /\ m # n
      <4>1. m \in 1..(n - 1) /\ m - 1 \in 0..n /\ m - 1 # n
        BY <1>1, <1>2, <3>3
      <4>2. h[m] = f[m] /\ h[m - 1] = f[m - 1]
        BY <2>4, <3>3, <4>1
      <4> QED BY <2>5, <3>3, <4>1, <4>2
    <3> QED BY <3>1, <3>2, <3>3
  <2>7. h = [m \in 0..n |-> h[m]]
    BY <2>4
  <2>8. Collects(h, positions, n)
    BY <2>6, <2>7 DEF Collects
  <2> QED BY <1>1, <1>2, <2>8
<1> QED BY <1>3, <1>4

(* RowsIn is what the equation's solution has at the last position. *)
LEMMA RowsInUnfold ==
  ASSUME NEW positions, NEW N \in Nat, N = Len(log)
  PROVE  \E f : Collected(f, positions, N) /\ RowsIn(positions) = f[N]
<1> DEFINE Solves(f) == f = [n \in 0..Len(log) |->
             IF n = 0 THEN <<>>
             ELSE IF n \in positions THEN Append(f[n - 1], RowAt(n)) ELSE f[n - 1]]
<1>1. ASSUME NEW f PROVE Solves(f) <=> Collects(f, positions, N)
  BY Zenon DEF Collects
<1>2. \E f : Solves(f)
  BY <1>1, CollectionExists, Zenon
<1> DEFINE solution == CHOOSE f : Solves(f)
<1>3. Solves(solution)
  BY <1>2, Zenon
<1>4. RowsIn(positions) = solution[Len(log)]
  BY Zenon DEF RowsIn
<1> HIDE DEF Solves
<1>5. PICK f : f = solution
  OBVIOUS
<1>6. Collected(f, positions, N)
  BY <1>1, <1>3, <1>5, CollectsUnfold
<1> HIDE DEF solution
<1> QED BY <1>4, <1>5, <1>6

(* What is collected are rows. *)
LEMMA RowsInAreRows ==
  ASSUME TypeOK, NEW positions
  PROVE  RowsIn(positions) \in Seq(Rows)
<1>1. PICK N \in Nat : N = Len(log)
  BY LogFacts
<1>2. PICK f : Collected(f, positions, N) /\ RowsIn(positions) = f[N]
  BY <1>1, RowsInUnfold
<1> DEFINE X == {n \in 0..N : f[n] \notin Seq(Rows)}
<1> SUFFICES ASSUME X # {} PROVE FALSE
  BY <1>2
<1>3. X \in SUBSET Nat /\ (\A n \in X : n \in 0..N /\ f[n] \notin Seq(Rows))
      /\ \A n \in 0..N : n \notin X => f[n] \in Seq(Rows)
  OBVIOUS
<1> HIDE DEF X
<1>4. PICK n \in X : \A m \in X : n <= m
  BY <1>3, LeastNumber
<1>5. n # 0
  BY <1>2, <1>3, <1>4, EmptySeq DEF Collected
<1>6. n \in 1..N /\ n - 1 \in 0..N /\ n - 1 \notin X
  BY <1>3, <1>4, <1>5
<1>7. f[n - 1] \in Seq(Rows) /\ RowAt(n) \in Rows
  BY <1>1, <1>3, <1>6, LogFacts
<1>8. f[n] \in Seq(Rows)
  <2>1. Append(f[n - 1], RowAt(n)) \in Seq(Rows)
    BY <1>7, AppendProperties
  <2>2. f[n] = Append(f[n - 1], RowAt(n)) \/ f[n] = f[n - 1]
    BY <1>2, <1>6 DEF Collected
  <2> QED BY <1>7, <2>1, <2>2
<1> QED BY <1>3, <1>4, <1>8

-----------------------------------------------------------------------------
(* The scans tell one story *)

(* Reverse position by position. *)
LEMMA ReverseFacts ==
  ASSUME NEW R, NEW s \in Seq(R), NEW N \in Nat, N = Len(s)
  PROVE  /\ Reverse(s) \in Seq(R) /\ Len(Reverse(s)) = N
         /\ \A i \in 1..N : Reverse(s)[i] = s[N - i + 1]
<1>1. s \in [1..N -> R]
  BY LenProperties
<1>2. \A i \in 1..N : N - i + 1 \in 1..N
  OBVIOUS
<1>3. Reverse(s) \in [1..N -> R] /\ \A i \in 1..N : Reverse(s)[i] = s[N - i + 1]
  BY <1>1, <1>2 DEF Reverse
<1>4. Reverse(s) \in Seq(R)
  BY <1>3, SeqDef
<1>5. Len(Reverse(s)) = N
  <2>1. DOMAIN Reverse(s) = 1..N /\ DOMAIN Reverse(s) = 1..Len(Reverse(s))
        /\ Len(Reverse(s)) \in Nat
    BY <1>3, <1>4, LenProperties
  <2> QED BY <2>1
<1> QED BY <1>3, <1>4, <1>5

(* How many of N there are with a limit of n. *)
Fewer(N, n) == IF N > n THEN n ELSE N

(* FirstOf position by position. *)
LEMMA FirstOfFacts ==
  ASSUME NEW R, NEW s \in Seq(R), NEW n \in Nat
  PROVE  /\ FirstOf(s, n) \in Seq(R) /\ Len(FirstOf(s, n)) = Fewer(Len(s), n)
         /\ \A i \in 1..Fewer(Len(s), n) : FirstOf(s, n)[i] = s[i]
<1> PICK N \in Nat : N = Len(s)
  BY LenProperties
<1> PICK M : M = Fewer(N, n)
  OBVIOUS
<1>1. M \in 0..N
  BY DEF Fewer
<1>2. FirstOf(s, n) = SubSeq(s, 1, M)
  BY DEF FirstOf, Fewer
<1>3. \A i \in 1..M : s[i] \in R
  BY <1>1, ElementOfSeq
<1>4. /\ SubSeq(s, 1, M) \in Seq(R)
      /\ Len(SubSeq(s, 1, M)) = IF 1 <= M THEN M - 1 + 1 ELSE 0
      /\ \A i \in 1..(M - 1 + 1) : SubSeq(s, 1, M)[i] = s[1 + i - 1]
  BY <1>1, <1>3, SubSeqProperties
<1> QED BY <1>1, <1>2, <1>4

(* LastOf position by position. *)
LEMMA LastOfFacts ==
  ASSUME NEW R, NEW s \in Seq(R), NEW n \in Nat
  PROVE  /\ LastOf(s, n) \in Seq(R) /\ Len(LastOf(s, n)) = Fewer(Len(s), n)
         /\ \A i \in 1..Fewer(Len(s), n) :
              LastOf(s, n)[i] = s[Len(s) - Fewer(Len(s), n) + i]
<1> PICK N \in Nat : N = Len(s)
  BY LenProperties
<1> PICK M : M = Fewer(N, n)
  OBVIOUS
<1>1. M \in 0..N
  BY DEF Fewer
<1>2. LastOf(s, n) = SubSeq(s, N - M + 1, N)
  <2>1. (IF Len(s) > n THEN Len(s) - n + 1 ELSE 1) = N - M + 1
    BY DEF Fewer
  <2> QED BY <2>1 DEF LastOf
<1>3. PICK m \in Int : m = N - M + 1
  BY <1>1
<1>4. \A i \in m..N : s[i] \in R
  <2>1. \A i \in m..N : i \in 1..N
    BY <1>1, <1>3
  <2> QED BY <2>1, ElementOfSeq
<1>5. /\ SubSeq(s, m, N) \in Seq(R)
      /\ Len(SubSeq(s, m, N)) = IF m <= N THEN N - m + 1 ELSE 0
      /\ \A i \in 1..(N - m + 1) : SubSeq(s, m, N)[i] = s[m + i - 1]
  BY <1>4, SubSeqProperties
<1>6. \A i \in 1..M : SubSeq(s, m, N)[i] = s[N - M + i]
  <2>1. \A i \in 1..M : i \in 1..(N - m + 1) /\ m + i - 1 = N - M + i
    BY <1>1, <1>3
  <2> QED BY <1>5, <2>1
<1>7. Len(SubSeq(s, m, N)) = M
  BY <1>1, <1>3, <1>5
<1> QED BY <1>2, <1>3, <1>5, <1>6, <1>7

(* The first of a reversed list, in reverse, are the last of the list. *)
LEMMA NewestFirst ==
  ASSUME NEW R, NEW s \in Seq(R), NEW n \in Nat
  PROVE  Reverse(FirstOf(Reverse(s), n)) = LastOf(s, n)
<1>1. PICK N \in Nat : N = Len(s)
  BY LenProperties
<1>2. PICK M \in 0..N : M = Fewer(N, n)
  BY DEF Fewer
<1>3. PICK back : back = Reverse(s)
  OBVIOUS
<1>4. back \in Seq(R) /\ Len(back) = N /\ \A i \in 1..N : back[i] = s[N - i + 1]
  BY <1>1, <1>3, ReverseFacts
<1>5. PICK first : first = FirstOf(back, n)
  OBVIOUS
<1>6. first \in Seq(R) /\ Len(first) = M /\ \A i \in 1..M : first[i] = back[i]
  <2>1. /\ FirstOf(back, n) \in Seq(R) /\ Len(FirstOf(back, n)) = Fewer(N, n)
        /\ \A i \in 1..Fewer(N, n) : FirstOf(back, n)[i] = back[i]
    <3>1. FirstOf(back, n) \in Seq(R) /\ Len(FirstOf(back, n)) = Fewer(Len(back), n)
      BY <1>4, FirstOfFacts
    <3>2. \A i \in 1..Fewer(Len(back), n) : FirstOf(back, n)[i] = back[i]
      BY <1>4, FirstOfFacts
    <3> QED BY <1>4, <3>1, <3>2
  <2> QED BY <1>2, <1>5, <2>1
<1>7. /\ Reverse(first) \in Seq(R) /\ Len(Reverse(first)) = M
      /\ \A i \in 1..M : Reverse(first)[i] = first[M - i + 1]
  BY <1>6, ReverseFacts
<1>8. /\ LastOf(s, n) \in Seq(R) /\ Len(LastOf(s, n)) = M
      /\ \A i \in 1..M : LastOf(s, n)[i] = s[N - M + i]
  <2>1. /\ LastOf(s, n) \in Seq(R) /\ Len(LastOf(s, n)) = Fewer(N, n)
        /\ \A i \in 1..Fewer(N, n) : LastOf(s, n)[i] = s[N - Fewer(N, n) + i]
    <3>1. LastOf(s, n) \in Seq(R) /\ Len(LastOf(s, n)) = Fewer(Len(s), n)
      BY LastOfFacts
    <3>2. ASSUME NEW i \in 1..Fewer(Len(s), n)
          PROVE  LastOf(s, n)[i] = s[Len(s) - Fewer(Len(s), n) + i]
      BY LastOfFacts
    <3> QED BY <1>1, <3>1, <3>2
  <2> QED BY <1>2, <2>1
<1>9. ASSUME NEW i \in 1..M PROVE Reverse(first)[i] = LastOf(s, n)[i]
  <2>1. M - i + 1 \in 1..M /\ M - i + 1 \in 1..N /\ N - (M - i + 1) + 1 = N - M + i
    BY <1>2
  <2>2. Reverse(first)[i] = s[N - (M - i + 1) + 1]
    BY <1>4, <1>6, <1>7, <2>1
  <2> QED BY <1>8, <2>1, <2>2
<1>10. Reverse(first) = LastOf(s, n)
  BY <1>7, <1>8, <1>9, SeqEqual
<1> QED BY <1>3, <1>5, <1>10

(* The newest of some of the newest rows is the newest of all. *)
LEMMA NewestIsLast ==
  ASSUME NEW R, NEW s \in Seq(R), NEW n \in Nat, n > 0
  PROVE  NewestOf(FirstOf(Reverse(s), n)) = IF s = <<>> THEN None ELSE Last(s)
<1>1. PICK N \in Nat : N = Len(s)
  BY LenProperties
<1>2. PICK M \in 0..N : M = Fewer(N, n)
  BY DEF Fewer
<1>3. PICK back : back = Reverse(s)
  OBVIOUS
<1>4. back \in Seq(R) /\ Len(back) = N /\ \A i \in 1..N : back[i] = s[N - i + 1]
  BY <1>1, <1>3, ReverseFacts
<1>5. PICK first : first = FirstOf(back, n)
  OBVIOUS
<1>6. first \in Seq(R) /\ Len(first) = M /\ \A i \in 1..M : first[i] = back[i]
  <2>1. /\ FirstOf(back, n) \in Seq(R) /\ Len(FirstOf(back, n)) = Fewer(N, n)
        /\ \A i \in 1..Fewer(N, n) : FirstOf(back, n)[i] = back[i]
    <3>1. FirstOf(back, n) \in Seq(R) /\ Len(FirstOf(back, n)) = Fewer(Len(back), n)
      BY <1>4, FirstOfFacts
    <3>2. \A i \in 1..Fewer(Len(back), n) : FirstOf(back, n)[i] = back[i]
      BY <1>4, FirstOfFacts
    <3> QED BY <1>4, <3>1, <3>2
  <2> QED BY <1>2, <1>5, <2>1
<1>7. CASE s = <<>>
  <2>1. N = 0 /\ M = 0
    BY <1>1, <1>2, <1>7, EmptySeq
  <2>2. first = <<>>
    BY <1>6, <2>1, EmptySeq
  <2> QED BY <1>3, <1>5, <1>7, <2>2 DEF NewestOf
<1>8. CASE s # <<>>
  <2>1. N > 0
    BY <1>1, <1>8, EmptySeq
  <2>2. M > 0
    BY <1>2, <2>1 DEF Fewer
  <2>3. first # <<>>
    BY <1>6, <2>2, EmptySeq
  <2>4. first[1] = s[N]
    <3>1. 1 \in 1..M /\ 1 \in 1..N /\ N - 1 + 1 = N
      BY <2>1, <2>2
    <3> QED BY <1>4, <1>6, <3>1
  <2> QED BY <1>1, <1>3, <1>5, <1>8, <2>3, <2>4 DEF NewestOf, Last
<1> QED BY <1>7, <1>8

(* `explain` picks the newest of the rows that `logs` finds. *)
LEMMA PickedIsNewest ==
  ASSUME TypeOK, NEW positions, NEW q, NEW n \in Nat, n > 0,
         positions = {i \in Scanned : Matches(RowAt(i), q)}
  PROVE  (IF RowsIn(positions) = <<>> THEN None ELSE Last(RowsIn(positions)))
           = NewestOf(Lookup(q, n))
<1>1. PICK rows : rows = RowsIn(positions)
  OBVIOUS
<1>2. rows \in Seq(Rows)
  BY <1>1, RowsInAreRows
<1>3. Lookup(q, n) = FirstOf(Reverse(rows), n)
  BY <1>1 DEF Lookup, Found
<1>4. NewestOf(FirstOf(Reverse(rows), n)) = IF rows = <<>> THEN None ELSE Last(rows)
  BY <1>2, NewestIsLast
<1> QED BY <1>1, <1>3, <1>4

(* From the invariant: the readers agree. *)
LEMMA ReadersAgreeByInv ==
  ASSUME TypeOK, ShownInv
  PROVE  ReadersAgree
<1>1. Scanned \subseteq 1..Len(log)
  BY LogFacts DEF Scanned
<1>2. ASSUME NEW q, NEW n \in 1..2 PROVE Reverse(LookupHistory(q, n)) = ScanLogs(q, n)
  <2>1. PICK rows : rows = Found(q)
    OBVIOUS
  <2>2. rows \in Seq(Rows)
    BY <2>1, RowsInAreRows DEF Found
  <2>3. LookupHistory(q, n) = FirstOf(Reverse(rows), n)
    BY <2>1 DEF LookupHistory, Lookup
  <2>4. n \in Nat
    OBVIOUS
  <2> QED BY <2>1, <2>2, <2>3, <2>4, NewestFirst DEF ScanLogs
<1>3. ASSUME NEW s, s # Unset
      PROVE  ExplainCommand(FALSE, s, None) = NewestOf(ListRecentActions(s, 0))
  <2>1. s # Unset
    BY <1>3
  <2>2. PICK q : q = [Wide EXCEPT !.session = s]
    OBVIOUS
  <2>3. q.session = s /\ q.tool = Unset
    BY <2>2 DEF Wide
  <2>4. PICK positions : positions = {i \in Scanned : \/ RowAt(i) = None
                                                    \/ Session[RowAt(i).writer] = s
                                                    \/ FALSE}
    OBVIOUS
  <2>5. \A i \in Scanned : (RowAt(i) = None \/ Session[RowAt(i).writer] = s)
                           <=> Matches(RowAt(i), q)
    BY <1>1, <2>1, <2>3, RowIsNotNone DEF Matches
  <2>6. positions = {i \in Scanned : Matches(RowAt(i), q)}
    BY <2>4, <2>5
  <2>7. (IF RowsIn(positions) = <<>> THEN None ELSE Last(RowsIn(positions)))
          = NewestOf(Lookup(q, 20))
    BY <2>6, PickedIsNewest
  <2>8. Picked(FALSE, s, None) = NewestOf(Lookup(q, 20))
    BY <2>4, <2>7 DEF Picked
  <2> QED BY <2>1, <2>2, <2>8 DEF ExplainCommand, ListRecentActions
<1>4. ExplainCommand(TRUE, Unset, None) = NewestOf(ListRecentActions(Unset, 1))
  <2>1. PICK q : q = [Wide EXCEPT !.session = Unset]
    OBVIOUS
  <2>2. q.session = Unset /\ q.tool = Unset
    BY <2>1 DEF Wide
  <2>3. PICK positions : positions = {i \in Scanned : \/ RowAt(i) = None
                                                    \/ Session[RowAt(i).writer] = Unset
                                                    \/ TRUE}
    OBVIOUS
  <2>4. positions = {i \in Scanned : Matches(RowAt(i), q)}
    BY <2>2, <2>3 DEF Matches
  <2>5. (IF RowsIn(positions) = <<>> THEN None ELSE Last(RowsIn(positions)))
          = NewestOf(Lookup(q, 1))
    BY <2>4, PickedIsNewest
  <2>6. Picked(TRUE, Unset, None) = NewestOf(Lookup(q, 1))
    BY <2>3, <2>5 DEF Picked
  <2> QED BY <2>1, <2>6 DEF ExplainCommand, ListRecentActions
<1>5. \A j, k \in DOMAIN tail.shown : j < k =>
        \E i, l \in DOMAIN log : /\ i < l
                                 /\ RowAt(i) = tail.shown[j]
                                 /\ RowAt(l) = tail.shown[k]
  BY DEF ShownInv
<1>6. \A s \in {Session[w] : w \in Writers} \ {Unset} :
        ExplainCommand(FALSE, s, None) = NewestOf(ListRecentActions(s, 0))
  BY <1>3
<1> QED BY <1>2, <1>4, <1>5, <1>6 DEF ReadersAgree

(* The scans of the eventlog, written three times over, and its tail tell    *)
(* one story.                                                              *)
THEOREM ReadersTellOneStory == Spec => []ReadersAgree
<1>1. JournalInv => ReadersAgree
  BY ReadersAgreeByInv DEF JournalInv
<1> QED BY <1>1, JournalInvariant, PTL

=============================================================================
