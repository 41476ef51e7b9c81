-------------------------- MODULE InstallerProofs --------------------------
(***************************************************************************)
(* Proofs about Installer, for any number of commands, seconds and saves.  *)
(*                                                                         *)
(* What the user saved last is not lost but for the two named exceptions:  *)
(* the argument does not depend on what merging and stripping compute, and *)
(* needs no types of settings, only which of the commands that have read   *)
(* settings.json has a copy of what, and that a backup just begun belongs  *)
(* to one command.                                                         *)
(*                                                                         *)
(* The types, that no event is hooked twice, and that a command which met  *)
(* nobody has done what it says: these rest on what merging and stripping  *)
(* compute, hence first on lemmas about the lists of hook entries.         *)
(***************************************************************************)
EXTENDS Installer, SequenceTheorems, FiniteSetTheorems, WellFoundedInduction, TLAPS

-----------------------------------------------------------------------------
(* What the user saved: the inductive invariant *)

PCs == {"idle", "look", "openDoc", "fillDoc", "read", "backup", "fillBackup", "open", "fill",
        "done", "failed"}

(* The functions are functions, and slots are seconds. *)
ShapeInv ==
  /\ pc \in [Commands -> PCs]
  /\ slot \in [Commands -> Seconds]
  /\ second \in Seconds
  /\ backups = [s \in Seconds |-> backups[s]]
  /\ raw = [c \in Commands |-> raw[c]]

InBackup == \E s \in Seconds : backups[s] = Whole(saved)

(* What is claimed as long as neither exception has happened. *)
Undisturbed == saved # Blank /\ ~overtaken /\ ~collided

(* A command that has read something else came after a backup of the save. *)
ReadersInv ==
  \A c \in Commands : HasRead(c) /\ raw[c] # Whole(saved) => InBackup

(* A command that read the save and is past its own backup has made one. *)
WritersInv ==
  \A c \in Commands : pc[c] \in {"open", "fill"} => InBackup

(* A backup in the making is empty, so that nothing is lost with it, and    *)
(* belongs to one command.                                                  *)
SlotsInv ==
  \A c \in Commands : pc[c] = "fillBackup" =>
    /\ backups[slot[c]] = Empty
    /\ \A d \in Commands \ {c} : pc[d] = "fillBackup" => slot[d] # slot[c]

SavedInv == Whole(saved) = file \/ InBackup

IInv == ShapeInv /\ (Undisturbed => ReadersInv /\ WritersInv /\ SlotsInv /\ SavedInv)

(* The kinds tell the contents apart. *)
LEMMA KindsDiffer ==
  /\ \A s : Whole(s) # Empty /\ Whole(s) # Absent /\ Whole(s) # Torn /\ Whole(s).kind = "whole"
  /\ Empty # Absent
BY DEF Whole, Empty, Absent, Torn

(* At the start the save, if there is one, is in settings.json. *)
LEMMA InitIInv == Init => IInv
<1> SUFFICES ASSUME Init PROVE IInv
  OBVIOUS
<1>1. ShapeInv
  <2>1. 0 \in Seconds
    BY InstallerAssumption DEF Seconds
  <2> QED BY <2>1 DEF Init, ShapeInv, PCs
<1>2. saved # Blank => SavedInv
  BY DEF Init, SavedInv
<1>3. ReadersInv /\ WritersInv /\ SlotsInv
  BY DEF Init, ReadersInv, WritersInv, SlotsInv, HasRead
<1> QED BY <1>1, <1>2, <1>3 DEF IInv, Undisturbed

-----------------------------------------------------------------------------
(* Steps that leave the settings and their backups alone *)

Quiet(c) ==
  /\ UNCHANGED <<file, backups, raw, slot, collided, saved, overtaken>>
  /\ second' \in Seconds
  /\ pc' = pc \/ (\E where \in PCs \ {"backup", "fillBackup", "open", "fill"} :
                    pc' = [pc EXCEPT ![c] = where])

(* Fewer commands have read, and all else is as it was. *)
LEMMA QuietStep ==
  ASSUME IInv, NEW c \in Commands, Quiet(c)
  PROVE  IInv'
<1>1. ShapeInv'
  BY DEF IInv, ShapeInv, Quiet
<1>2. /\ \A d \in Commands : pc'[d] \in {"backup", "fillBackup", "open", "fill"} => pc'[d] = pc[d]
      /\ UNCHANGED <<file, backups, raw, slot, collided, saved, overtaken>>
  BY DEF IInv, ShapeInv, Quiet
<1>3. (Undisturbed' <=> Undisturbed) /\ (InBackup' <=> InBackup)
  BY <1>2 DEF Undisturbed, InBackup
<1>4. Undisturbed => ReadersInv' /\ WritersInv' /\ SlotsInv' /\ SavedInv'
  BY <1>2, <1>3 DEF IInv, ReadersInv, WritersInv, SlotsInv, SavedInv, HasRead
<1> QED BY <1>1, <1>3, <1>4 DEF IInv

(* Starting, and writing the documents. *)
LEMMA DocStepsAreQuiet ==
  ASSUME IInv, NEW c \in Commands,
         Start(c) \/ SkipDoc(c) \/ ToWriteDoc(c) \/ OpenDoc(c) \/ FillDoc(c)
  PROVE  Quiet(c)
<1>1. UNCHANGED <<file, backups, raw, slot, collided, saved, overtaken, second>>
  BY DEF Start, SkipDoc, ToWriteDoc, OpenDoc, FillDoc, unchangedSettings, outside
<1>2. \E where \in PCs \ {"backup", "fillBackup", "open", "fill"} : pc' = [pc EXCEPT ![c] = where]
  BY DEF Start, SkipDoc, ToWriteDoc, OpenDoc, FillDoc, AfterDoc, Goto, PCs
<1> QED BY <1>1, <1>2 DEF IInv, ShapeInv, Quiet

-----------------------------------------------------------------------------
(* Settings *)

(* What a command reads is the save, or the save is in a backup already. *)
LEMMA ReadStep ==
  ASSUME IInv, NEW c \in Commands, Read(c)
  PROVE  IInv'
<1> PICK where : where = IF req[c].op = "init" THEN InitNext(file)
                         ELSE UninstallNext(file, req[c].dryRun)
  OBVIOUS
<1>1. /\ raw' = [raw EXCEPT ![c] = file] /\ pc' = [pc EXCEPT ![c] = where]
      /\ UNCHANGED <<file, backups, slot, collided, saved, overtaken, second>>
  BY DEF Read, Goto, outside
<1>2. /\ where \in {"backup", "open", "done", "failed"}
      /\ where = "open" => file.kind # "whole"
  BY DEF InitNext, UninstallNext
<1>3. ShapeInv'
  BY <1>1, <1>2 DEF IInv, ShapeInv, PCs
<1>4. (Undisturbed' <=> Undisturbed) /\ (InBackup' <=> InBackup) /\ (SavedInv' <=> SavedInv)
  BY <1>1 DEF Undisturbed, InBackup, SavedInv
<1>5. ASSUME Undisturbed
      PROVE  ReadersInv' /\ WritersInv' /\ SlotsInv'
  <2>1. \A d \in Commands \ {c} : pc'[d] = pc[d] /\ raw'[d] = raw[d]
    BY <1>1 DEF IInv, ShapeInv
  <2>2. pc'[c] = where /\ raw'[c] = file
    BY <1>1 DEF IInv, ShapeInv
  <2>3. file # Whole(saved) => InBackup
    BY <1>5 DEF IInv, SavedInv
  <2>4. ReadersInv'
    BY <1>1, <1>4, <1>5, <2>1, <2>2, <2>3 DEF IInv, ReadersInv, HasRead
  <2>5. WritersInv'
    BY <1>2, <1>4, <1>5, <2>1, <2>2, <2>3, KindsDiffer DEF IInv, WritersInv
  <2>6. SlotsInv'
    BY <1>1, <1>2, <1>5, <2>1, <2>2 DEF IInv, SlotsInv
  <2> QED BY <2>4, <2>5, <2>6
<1> QED BY <1>3, <1>4, <1>5 DEF IInv

(* A new backup takes a name that none had, or it is a collision. *)
LEMMA BackupStep ==
  ASSUME IInv, NEW c \in Commands, Backup(c)
  PROVE  IInv'
<1>1. /\ pc[c] = "backup" /\ pc' = [pc EXCEPT ![c] = "fillBackup"]
      /\ slot' = [slot EXCEPT ![c] = second]
      /\ backups' = [backups EXCEPT ![second] = Empty]
      /\ collided' = (collided \/ backups[second] # Absent)
      /\ UNCHANGED <<file, raw, saved, overtaken, second>>
  BY DEF Backup, Goto, outside
<1>2. ShapeInv'
  BY <1>1 DEF IInv, ShapeInv, PCs
<1>3. ASSUME Undisturbed'
      PROVE  ReadersInv' /\ WritersInv' /\ SlotsInv' /\ SavedInv'
  <2>1. Undisturbed /\ backups[second] = Absent
    BY <1>1, <1>3 DEF Undisturbed
  <2>2. InBackup => InBackup'
    BY <1>1, <2>1, KindsDiffer DEF IInv, ShapeInv, InBackup
  <2>3. ReadersInv'
    BY <1>1, <2>1, <2>2 DEF IInv, ShapeInv, ReadersInv, HasRead
  <2>4. WritersInv' /\ SavedInv'
    BY <1>1, <2>1, <2>2 DEF IInv, ShapeInv, WritersInv, SavedInv
  <2>5. SlotsInv'
    BY <1>1, <2>1, KindsDiffer DEF IInv, ShapeInv, SlotsInv
  <2> QED BY <2>3, <2>4, <2>5
<1> QED BY <1>2, <1>3 DEF IInv

(* It is filled with what its command read. *)
LEMMA FillBackupStep ==
  ASSUME IInv, NEW c \in Commands, FillBackup(c)
  PROVE  IInv'
<1> PICK content \in WrittenOver(backups[slot[c]], raw[c].data) :
      backups' = [backups EXCEPT ![slot[c]] = content]
  BY DEF FillBackup
<1>1. /\ pc[c] = "fillBackup" /\ pc' = [pc EXCEPT ![c] = "open"]
      /\ UNCHANGED <<file, raw, slot, collided, saved, overtaken, second>>
  BY DEF FillBackup, Goto, outside
<1>2. ShapeInv'
  BY <1>1 DEF IInv, ShapeInv, PCs
<1>3. ASSUME Undisturbed'
      PROVE  ReadersInv' /\ WritersInv' /\ SlotsInv' /\ SavedInv'
  <2>1. Undisturbed /\ backups[slot[c]] = Empty /\ slot[c] \in Seconds
    BY <1>1, <1>3 DEF Undisturbed, IInv, ShapeInv, SlotsInv
  <2>2. content = Whole(raw[c].data)
    BY <2>1 DEF WrittenOver
  <2>3. InBackup => InBackup'
    BY <1>1, <2>1, KindsDiffer DEF IInv, ShapeInv, InBackup
  <2>4. InBackup'
    <3>1. CASE raw[c] = Whole(saved)
      <4>1. content = Whole(saved)
        BY <2>2, <3>1 DEF Whole
      <4> QED BY <1>1, <2>1, <4>1 DEF IInv, ShapeInv, InBackup
    <3>2. CASE raw[c] # Whole(saved)
      BY <1>1, <2>1, <2>3, <3>2 DEF IInv, ReadersInv, HasRead
    <3> QED BY <3>1, <3>2
  <2>5. SlotsInv'
    BY <1>1, <2>1 DEF IInv, ShapeInv, SlotsInv
  <2> QED BY <2>4, <2>5 DEF ReadersInv, WritersInv, SavedInv
<1> QED BY <1>2, <1>3 DEF IInv

(* settings.json is truncated and rewritten only when the save is in a backup. *)
LEMMA RewriteStep ==
  ASSUME IInv, NEW c \in Commands, Open(c) \/ Fill(c)
  PROVE  IInv'
<1>1. /\ pc[c] \in {"open", "fill"}
      /\ pc' \in {[pc EXCEPT ![c] = "fill"], [pc EXCEPT ![c] = "done"]}
      /\ UNCHANGED <<backups, raw, slot, collided, saved, overtaken, second>>
  BY DEF Open, Fill, Goto, outside
<1>2. ShapeInv'
  BY <1>1 DEF IInv, ShapeInv, PCs
<1>3. (Undisturbed' <=> Undisturbed) /\ (InBackup' <=> InBackup)
  BY <1>1 DEF Undisturbed, InBackup
<1>4. ASSUME Undisturbed
      PROVE  ReadersInv' /\ WritersInv' /\ SlotsInv' /\ SavedInv'
  <2>1. InBackup'
    BY <1>1, <1>3, <1>4 DEF IInv, WritersInv
  <2>2. SlotsInv'
    BY <1>1, <1>4 DEF IInv, ShapeInv, SlotsInv
  <2> QED BY <2>1, <2>2 DEF ReadersInv, WritersInv, SavedInv
<1> QED BY <1>2, <1>3, <1>4 DEF IInv

(* A command that dies in a write tears an empty backup, or a file whose    *)
(* save is in a backup.                                                     *)
LEMMA DieStep ==
  ASSUME IInv, NEW c \in Commands, Die(c)
  PROVE  IInv'
<1>1. /\ pc' = [pc EXCEPT ![c] = "failed"]
      /\ file' = file \/ (pc[c] = "fill" /\ file' = Torn)
      /\ \/ backups' = backups
         \/ pc[c] = "fillBackup" /\ backups' = [backups EXCEPT ![slot[c]] = Torn]
      /\ UNCHANGED <<raw, slot, collided, saved, overtaken, second>>
  BY DEF Die, Goto, outside
<1>2. ShapeInv'
  BY <1>1 DEF IInv, ShapeInv, PCs
<1>3. ASSUME Undisturbed'
      PROVE  ReadersInv' /\ WritersInv' /\ SlotsInv' /\ SavedInv'
  <2>1. Undisturbed
    BY <1>1, <1>3 DEF Undisturbed
  <2>2. InBackup => InBackup'
    BY <1>1, <2>1, KindsDiffer DEF IInv, ShapeInv, SlotsInv, InBackup
  <2>3. ReadersInv'
    BY <1>1, <2>1, <2>2 DEF IInv, ShapeInv, ReadersInv, HasRead
  <2>4. WritersInv'
    BY <1>1, <2>1, <2>2 DEF IInv, ShapeInv, WritersInv
  <2>5. SavedInv'
    BY <1>1, <2>1, <2>2 DEF IInv, WritersInv, SavedInv
  <2>6. SlotsInv'
    BY <1>1, <2>1 DEF IInv, ShapeInv, SlotsInv
  <2> QED BY <2>3, <2>4, <2>5, <2>6
<1> QED BY <1>2, <1>3 DEF IInv

-----------------------------------------------------------------------------
(* The user and the clock *)

(* A save that falls between no command's read and write is in the file, and *)
(* no command has read anything.                                            *)
LEMMA UserSavesStep ==
  ASSUME IInv, UserSaves
  PROVE  IInv'
<1>1. /\ file' = Whole(saved') /\ overtaken' = (\E c \in Commands : HasRead(c))
      /\ UNCHANGED <<backups, second, pc, raw, slot>>
  BY DEF UserSaves, proc
<1>2. ShapeInv'
  BY <1>1 DEF IInv, ShapeInv
<1>3. ASSUME Undisturbed'
      PROVE  ReadersInv' /\ WritersInv' /\ SlotsInv' /\ SavedInv'
  <2>1. \A c \in Commands : pc'[c] \notin {"backup", "fillBackup", "open", "fill"}
    BY <1>1, <1>3 DEF Undisturbed, HasRead
  <2> QED BY <1>1, <2>1 DEF ReadersInv, WritersInv, SlotsInv, SavedInv, HasRead
<1> QED BY <1>2, <1>3 DEF IInv

(* Documents, the clock, and nothing at all. *)
LEMMA ElsewhereStep ==
  ASSUME IInv, (\E d \in Docs : UserWritesDoc(d)) \/ Tick \/ UNCHANGED vars
  PROVE  IInv'
<1>1. /\ UNCHANGED <<file, backups, raw, slot, collided, saved, overtaken, pc>>
      /\ second' \in Seconds
  <2>1. second' = second \/ (second < MaxSecond /\ second' = second + 1)
    BY DEF UserWritesDoc, Tick, vars
  <2>2. second' \in Seconds
    BY <2>1, InstallerAssumption DEF IInv, ShapeInv, Seconds
  <2> QED BY <2>2 DEF UserWritesDoc, Tick, vars, proc
<1>2. ShapeInv'
  BY <1>1 DEF IInv, ShapeInv
<1>3. Undisturbed' => ReadersInv' /\ WritersInv' /\ SlotsInv' /\ SavedInv'
  BY <1>1 DEF IInv, Undisturbed, InBackup, ReadersInv, WritersInv, SlotsInv, SavedInv, HasRead
<1> QED BY <1>2, <1>3 DEF IInv

-----------------------------------------------------------------------------
(* Theorems *)

(* Every step of every command and of the user preserves the invariant. *)
LEMMA StepIInv == IInv /\ [Next]_vars => IInv'
<1> SUFFICES ASSUME IInv, [Next]_vars PROVE IInv'
  OBVIOUS
<1>1. ASSUME NEW c \in Commands, Step(c) PROVE IInv'
  <2>1. CASE Start(c) \/ SkipDoc(c) \/ ToWriteDoc(c) \/ OpenDoc(c) \/ FillDoc(c)
    BY <2>1, DocStepsAreQuiet, QuietStep
  <2>2. CASE Read(c)
    BY <2>2, ReadStep
  <2>3. CASE Backup(c)
    BY <2>3, BackupStep
  <2>4. CASE FillBackup(c)
    BY <2>4, FillBackupStep
  <2>5. CASE Open(c) \/ Fill(c)
    BY <2>5, RewriteStep
  <2>6. CASE Die(c)
    BY <2>6, DieStep
  <2> QED BY <1>1, <2>1, <2>2, <2>3, <2>4, <2>5, <2>6 DEF Step
<1>2. CASE UserSaves
  BY <1>2, UserSavesStep
<1>3. CASE (\E d \in Docs : UserWritesDoc(d)) \/ Tick \/ UNCHANGED vars
  BY <1>3, ElsewhereStep
<1> QED BY <1>1, <1>2, <1>3 DEF Next

(* The strengthened invariant holds throughout. *)
THEOREM InductiveInvariant == Spec => []IInv
<1> QED BY InitIInv, StepIInv, PTL DEF Spec

(* However many inits and uninstalls overlap, fail or are killed, what the   *)
(* user saved last is in settings.json or in one of its backups, unless she  *)
(* saved between a command's read and its write, or a second backup took the *)
(* name of a first.                                                         *)
THEOREM NothingIsLost == Spec => []UserWorkIsRecoverable
<1>1. IInv => UserWorkIsRecoverable
  BY DEF IInv, Undisturbed, SavedInv, InBackup, UserWorkIsRecoverable
<1> QED BY <1>1, InductiveInvariant, PTL

-----------------------------------------------------------------------------
(* The lists without arbiter's entries.  Others is defined by a recursive   *)
(* function; that its equation has a solution, and what the solution is,    *)
(* follows from the least position at which it would fail.                  *)

(* Some number of a set of them is the least. *)
LEMMA LeastNumber ==
  ASSUME NEW X \in SUBSET Nat, X # {}
  PROVE  \E n \in X : \A m \in X : n <= m
<1>1. PICK n \in X : \A m \in X : ~(<<m, n>> \in OpToRel(<, Nat))
  BY NatLessThanWellFounded, WFMin
<1>2. ASSUME NEW m \in X PROVE n <= m
  <2>1. m \in Nat /\ n \in Nat
    BY <1>1
  <2>2. ~(m < n)
    BY <1>1, <2>1 DEF OpToRel
  <2> QED BY <2>1, <2>2
<1> QED BY <1>1, <1>2

Filters(f, list, N) ==
  f = [n \in 0..N |->
         IF n = 0 THEN <<>>
         ELSE IF Arbiter \in list[n] THEN f[n - 1] ELSE Append(f[n - 1], list[n])]

(* What the equation says of each position. *)
Filtered(f, list, N) ==
  /\ f[0] = <<>>
  /\ \A n \in 1..N :
       f[n] = IF Arbiter \in list[n] THEN f[n - 1] ELSE Append(f[n - 1], list[n])

(* Nothing else than what the equation says. *)
LEMMA FiltersUnfold ==
  ASSUME NEW f, NEW list, NEW N \in Nat, Filters(f, list, N)
  PROVE  Filtered(f, list, N)
<1>1. \A n \in 0..N : f[n] =
        IF n = 0 THEN <<>>
        ELSE IF Arbiter \in list[n] THEN f[n - 1] ELSE Append(f[n - 1], list[n])
  BY Zenon DEF Filters
<1>2. 0 \in 0..N /\ \A n \in 1..N : n \in 0..N /\ n # 0
  OBVIOUS
<1> QED BY <1>1, <1>2 DEF Filtered

(* The equation has a solution. *)
LEMMA FilterExists ==
  ASSUME NEW list, NEW N \in Nat
  PROVE  \E f : Filters(f, list, N)
<1> DEFINE X == {n \in Nat : ~\E f : Filters(f, list, n)}
<1> SUFFICES ASSUME X # {} PROVE FALSE
  OBVIOUS
<1>1. /\ X \in SUBSET Nat /\ (\A n \in X : ~\E f : Filters(f, list, n))
      /\ \A n \in Nat : n \notin X => \E f : Filters(f, list, n)
  OBVIOUS
<1> HIDE DEF X
<1>2. PICK n \in X : \A m \in X : n <= m
  BY <1>1, LeastNumber
<1>3. CASE n = 0
  <2>1. PICK f : f = [m \in 0..0 |-> <<>>]
    OBVIOUS
  <2>2. [m \in 0..0 |->
           IF m = 0 THEN <<>>
           ELSE IF Arbiter \in list[m] THEN f[m - 1] ELSE Append(f[m - 1], list[m])] = f
    BY <2>1
  <2>3. Filters(f, list, n)
    BY <1>3, <2>2 DEF Filters
  <2> QED BY <1>1, <1>2, <2>3
<1>4. CASE n # 0
  <2>1. n - 1 \in Nat /\ n - 1 \notin X
    BY <1>1, <1>2, <1>4
  <2>2. PICK f : Filters(f, list, n - 1)
    BY <1>1, <2>1
  <2>3. PICK last : last = IF Arbiter \in list[n] THEN f[n - 1] ELSE Append(f[n - 1], list[n])
    OBVIOUS
  <2>4. PICK h : h = [m \in 0..n |-> IF m = n THEN last ELSE f[m]]
    OBVIOUS
  <2>5. f[0] = <<>> /\ \A m \in 1..(n - 1) :
          f[m] = IF Arbiter \in list[m] THEN f[m - 1] ELSE Append(f[m - 1], list[m])
    BY <2>1, <2>2, FiltersUnfold DEF Filtered
  <2>6. \A m \in 0..n : h[m] =
          IF m = 0 THEN <<>>
          ELSE IF Arbiter \in list[m] THEN h[m - 1] ELSE Append(h[m - 1], list[m])
    <3> SUFFICES ASSUME NEW m \in 0..n
                 PROVE  h[m] = IF m = 0 THEN <<>>
                               ELSE IF Arbiter \in list[m] THEN h[m - 1]
                               ELSE Append(h[m - 1], list[m])
      OBVIOUS
    <3>1. CASE m = 0
      BY <1>2, <1>4, <2>4, <2>5, <3>1
    <3>2. CASE m = n
      <4>1. h[m] = last /\ h[m - 1] = f[n - 1]
        BY <1>1, <1>2, <1>4, <2>4, <3>2
      <4> QED BY <1>4, <2>3, <3>2, <4>1
    <3>3. CASE m # 0 /\ m # n
      <4>1. m \in 1..(n - 1) /\ m - 1 \in 0..n /\ m - 1 # n
        BY <1>1, <1>2, <3>3
      <4>2. h[m] = f[m] /\ h[m - 1] = f[m - 1]
        BY <2>4, <3>3, <4>1
      <4> QED BY <2>5, <3>3, <4>1, <4>2
    <3> QED BY <3>1, <3>2, <3>3
  <2>7. h = [m \in 0..n |-> h[m]]
    BY <2>4
  <2>8. Filters(h, list, n)
    BY <2>6, <2>7 DEF Filters
  <2> QED BY <1>1, <1>2, <2>8
<1> QED BY <1>3, <1>4

(* Others is what the equation's solution has at the last position. *)
LEMMA OthersUnfold ==
  ASSUME NEW list, NEW N \in Nat, N = Len(list)
  PROVE  \E f : Filtered(f, list, N) /\ Others(list) = f[N]
<1> DEFINE Solves(f) == f = [n \in 0..Len(list) |->
             IF n = 0 THEN <<>>
             ELSE IF Arbiter \in list[n] THEN f[n - 1] ELSE Append(f[n - 1], list[n])]
<1>1. ASSUME NEW f PROVE Solves(f) <=> Filters(f, list, N)
  BY Zenon DEF Filters
<1>2. \E f : Solves(f)
  BY <1>1, FilterExists, Zenon
<1> DEFINE filtered == CHOOSE f : Solves(f)
<1>3. Solves(filtered)
  BY <1>2, Zenon
<1>4. Others(list) = filtered[Len(list)]
  BY Zenon DEF Others
<1> HIDE DEF Solves
<1>5. PICK f : f = filtered
  OBVIOUS
<1>6. Filtered(f, list, N)
  BY <1>1, <1>3, <1>5, FiltersUnfold
<1> HIDE DEF filtered
<1> QED BY <1>4, <1>5, <1>6

Alike(list, other, N) == \A n \in 1..N : list[n] = other[n]

(* Solutions agree as far as the lists do. *)
LEMMA FilterAgree ==
  ASSUME NEW N \in Nat, NEW f, NEW list, NEW h, NEW other,
         Filtered(f, list, N), Filtered(h, other, N), Alike(list, other, N)
  PROVE  f[N] = h[N]
<1> USE DEF Filtered, Alike
<1> DEFINE X == {n \in 0..N : f[n] # h[n]}
<1> SUFFICES ASSUME X # {} PROVE FALSE
  OBVIOUS
<1>1. X \in SUBSET Nat /\ (\A n \in X : n \in 0..N /\ f[n] # h[n])
      /\ \A n \in 0..N : n \notin X => f[n] = h[n]
  OBVIOUS
<1> HIDE DEF X
<1>2. PICK n \in X : \A m \in X : n <= m
  BY <1>1, LeastNumber
<1>3. n \in 1..N /\ n - 1 \in 0..N /\ n - 1 \notin X
  BY <1>1, <1>2
<1>4. f[n - 1] = h[n - 1]
  BY <1>1, <1>3
<1> QED BY <1>1, <1>2, <1>3, <1>4

Entries == SUBSET {Arbiter, Mine}
Clean(list) == \A i \in 1..Len(list) : Arbiter \notin list[i]

(* An empty list has no others. *)
LEMMA OthersOfEmpty == Others(<<>>) = <<>>
<1>1. PICK f : Filtered(f, <<>>, 0) /\ Others(<<>>) = f[0]
  BY OthersUnfold
<1> QED BY <1>1 DEF Filtered

(* A list with one entry more leaves it out if it is arbiter's. *)
LEMMA OthersOfAppend ==
  ASSUME NEW S, NEW list \in Seq(S), NEW x \in S
  PROVE  Others(Append(list, x)) = IF Arbiter \in x THEN Others(list) ELSE Append(Others(list), x)
<1>1. PICK N \in Nat : N = Len(list)
  BY LenProperties
<1>2. PICK longer : longer = Append(list, x)
  OBVIOUS
<1>3. Len(longer) = N + 1 /\ longer[N + 1] = x /\ \A n \in 1..N : longer[n] = list[n]
  BY <1>1, <1>2, AppendProperties
<1>4. PICK f : Filtered(f, list, N) /\ Others(list) = f[N]
  BY <1>1, OthersUnfold
<1>5. PICK h : Filtered(h, longer, N + 1) /\ Others(longer) = h[N + 1]
  BY <1>1, <1>3, OthersUnfold
<1>6. Filtered(h, longer, N) /\ Alike(longer, list, N)
  BY <1>1, <1>3, <1>5 DEF Filtered, Alike
<1>7. h[N] = f[N]
  BY <1>4, <1>6, FilterAgree
<1>8. h[N + 1] = IF Arbiter \in longer[N + 1] THEN h[N] ELSE Append(h[N], longer[N + 1])
  <2>1. N + 1 \in 1..(N + 1) /\ (N + 1) - 1 = N
    OBVIOUS
  <2> QED BY <1>5, <2>1 DEF Filtered
<1> QED BY <1>2, <1>3, <1>4, <1>5, <1>7, <1>8

(* What is left is a list of the same kind, without an entry of arbiter's. *)
LEMMA OthersAreClean ==
  ASSUME NEW list \in Seq(Entries)
  PROVE  Others(list) \in Seq(Entries) /\ Clean(Others(list))
<1>1. PICK N \in Nat : N = Len(list)
  BY LenProperties
<1>2. PICK f : Filtered(f, list, N) /\ Others(list) = f[N]
  BY <1>1, OthersUnfold
<1> DEFINE Good(r) == r \in Seq(Entries) /\ Clean(r)
<1> DEFINE X == {n \in 0..N : ~Good(f[n])}
<1> SUFFICES ASSUME X # {} PROVE FALSE
  BY <1>2
<1>3. /\ X \in SUBSET Nat /\ (\A n \in X : n \in 0..N /\ ~Good(f[n]))
      /\ \A n \in 0..N : n \notin X => Good(f[n])
  OBVIOUS
<1> HIDE DEF X
<1>4. PICK n \in X : \A m \in X : n <= m
  BY <1>3, LeastNumber
<1>5. n # 0
  <2>1. Good(<<>>)
    <3>1. <<>> \in Seq(Entries) /\ Len(<<>>) = 0
      BY EmptySeq
    <3> QED BY <3>1 DEF Clean
  <2> HIDE DEF Good
  <2> QED BY <1>2, <1>3, <1>4, <2>1 DEF Filtered
<1>6. n \in 1..N /\ n - 1 \in 0..N /\ n - 1 \notin X
  BY <1>3, <1>4, <1>5
<1>7. PICK r, x : r = f[n - 1] /\ x = list[n]
  OBVIOUS
<1>8. r \in Seq(Entries) /\ Clean(r) /\ x \in Entries
  BY <1>1, <1>3, <1>6, <1>7, LenProperties
<1>9. f[n] = IF Arbiter \in x THEN r ELSE Append(r, x)
  BY <1>2, <1>6, <1>7 DEF Filtered
<1>10. Arbiter \notin x => Good(Append(r, x))
  <2>1. /\ Append(r, x) \in Seq(Entries) /\ Len(Append(r, x)) = Len(r) + 1 /\ Len(r) \in Nat
        /\ \A i \in 1..Len(r) : Append(r, x)[i] = r[i]
        /\ Append(r, x)[Len(r) + 1] = x
    BY <1>8, AppendProperties, LenProperties
  <2> QED BY <1>8, <2>1 DEF Clean
<1> QED BY <1>3, <1>4, <1>8, <1>9, <1>10

(* A list without one is left as it is. *)
LEMMA OthersOfClean ==
  ASSUME NEW list \in Seq(Entries), Clean(list)
  PROVE  Others(list) = list
<1>1. PICK N \in Nat : N = Len(list)
  BY LenProperties
<1>2. PICK f : Filtered(f, list, N) /\ Others(list) = f[N]
  BY <1>1, OthersUnfold
<1> DEFINE Good(r, n) == r \in Seq(Entries) /\ Len(r) = n /\ \A i \in 1..n : r[i] = list[i]
<1> DEFINE X == {n \in 0..N : ~Good(f[n], n)}
<1>3. ASSUME X # {} PROVE FALSE
  <2>1. /\ X \in SUBSET Nat /\ (\A n \in X : n \in 0..N /\ ~Good(f[n], n))
        /\ \A n \in 0..N : n \notin X => Good(f[n], n)
    OBVIOUS
  <2>2. X # {}
    BY <1>3
  <2> HIDE DEF X
  <2>4. PICK n \in X : \A m \in X : n <= m
    BY <2>1, <2>2, LeastNumber
  <2>5. n # 0
    <3>1. Good(<<>>, 0)
      BY EmptySeq
    <3> HIDE DEF Good
    <3> QED BY <1>2, <2>1, <2>4, <3>1 DEF Filtered
  <2>6. n \in 1..N /\ n - 1 \in 0..N /\ n - 1 \notin X
    BY <2>1, <2>4, <2>5
  <2>7. PICK r, x : r = f[n - 1] /\ x = list[n]
    OBVIOUS
  <2>8. r \in Seq(Entries) /\ Len(r) = n - 1 /\ (\A i \in 1..(n - 1) : r[i] = list[i])
        /\ x \in Entries /\ Arbiter \notin x
    <3>1. Good(r, n - 1)
      BY <2>1, <2>6, <2>7
    <3>2. x \in Entries
      BY <1>1, <2>6, <2>7, LenProperties
    <3>3. Arbiter \notin x
      BY <1>1, <2>6, <2>7 DEF Clean
    <3> QED BY <3>1, <3>2, <3>3
  <2>9. f[n] = Append(r, x)
    BY <1>2, <2>6, <2>7, <2>8 DEF Filtered
  <2>10. Good(Append(r, x), n)
    <3>1. /\ Append(r, x) \in Seq(Entries) /\ Len(Append(r, x)) = Len(r) + 1 /\ Len(r) \in Nat
          /\ \A i \in 1..Len(r) : Append(r, x)[i] = r[i]
          /\ Append(r, x)[Len(r) + 1] = x
      BY <2>8, AppendProperties, LenProperties
    <3>2. Len(Append(r, x)) = n /\ \A i \in 1..n : Append(r, x)[i] = list[i]
      BY <2>6, <2>7, <2>8, <3>1
    <3> QED BY <3>1, <3>2
  <2> QED BY <2>1, <2>4, <2>9, <2>10
<1>4. Good(f[N], N)
  BY <1>3
<1> QED BY <1>1, <1>2, <1>4, SeqEqual

OnceIn(list) == \A i, j \in ArbiterEntries(list) : i = j

(* The places of arbiter's entries. *)
LEMMA EntriesOf ==
  ASSUME NEW S, NEW list \in Seq(S)
  PROVE  ArbiterEntries(list) = {i \in 1..Len(list) : Arbiter \in list[i]}
BY LenProperties DEF ArbiterEntries

(* A list without one is clean. *)
LEMMA CleanEntries ==
  ASSUME NEW list \in Seq(Entries)
  PROVE  Clean(list) <=> ArbiterEntries(list) = {}
BY EntriesOf DEF Clean

(* appendHookOnce leaves exactly one of arbiter's entries, or those that     *)
(* were there, and all of the user's.                                        *)
LEMMA AppendedOnce ==
  ASSUME NEW list \in Seq(Entries)
  PROVE  /\ AppendHookOnce(list) \in Seq(Entries)
         /\ ArbiterEntries(AppendHookOnce(list)) # {}
         /\ OnceIn(list) => OnceIn(AppendHookOnce(list))
         /\ Others(AppendHookOnce(list)) = Others(list)
<1>1. CASE ArbiterEntries(list) # {}
  BY <1>1 DEF AppendHookOnce
<1>2. CASE ArbiterEntries(list) = {}
  <2> PICK x, longer : x = {Arbiter} /\ longer = Append(list, x)
    OBVIOUS
  <2>1. AppendHookOnce(list) = longer
    BY <1>2 DEF AppendHookOnce
  <2>2. x \in Entries /\ Arbiter \in x
    BY DEF Entries
  <2> PICK N \in Nat : N = Len(list)
    BY LenProperties
  <2>3. /\ longer \in Seq(Entries) /\ Len(longer) = N + 1
        /\ \A i \in 1..N : longer[i] = list[i]
        /\ longer[N + 1] = x
    BY <2>2, AppendProperties
  <2>4. ArbiterEntries(longer) = {i \in 1..Len(longer) : Arbiter \in longer[i]}
    BY <2>3, EntriesOf
  <2>5. \A i \in 1..N : Arbiter \notin list[i]
    BY <1>2, EntriesOf
  <2>6. ArbiterEntries(longer) = {N + 1}
    <3>1. \A i \in 1..(N + 1) : Arbiter \in longer[i] <=> i = N + 1
      BY <2>2, <2>3, <2>5
    <3>2. \A i : i \in ArbiterEntries(longer) <=> i \in 1..(N + 1) /\ Arbiter \in longer[i]
      BY ONLY <2>3, <2>4
    <3>3. N + 1 \in 1..(N + 1)
      BY ONLY N \in Nat
    <3> QED BY ONLY <3>1, <3>2, <3>3
  <2>7. Others(longer) = Others(list)
    BY <2>2, OthersOfAppend
  <2>8. OnceIn(longer) /\ ArbiterEntries(longer) # {}
    BY <2>6 DEF OnceIn
  <2> QED BY <2>1, <2>3, <2>7, <2>8
<1> QED BY <1>1, <1>2

(* stripArbiterHooks leaves none of arbiter's, and all of the user's. *)
LEMMA Stripped ==
  ASSUME NEW list \in Seq(Entries)
  PROVE  /\ Others(list) \in Seq(Entries)
         /\ ArbiterEntries(Others(list)) = {} /\ OnceIn(Others(list))
         /\ Others(Others(list)) = Others(list)
<1> PICK rest : rest = Others(list)
  OBVIOUS
<1>1. rest \in Seq(Entries) /\ Clean(rest)
  BY OthersAreClean
<1>2. ArbiterEntries(rest) = {}
  BY <1>1, CleanEntries
<1>3. Others(rest) = rest
  BY <1>1, OthersOfClean
<1> QED BY <1>1, <1>2, <1>3 DEF OnceIn

(* An entry of the user's, or a command of hers in an entry, is none of      *)
(* arbiter's.                                                                *)
LEMMA UsersEntry ==
  ASSUME NEW list \in Seq(Entries)
  PROVE  /\ Append(list, {Mine}) \in Seq(Entries)
         /\ OnceIn(list) => OnceIn(Append(list, {Mine}))
         /\ \A i \in DOMAIN list :
              /\ [list EXCEPT ![i] = @ \cup {Mine}] \in Seq(Entries)
              /\ OnceIn(list) => OnceIn([list EXCEPT ![i] = @ \cup {Mine}])
<1>0. /\ Len(list) \in Nat /\ DOMAIN list = 1..Len(list) /\ \A i \in 1..Len(list) : list[i] \in Entries
      /\ ArbiterEntries(list) = {i \in 1..Len(list) : Arbiter \in list[i]}
  BY LenProperties, EntriesOf
<1>1. Append(list, {Mine}) \in Seq(Entries) /\ (OnceIn(list) => OnceIn(Append(list, {Mine})))
  <2> PICK x, longer : x = {Mine} /\ longer = Append(list, x)
    OBVIOUS
  <2>1. x \in Entries /\ Arbiter \notin x
    BY InstallerAssumption DEF Entries
  <2> PICK N \in Nat : N = Len(list)
    BY <1>0
  <2>2. /\ longer \in Seq(Entries) /\ Len(longer) = N + 1
        /\ \A i \in 1..N : longer[i] = list[i]
        /\ longer[N + 1] = x
    BY <2>1, AppendProperties
  <2>3. ArbiterEntries(longer) = {i \in 1..Len(longer) : Arbiter \in longer[i]}
    BY <2>2, EntriesOf
  <2>4. ArbiterEntries(longer) = ArbiterEntries(list)
    <3>1. ArbiterEntries(list) = {i \in 1..N : Arbiter \in list[i]}
      BY <1>0
    <3>2. \A i \in 1..(N + 1) : Arbiter \in longer[i] <=> (i \in 1..N /\ Arbiter \in list[i])
      BY <2>1, <2>2
    <3>3. \A i \in 1..N : i \in 1..(N + 1)
      OBVIOUS
    <3> QED BY <2>2, <2>3, <3>1, <3>2, <3>3
  <2> QED BY <2>2, <2>4 DEF OnceIn
<1>2. ASSUME NEW i \in DOMAIN list
      PROVE  /\ [list EXCEPT ![i] = @ \cup {Mine}] \in Seq(Entries)
             /\ OnceIn(list) => OnceIn([list EXCEPT ![i] = @ \cup {Mine}])
  <2> PICK x, new : x = list[i] \cup {Mine} /\ new = [list EXCEPT ![i] = x]
    OBVIOUS
  <2>1. x \in Entries /\ (Arbiter \in x <=> Arbiter \in list[i]) /\ i \in 1..Len(list)
    BY <1>0, InstallerAssumption DEF Entries
  <2>2. /\ new \in Seq(Entries) /\ Len(new) = Len(list)
        /\ \A j \in 1..Len(list) : new[j] = IF j = i THEN x ELSE list[j]
    BY <2>1, ExceptSeq
  <2>3. ArbiterEntries(new) = {j \in 1..Len(new) : Arbiter \in new[j]}
    BY <2>2, EntriesOf
  <2>4. ArbiterEntries(new) = ArbiterEntries(list)
    BY <1>0, <2>1, <2>2, <2>3
  <2> QED BY <2>2, <2>4 DEF OnceIn
<1> QED BY <1>1, <1>2

-----------------------------------------------------------------------------
(* Settings *)

Once(s) == \A e \in Events : OnceIn(s.hooks[e])

(* The parts of settings. *)
LEMMA SettingsParts ==
  ASSUME NEW s \in Settings
  PROVE  /\ s.hooks \in [Events -> Seq(Entries)] /\ s.servers \in SUBSET {Arbiter, Mine}
         /\ s.rest \in Nat
         /\ s = [hooks |-> s.hooks, servers |-> s.servers, rest |-> s.rest]
BY DEF Settings, Entries

(* Settings made of such parts. *)
LEMMA BuiltSettings ==
  ASSUME NEW h, NEW v, NEW r,
         h \in [Events -> Seq(Entries)], v \in SUBSET {Arbiter, Mine}, r \in Nat
  PROVE  [hooks |-> h, servers |-> v, rest |-> r] \in Settings
BY DEF Settings, Entries

(* What init writes: typed, arbiter once and everywhere, the user's as before. *)
LEMMA Merged ==
  ASSUME NEW s \in Settings, NEW mcp \in BOOLEAN
  PROVE  /\ Merge(s, mcp) \in Settings
         /\ Once(s) => Once(Merge(s, mcp))
         /\ SameForTheUser(s, Merge(s, mcp))
         /\ Installed(Merge(s, mcp))
         /\ mcp => Arbiter \in Merge(s, mcp).servers
<1> PICK h, v : /\ h = [e \in Events |-> AppendHookOnce(s.hooks[e])]
                /\ v = IF mcp THEN s.servers \cup {Arbiter} ELSE s.servers
  OBVIOUS
<1> PICK new : new = [hooks |-> h, servers |-> v, rest |-> s.rest]
  OBVIOUS
<1>1. \A e \in Events :
        /\ h[e] \in Seq(Entries) /\ ArbiterEntries(h[e]) # {}
        /\ OnceIn(s.hooks[e]) => OnceIn(h[e])
        /\ Others(h[e]) = Others(s.hooks[e])
  BY SettingsParts, AppendedOnce
<1>2. h \in [Events -> Seq(Entries)]
  BY <1>1
<1>3. v \in SUBSET {Arbiter, Mine} /\ s.rest \in Nat /\ v \ {Arbiter} = s.servers \ {Arbiter}
  BY SettingsParts
<1>4. new \in Settings
  BY <1>2, <1>3, BuiltSettings
<1>5. Merge(s, mcp) = new
  <2> PICK a, b, c : s = [hooks |-> a, servers |-> b, rest |-> c] /\ a = s.hooks
    BY SettingsParts
  <2>1. Merge(s, mcp) = [s EXCEPT !.hooks = h, !.servers = IF mcp THEN @ \cup {Arbiter} ELSE @]
    BY Zenon DEF Merge
  <2>2. v = IF mcp THEN b \cup {Arbiter} ELSE b
    OBVIOUS
  <2> QED BY <2>1, <2>2
<1>6. new.hooks = h /\ new.servers = v /\ new.rest = s.rest
  OBVIOUS
<1>7. Once(s) => Once(new)
  BY <1>1, <1>6 DEF Once
<1>8. SameForTheUser(s, new)
  BY <1>1, <1>3, <1>6 DEF SameForTheUser
<1>9. Installed(new)
  BY <1>1, <1>6 DEF Installed
<1>10. mcp => Arbiter \in new.servers
  BY <1>6
<1> QED BY <1>4, <1>5, <1>7, <1>8, <1>9, <1>10

(* What uninstall writes: typed, arbiter nowhere, the user's as before. *)
LEMMA StrippedSettings ==
  ASSUME NEW s \in Settings
  PROVE  /\ Strip(s) \in Settings
         /\ Once(Strip(s)) /\ SameForTheUser(s, Strip(s)) /\ ~HasArbiter(Strip(s))
<1> PICK h, v : /\ h = [e \in Events |-> Others(s.hooks[e])]
                /\ v = s.servers \ {Arbiter}
  OBVIOUS
<1> PICK new : new = [hooks |-> h, servers |-> v, rest |-> s.rest]
  OBVIOUS
<1>1. \A e \in Events :
        /\ h[e] \in Seq(Entries) /\ ArbiterEntries(h[e]) = {} /\ OnceIn(h[e])
        /\ Others(h[e]) = Others(s.hooks[e])
  BY SettingsParts, Stripped
<1>2. h \in [Events -> Seq(Entries)]
  BY <1>1
<1>3. v \in SUBSET {Arbiter, Mine} /\ s.rest \in Nat /\ v \ {Arbiter} = s.servers \ {Arbiter}
  BY SettingsParts
<1>4. new \in Settings
  BY <1>2, <1>3, BuiltSettings
<1>5. Strip(s) = new
  <2> PICK a, b, c : s = [hooks |-> a, servers |-> b, rest |-> c] /\ a = s.hooks
    BY SettingsParts
  <2>1. Strip(s) = [s EXCEPT !.hooks = h, !.servers = @ \ {Arbiter}]
    BY Zenon DEF Strip
  <2>2. v = b \ {Arbiter}
    OBVIOUS
  <2> QED BY <2>1, <2>2
<1>6. new.hooks = h /\ new.servers = v /\ new.rest = s.rest
  OBVIOUS
<1>7. Once(new)
  BY <1>1, <1>6 DEF Once
<1>8. SameForTheUser(s, new)
  BY <1>1, <1>3, <1>6 DEF SameForTheUser
<1>9. ~HasArbiter(new)
  BY <1>1, <1>6 DEF HasArbiter
<1> QED BY <1>4, <1>5, <1>7, <1>8, <1>9

(* What init and uninstall make of settings, part by part. *)
LEMMA WrittenSettings ==
  ASSUME NEW s \in Settings, NEW mcp \in BOOLEAN
  PROVE  /\ Merge(s, mcp) = [hooks |-> [e \in Events |-> AppendHookOnce(s.hooks[e])],
                             servers |-> IF mcp THEN s.servers \cup {Arbiter} ELSE s.servers,
                             rest |-> s.rest]
         /\ Strip(s) = [hooks |-> [e \in Events |-> Others(s.hooks[e])],
                        servers |-> s.servers \ {Arbiter}, rest |-> s.rest]
<1> PICK h, g, v, w : /\ h = [e \in Events |-> AppendHookOnce(s.hooks[e])]
                      /\ g = [e \in Events |-> Others(s.hooks[e])]
                      /\ v = IF mcp THEN s.servers \cup {Arbiter} ELSE s.servers
                      /\ w = s.servers \ {Arbiter}
  OBVIOUS
<1>0. PICK a, b, c : s = [hooks |-> a, servers |-> b, rest |-> c]
  BY SettingsParts
<1>1. s.rest = c
  BY ONLY <1>0
<1>2. Merge(s, mcp) = [hooks |-> h, servers |-> v, rest |-> c]
  <2> PICK t : t = [s EXCEPT !.hooks = h]
    OBVIOUS
  <2>1. t = [hooks |-> h, servers |-> b, rest |-> c]
    BY ONLY <1>0, t = [s EXCEPT !.hooks = h]
  <2>2. Merge(s, mcp) = [t EXCEPT !.servers = v]
    BY Zenon DEF Merge
  <2> QED BY ONLY <2>1, <2>2
<1>3. Strip(s) = [hooks |-> g, servers |-> w, rest |-> c]
  <2> PICK t : t = [s EXCEPT !.hooks = g]
    OBVIOUS
  <2>1. t = [hooks |-> g, servers |-> b, rest |-> c]
    BY ONLY <1>0, t = [s EXCEPT !.hooks = g]
  <2>2. Strip(s) = [t EXCEPT !.servers = w]
    BY Zenon DEF Strip
  <2> QED BY ONLY <2>1, <2>2
<1> QED BY <1>1, <1>2, <1>3

(* An init that finds what an earlier one left changes nothing: running      *)
(* writeClaudeSettings again hooks nothing twice and moves nothing.         *)
THEOREM InitAgainChangesNothing ==
  ASSUME NEW s \in Settings, NEW mcp \in BOOLEAN
  PROVE  Merge(Merge(s, mcp), mcp) = Merge(s, mcp)
<1> PICK t : t = Merge(s, mcp)
  OBVIOUS
<1>1. t \in Settings /\ Installed(t) /\ (mcp => Arbiter \in t.servers)
  BY Merged
<1>2. [e \in Events |-> AppendHookOnce(t.hooks[e])] = t.hooks
  <2>1. \A e \in Events : AppendHookOnce(t.hooks[e]) = t.hooks[e]
    BY <1>1 DEF Installed, AppendHookOnce
  <2>2. t.hooks \in [Events -> Seq(Entries)]
    BY <1>1, SettingsParts
  <2> QED BY <2>1, <2>2
<1>3. (IF mcp THEN t.servers \cup {Arbiter} ELSE t.servers) = t.servers
  BY <1>1
<1>4. Merge(t, mcp) = [hooks |-> t.hooks, servers |-> t.servers, rest |-> t.rest]
  <2>1. Merge(t, mcp) = [hooks |-> [e \in Events |-> AppendHookOnce(t.hooks[e])],
                         servers |-> IF mcp THEN t.servers \cup {Arbiter} ELSE t.servers,
                         rest |-> t.rest]
    BY <1>1, WrittenSettings
  <2> QED BY ONLY <1>2, <1>3, <2>1
<1>5. t = [hooks |-> t.hooks, servers |-> t.servers, rest |-> t.rest]
  BY <1>1, SettingsParts
<1> QED BY <1>4, <1>5

(* runUninstall undoes what init did: the settings are those it would have   *)
(* left without the init, and, if nothing of arbiter's was in them before,   *)
(* exactly the ones from before.                                            *)
THEOREM UninstallUndoesInit ==
  ASSUME NEW s \in Settings, NEW mcp \in BOOLEAN
  PROVE  /\ Strip(Merge(s, mcp)) = Strip(s)
         /\ ~HasArbiter(s) => Strip(Merge(s, mcp)) = s
<1> PICK t : t = Merge(s, mcp)
  OBVIOUS
<1>1. t \in Settings /\ SameForTheUser(s, t)
  BY Merged
<1>2. Strip(t) = Strip(s)
  <2>1. [e \in Events |-> Others(t.hooks[e])] = [e \in Events |-> Others(s.hooks[e])]
    BY <1>1 DEF SameForTheUser
  <2>2. t.servers \ {Arbiter} = s.servers \ {Arbiter} /\ t.rest = s.rest
    BY <1>1 DEF SameForTheUser
  <2>3. /\ Strip(t) = [hooks |-> [e \in Events |-> Others(t.hooks[e])],
                       servers |-> t.servers \ {Arbiter}, rest |-> t.rest]
        /\ Strip(s) = [hooks |-> [e \in Events |-> Others(s.hooks[e])],
                       servers |-> s.servers \ {Arbiter}, rest |-> s.rest]
    BY <1>1, WrittenSettings
  <2> QED BY <2>1, <2>2, <2>3
<1>3. ASSUME ~HasArbiter(s) PROVE Strip(s) = s
  <2>1. \A e \in Events : Others(s.hooks[e]) = s.hooks[e]
    <3> TAKE e \in Events
    <3>1. s.hooks[e] \in Seq(Entries)
      BY SettingsParts
    <3>2. Clean(s.hooks[e])
      BY <1>3, <3>1, CleanEntries DEF HasArbiter
    <3> QED BY <3>1, <3>2, OthersOfClean
  <2>2. [e \in Events |-> Others(s.hooks[e])] = s.hooks
    BY <2>1, SettingsParts
  <2>3. s.servers \ {Arbiter} = s.servers
    BY <1>3 DEF HasArbiter
  <2>4. Strip(s) = [hooks |-> s.hooks, servers |-> s.servers, rest |-> s.rest]
    BY <2>2, <2>3, WrittenSettings
  <2> QED BY <2>4, SettingsParts
<1> QED BY <1>2, <1>3

(* No settings are settings, and no hook is arbiter's. *)
LEMMA BlankSettings == Blank \in Settings /\ Once(Blank)
<1>1. <<>> \in Seq(Entries) /\ Len(<<>>) = 0
  BY EmptySeq
<1>2. ArbiterEntries(<<>>) = {}
  <2> PICK list : list = <<>>
    OBVIOUS
  <2>1. ArbiterEntries(list) = {i \in 1..0 : Arbiter \in list[i]}
    BY <1>1, EntriesOf
  <2> QED BY <2>1
<1>3. [e \in Events |-> <<>>] \in [Events -> Seq(Entries)]
  BY <1>1
<1>4. Blank \in Settings
  BY <1>3, BuiltSettings DEF Blank
<1> QED BY <1>2, <1>4 DEF Once, OnceIn, Blank

-----------------------------------------------------------------------------
(* What commands have done: types, hooks, documents                         *)

(* No file has arbiter twice, nor what a command has read of one. *)
OnceInv == Once(file.data) /\ \A c \in Commands : Once(raw[c].data)

(* How far a command has come: only init scaffolds, rules.md before          *)
(* policy.yaml and both before settings.json; a dry run goes no further than *)
(* reading.                                                                  *)
Scaffolds(c) == pc[c] \in {"look", "openDoc", "fillDoc"}
Settles(c) == pc[c] \in {"read", "backup", "fillBackup", "open", "fill"}

Course(c) ==
  /\ pc[c] = "idle" => doc[c] = "rules"
  /\ Scaffolds(c) => req[c].op = "init"
  /\ doc[c] = "policy" => project["rules"] # "absent"
  /\ req[c].op = "init" /\ Settles(c) =>
       project["rules"] # "absent" /\ project["policy"] # "absent"
  /\ req[c].op = "uninstall" /\ req[c].dryRun => ~HasRead(c)

CommandInv == \A c \in Commands : Course(c)

(* A document that is empty or torn is being written, or its writer died. *)
EmptyDocInv ==
  \A d \in Docs : project[d] \in {"empty", "torn"} =>
    \E c \in Commands : (pc[c] = "fillDoc" /\ doc[c] = d) \/ pc[c] = "failed"

(* A command that met nobody is the only one that runs, and what it          *)
(* truncated is still empty.                                                 *)
AloneInv ==
  \A c \in Commands : alone[c] /\ Running(c) =>
    /\ \A d \in Commands \ {c} : ~Running(d)
    /\ pc[c] = "fill" => file = Empty

CourseInv == TypeOK /\ OnceInv /\ CommandInv /\ EmptyDocInv /\ AloneInv

(* The contents a file may have. *)
LEMMA ContentTypes ==
  /\ \A s \in Settings : Whole(s) \in Contents /\ Whole(s).data = s /\ Whole(s).kind = "whole"
  /\ Absent \in Contents /\ Absent.data = Blank
  /\ Empty \in Contents /\ Empty.data = Blank
  /\ Torn \in Contents /\ Torn.data = Blank
  /\ \A x \in Contents : x.data \in Settings
BY BlankSettings DEF Whole, Absent, Empty, Torn, Contents

(* What a write leaves is what was written, or torn. *)
LEMMA WrittenTypes ==
  ASSUME NEW old, NEW s \in Settings, NEW new \in WrittenOver(old, s)
  PROVE  new \in Contents /\ (Once(s) => Once(new.data)) /\ (old = Empty => new = Whole(s))
BY ContentTypes, BlankSettings DEF WrittenOver

(* What a command is about to write. *)
LEMMA OutTypes ==
  ASSUME TypeOK, NEW c \in Commands
  PROVE  Out(c) \in Settings /\ (Once(raw[c].data) => Once(Out(c)))
<1>1. raw[c].data \in Settings /\ req[c].mcp \in BOOLEAN
  BY ContentTypes, InstallerAssumption DEF TypeOK
<1> QED BY <1>1, Merged, StrippedSettings DEF Out

(* A user's save. *)
LEMMA SavedTypes ==
  ASSUME TypeOK, OnceInv, UserSaves
  PROVE  saved' \in Settings /\ Once(saved')
<1> DEFINE base == IF file.kind = "whole" THEN file.data ELSE Blank
           named == [base EXCEPT !.rest = saves + 1, !.servers = @ \cup {Mine}]
<1>4. \E e \in Events :
        \/ saved' = named
        \/ saved' = [named EXCEPT !.hooks[e] = Append(@, {Mine})]
        \/ \E i \in DOMAIN named.hooks[e] :
             saved' = [named EXCEPT !.hooks[e][i] = @ \cup {Mine}]
  BY ONLY UserSaves DEF UserSaves
<1>1. base \in Settings /\ Once(base)
  BY ContentTypes, BlankSettings DEF TypeOK, OnceInv
<1> HIDE DEF base
<1>a. named = [base EXCEPT !.rest = saves + 1, !.servers = @ \cup {Mine}]
  OBVIOUS
<1> HIDE DEF named
<1> PICK h, v, r : h = base.hooks /\ v = base.servers \cup {Mine} /\ r = saves + 1
  OBVIOUS
<1>2. /\ h \in [Events -> Seq(Entries)] /\ v \in SUBSET {Arbiter, Mine} /\ r \in Nat
      /\ \A e \in Events : OnceIn(h[e])
  BY <1>1, SettingsParts DEF TypeOK, Once
<1>3. named = [hooks |-> h, servers |-> v, rest |-> r]
  <2> PICK a, b, c : base = [hooks |-> a, servers |-> b, rest |-> c]
    <3>1. base = [hooks |-> base.hooks, servers |-> base.servers, rest |-> base.rest]
      BY <1>1, SettingsParts
    <3> QED BY <3>1
  <2> QED BY <1>a
<1>5. PICK e \in Events :
        \/ saved' = named
        \/ saved' = [named EXCEPT !.hooks[e] = Append(@, {Mine})]
        \/ \E i \in DOMAIN named.hooks[e] :
             saved' = [named EXCEPT !.hooks[e][i] = @ \cup {Mine}]
  BY <1>4
<1>6. PICK list \in Seq(Entries) :
        OnceIn(list) /\ saved' = [hooks |-> [h EXCEPT ![e] = list], servers |-> v, rest |-> r]
  <2>1. h[e] \in Seq(Entries) /\ OnceIn(h[e])
    BY <1>2
  <2>2. CASE saved' = named
    <3>1. saved' = [hooks |-> [h EXCEPT ![e] = h[e]], servers |-> v, rest |-> r]
      BY <1>2, <1>3, <2>2
    <3> QED BY <2>1, <3>1
  <2>3. CASE saved' = [named EXCEPT !.hooks[e] = Append(@, {Mine})]
    <3>1. saved' = [hooks |-> [h EXCEPT ![e] = Append(h[e], {Mine})], servers |-> v, rest |-> r]
      BY <1>3, <2>3
    <3>2. Append(h[e], {Mine}) \in Seq(Entries) /\ OnceIn(Append(h[e], {Mine}))
      BY <2>1, UsersEntry
    <3> QED BY <3>1, <3>2
  <2>4. CASE \E i \in DOMAIN named.hooks[e] :
               saved' = [named EXCEPT !.hooks[e][i] = @ \cup {Mine}]
    <3>1. PICK i \in DOMAIN h[e] : saved' = [named EXCEPT !.hooks[e][i] = @ \cup {Mine}]
      BY <1>3, <2>4
    <3>2. saved' = [hooks |-> [h EXCEPT ![e] = [h[e] EXCEPT ![i] = @ \cup {Mine}]],
                    servers |-> v, rest |-> r]
      BY <1>3, <3>1
    <3>3. /\ [h[e] EXCEPT ![i] = @ \cup {Mine}] \in Seq(Entries)
          /\ OnceIn([h[e] EXCEPT ![i] = @ \cup {Mine}])
      BY <2>1, UsersEntry
    <3> QED BY <3>2, <3>3
  <2> QED BY <1>5, <2>2, <2>3, <2>4
<1> PICK g, new : g = [h EXCEPT ![e] = list] /\ new = [hooks |-> g, servers |-> v, rest |-> r]
  OBVIOUS
<1>7. g \in [Events -> Seq(Entries)] /\ \A k \in Events : OnceIn(g[k])
  BY <1>2, <1>6
<1>8. new \in Settings /\ new.hooks = g
  BY <1>2, <1>7, BuiltSettings
<1> QED BY <1>6, <1>7, <1>8 DEF Once

(* Other hooks, in settings that are otherwise as they were. *)
LEMMA HooksReplaced ==
  ASSUME NEW s, NEW h, NEW g, NEW v, NEW r, s = [hooks |-> h, servers |-> v, rest |-> r]
  PROVE  [s EXCEPT !.hooks = g] = [hooks |-> g, servers |-> v, rest |-> r]
OBVIOUS

(* At the start nothing has run. *)
LEMMA InitCourseInv == Init => CourseInv
<1> SUFFICES ASSUME Init PROVE CourseInv
  OBVIOUS
<1>1. saved \in Settings /\ Once(saved)
  <2>1. CASE saved = Blank
    BY <2>1, BlankSettings
  <2>2. CASE saved = [Blank EXCEPT !.hooks = [e \in Events |-> <<{Mine}>>]]
    <3> PICK list : list = <<{Mine}>>
      OBVIOUS
    <3>1. list \in Seq(Entries) /\ OnceIn(list)
      <4>1. <<>> \in Seq(Entries) /\ OnceIn(<<>>)
        <5>1. <<>> \in Seq(Entries) /\ Len(<<>>) = 0
          BY EmptySeq
        <5>2. ArbiterEntries(<<>>) = {i \in 1..0 : Arbiter \in <<>>[i]}
          BY <5>1, EntriesOf
        <5> QED BY <5>1, <5>2 DEF OnceIn
      <4>2. Append(<<>>, {Mine}) = list
        OBVIOUS
      <4> QED BY <4>1, <4>2, UsersEntry
    <3>5. PICK h, v, n, new : /\ h = [e \in Events |-> list] /\ v = {} /\ n = 0
                              /\ new = [hooks |-> h, servers |-> v, rest |-> n]
      OBVIOUS
    <3>2. h \in [Events -> Seq(Entries)] /\ \A e \in Events : OnceIn(h[e])
      BY <3>1, <3>5
    <3>3. new \in Settings /\ new.hooks = h
      BY <3>2, <3>5, BuiltSettings
    <3>4. saved = new
      <4>1. [e \in Events |-> <<{Mine}>>] = h
        BY <3>5
      <4>2. saved = [Blank EXCEPT !.hooks = h]
        BY <2>2, <4>1
      <4>3. PICK none : Blank = [hooks |-> none, servers |-> v, rest |-> n]
        BY <3>5 DEF Blank
      <4>4. saved = [hooks |-> h, servers |-> v, rest |-> n]
        BY <4>2, <4>3, HooksReplaced
      <4> QED BY <3>5, <4>4, Zenon
    <3> QED BY <3>2, <3>3, <3>4 DEF Once
  <2> QED BY <2>1, <2>2 DEF Init
<1>2. file \in Contents /\ Once(file.data)
  BY <1>1, ContentTypes, BlankSettings DEF Init
<1>3. TypeOK
  <2>1. 0 \in Seconds /\ saves \in 0..MaxSaves
    BY InstallerAssumption DEF Init, Seconds
  <2>2. req \in [Commands -> Requests]
    BY InstallerAssumption DEF Init
  <2> QED BY <1>1, <1>2, <2>1, <2>2, ContentTypes DEF Init, TypeOK, Docs
<1>4. OnceInv
  BY <1>2, ContentTypes, BlankSettings DEF Init, OnceInv
<1>5. CommandInv /\ EmptyDocInv /\ AloneInv
  BY DEF Init, CommandInv, Course, Scaffolds, Settles, HasRead, EmptyDocInv, AloneInv
<1> QED BY <1>3, <1>4, <1>5 DEF CourseInv

Places == {"look", "openDoc", "fillDoc", "read", "backup", "fillBackup", "open", "fill",
           "done", "failed"}

(* A step of a command that runs already. *)
Moves(c, where) ==
  /\ Running(c)
  /\ pc' = [pc EXCEPT ![c] = where]
  /\ doc' \in {doc, [doc EXCEPT ![c] = "policy"]}
  /\ project' \in {project, [project EXCEPT ![doc[c]] = "empty"],
                   [project EXCEPT ![doc[c]] = "torn"],
                   [project EXCEPT ![doc[c]] = "template"]}
  /\ raw' \in {raw, [raw EXCEPT ![c] = file]}
  /\ UNCHANGED outside

(* It keeps the types, if what it writes has them. *)
LEMMA MoveTypes ==
  ASSUME TypeOK, NEW c \in Commands, NEW where \in Places, Moves(c, where),
         file' \in Contents, backups' \in [Seconds -> Contents],
         slot' \in [Commands -> Seconds], collided' \in BOOLEAN
  PROVE  TypeOK'
<1>1. pc' \in [Commands -> {"idle", "look", "openDoc", "fillDoc", "read", "backup",
                            "fillBackup", "open", "fill", "done", "failed"}]
  BY DEF TypeOK, Moves, Places
<1>2. doc' \in [Commands -> Docs]
  BY DEF TypeOK, Moves, Docs
<1>3. project' \in [Docs -> {"absent", "empty", "torn", "mine", "template"}]
  BY DEF TypeOK, Moves
<1>4. raw' \in [Commands -> Contents]
  BY DEF TypeOK, Moves
<1> QED BY <1>1, <1>2, <1>3, <1>4 DEF TypeOK, Moves, outside

(* It leaves the other commands where they are. *)
LEMMA MoveOthers ==
  ASSUME TypeOK, NEW c \in Commands, NEW where, Moves(c, where)
  PROVE  /\ pc'[c] = where /\ req' = req /\ alone' = alone
         /\ \A d \in Commands \ {c} : pc'[d] = pc[d] /\ doc'[d] = doc[d] /\ raw'[d] = raw[d]
         /\ raw'[c] \in {raw[c], file} /\ doc'[c] \in {doc[c], "policy"}
         /\ \A d \in Docs : project[d] # "absent" => project'[d] # "absent"
BY DEF TypeOK, Moves, outside

(* What it has to see to itself: its own course, and the documents. *)
LEMMA MoveKeeps ==
  ASSUME CourseInv, NEW c \in Commands, NEW where \in Places, Moves(c, where),
         file' \in Contents, backups' \in [Seconds -> Contents],
         slot' \in [Commands -> Seconds], collided' \in BOOLEAN,
         Once(file'.data), where = "fill" => file' = Empty,
         Course(c)', EmptyDocInv'
  PROVE  CourseInv'
<1>1. TypeOK /\ TypeOK'
  BY MoveTypes DEF CourseInv
<1>2. /\ pc'[c] = where /\ req' = req /\ alone' = alone
      /\ \A d \in Commands \ {c} : pc'[d] = pc[d] /\ doc'[d] = doc[d] /\ raw'[d] = raw[d]
      /\ raw'[c] \in {raw[c], file}
      /\ \A d \in Docs : project[d] # "absent" => project'[d] # "absent"
  BY <1>1, MoveOthers
<1>3. OnceInv'
  <2>1. \A d \in Commands : Once(raw'[d].data)
    BY <1>2 DEF CourseInv, OnceInv
  <2>2. OnceInv' <=> Once(file'.data) /\ \A d \in Commands : Once(raw'[d].data)
    BY DEF OnceInv, Once
  <2> QED BY <2>1, <2>2
<1>4. CommandInv'
  <2>1. ASSUME NEW d \in Commands \ {c} PROVE Course(d)'
    <3>1. Course(d)
      BY DEF CourseInv, CommandInv
    <3>2. "rules" \in Docs /\ "policy" \in Docs
      BY DEF Docs
    <3> QED BY <1>2, <3>1, <3>2 DEF Course, Scaffolds, Settles, HasRead
  <2> QED BY <2>1 DEF CommandInv
<1>5. AloneInv'
  <2>1. Running(c)
    BY DEF Moves
  <2>2. \A d \in Commands \ {c} : alone[d] => ~Running(d)
    BY <2>1 DEF CourseInv, AloneInv
  <2> QED BY <1>2, <2>1, <2>2 DEF CourseInv, AloneInv, Running
<1> QED BY <1>1, <1>3, <1>4, <1>5 DEF CourseInv

(* The documents, when the command touches none: it was not in the middle of *)
(* one, or dies.                                                             *)
LEMMA EmptyKept ==
  ASSUME CourseInv, NEW c \in Commands, NEW where, Moves(c, where),
         where = "failed" \/ (project' = project /\ pc[c] # "fillDoc")
  PROVE  EmptyDocInv'
<1>1. /\ pc'[c] = where /\ Running(c)
      /\ \A d \in Commands \ {c} : pc'[d] = pc[d] /\ doc'[d] = doc[d]
  BY MoveOthers DEF CourseInv, Moves
<1>2. ASSUME NEW d \in Docs, project'[d] \in {"empty", "torn"}, where # "failed"
      PROVE  \E x \in Commands : (pc'[x] = "fillDoc" /\ doc'[x] = d) \/ pc'[x] = "failed"
  <2>1. PICK x \in Commands : (pc[x] = "fillDoc" /\ doc[x] = d) \/ pc[x] = "failed"
    BY <1>2 DEF CourseInv, EmptyDocInv
  <2> QED BY <1>1, <2>1 DEF Running
<1>3. CASE where = "failed"
  BY <1>1, <1>3 DEF EmptyDocInv
<1>4. CASE where # "failed"
  BY <1>2, <1>4 DEF EmptyDocInv
<1> QED BY <1>3, <1>4

(* The documents are written one after the other. *)
LEMMA DocStepsKeep ==
  ASSUME CourseInv, NEW c \in Commands,
         SkipDoc(c) \/ ToWriteDoc(c) \/ OpenDoc(c) \/ FillDoc(c)
  PROVE  CourseInv'
<1> PICK where : where = pc'[c]
  OBVIOUS
<1>0. TypeOK /\ Course(c) /\ doc[c] \in Docs /\ project \in [Docs -> {"absent", "empty", "torn", "mine", "template"}]
  BY DEF CourseInv, CommandInv, TypeOK
<1>1. /\ pc[c] \in {"look", "openDoc", "fillDoc"}
      /\ UNCHANGED <<unchangedSettings, outside>>
      /\ pc' = [pc EXCEPT ![c] = where] /\ where \in {"look", "openDoc", "fillDoc", "read", "done"}
  <2>1. pc \in [Commands -> Places \cup {"idle"}]
    BY <1>0 DEF TypeOK, Places
  <2>2. \E w \in {"look", "openDoc", "fillDoc", "read", "done"} : pc' = [pc EXCEPT ![c] = w]
    BY DEF SkipDoc, ToWriteDoc, OpenDoc, FillDoc, AfterDoc, Goto
  <2> QED BY <2>1, <2>2 DEF SkipDoc, ToWriteDoc, OpenDoc, FillDoc
<1>2. Moves(c, where)
  <2>1. doc' \in {doc, [doc EXCEPT ![c] = "policy"]}
    BY DEF SkipDoc, ToWriteDoc, OpenDoc, FillDoc, AfterDoc
  <2>2. project' \in {project, [project EXCEPT ![doc[c]] = "empty"],
                      [project EXCEPT ![doc[c]] = "template"]}
    BY DEF SkipDoc, ToWriteDoc, OpenDoc, FillDoc
  <2> QED BY <1>1, <2>1, <2>2 DEF Moves, Running, unchangedSettings
<1>3. /\ req' = req /\ doc'[c] \in {doc[c], "policy"}
      /\ \A d \in Docs : project[d] # "absent" => project'[d] # "absent"
      /\ "rules" \in Docs /\ "policy" \in Docs
  BY <1>0, <1>2, MoveOthers DEF Docs
<1>4. \/ /\ where \in {"openDoc", "fillDoc"} /\ doc' = doc
      \/ /\ project'[doc[c]] # "absent"
         /\ \/ doc[c] = "rules" /\ doc'[c] = "policy" /\ where = "look"
            \/ doc[c] # "rules" /\ doc' = doc /\ where \in {"read", "done"}
  <2>1. CASE ToWriteDoc(c) \/ OpenDoc(c)
    BY <1>0, <1>1, <2>1 DEF ToWriteDoc, OpenDoc, Goto, TypeOK
  <2>2. CASE SkipDoc(c) \/ FillDoc(c)
    <3>1. AfterDoc(c)
      BY <2>2 DEF SkipDoc, FillDoc
    <3>2. project'[doc[c]] # "absent"
      BY <1>0, <2>2 DEF SkipDoc, FillDoc, Present
    <3>3. \/ doc[c] = "rules" /\ doc'[c] = "policy" /\ where = "look"
          \/ doc[c] # "rules" /\ doc' = doc /\ where \in {"read", "done"}
      BY <1>0, <3>1 DEF AfterDoc, Goto, TypeOK
    <3> QED BY <3>2, <3>3
  <2> QED BY <2>1, <2>2
<1>5. Course(c)'
  <2>1. pc'[c] = where /\ req[c].op = "init"
    BY <1>0, <1>1, <1>2, MoveOthers DEF Course, Scaffolds
  <2>2. doc[c] = "rules" \/ doc[c] = "policy"
    BY <1>0 DEF Docs
  <2> QED BY <1>0, <1>1, <1>3, <1>4, <2>1, <2>2 DEF Course, Scaffolds, Settles, HasRead
<1>6. EmptyDocInv'
  <2>1. CASE SkipDoc(c) \/ ToWriteDoc(c)
    <3>1. project' = project /\ pc[c] # "fillDoc"
      BY <2>1 DEF SkipDoc, ToWriteDoc
    <3> QED BY <1>2, <3>1, EmptyKept
  <2>2. ASSUME OpenDoc(c) \/ FillDoc(c), NEW d \in Docs, project'[d] \in {"empty", "torn"}
        PROVE  \E x \in Commands : (pc'[x] = "fillDoc" /\ doc'[x] = d) \/ pc'[x] = "failed"
    <3>1. /\ \A x \in Commands \ {c} : pc'[x] = pc[x] /\ doc'[x] = doc[x]
          /\ pc'[c] = where
      BY <1>0, <1>2, MoveOthers
    <3>2. CASE d # doc[c]
      <4>1. project[d] \in {"empty", "torn"}
        BY <1>0, <2>2, <3>2 DEF OpenDoc, FillDoc
      <4>2. PICK x \in Commands : (pc[x] = "fillDoc" /\ doc[x] = d) \/ pc[x] = "failed"
        BY <4>1 DEF CourseInv, EmptyDocInv
      <4>3. x # c
        BY <1>1, <3>2, <4>2
      <4> QED BY <3>1, <4>2, <4>3
    <3>3. CASE d = doc[c]
      <4>1. OpenDoc(c)
        BY <1>0, <2>2, <3>3 DEF FillDoc
      <4>2. pc'[c] = "fillDoc" /\ doc' = doc
        BY <1>0, <4>1 DEF OpenDoc, Goto, TypeOK
      <4> QED BY <3>3, <4>2
    <3> QED BY <3>2, <3>3
  <2>3. CASE OpenDoc(c) \/ FillDoc(c)
    BY <2>2, <2>3 DEF EmptyDocInv
  <2> QED BY <2>1, <2>3
<1>7. /\ file' \in Contents /\ backups' \in [Seconds -> Contents] /\ slot' \in [Commands -> Seconds]
      /\ collided' \in BOOLEAN /\ Once(file'.data)
  BY <1>0, <1>1 DEF TypeOK, unchangedSettings, CourseInv, OnceInv
<1>8. where \in Places /\ where # "fill"
  BY <1>1 DEF Places
<1> QED BY <1>2, <1>5, <1>6, <1>7, <1>8, MoveKeeps

(* A command at the settings: it touches no document, goes on, and writes    *)
(* what it has read, merged or stripped.                                     *)
LEMMA SettleKeeps ==
  ASSUME CourseInv, NEW c \in Commands, NEW where \in Places,
         pc[c] \in {"read", "backup", "fillBackup", "open", "fill"},
         pc' = [pc EXCEPT ![c] = where],
         where \in {"backup", "fillBackup", "open", "fill", "done", "failed"},
         where \in {"backup", "fillBackup", "open", "fill"} =>
           ~(req[c].op = "uninstall" /\ req[c].dryRun),
         raw' \in {raw, [raw EXCEPT ![c] = file]},
         UNCHANGED <<project, doc, outside>>,
         file' \in Contents, backups' \in [Seconds -> Contents],
         slot' \in [Commands -> Seconds], collided' \in BOOLEAN,
         Once(file'.data), where = "fill" => file' = Empty
  PROVE  CourseInv'
<1>1. Moves(c, where)
  BY DEF Moves, Running
<1>2. EmptyDocInv'
  BY <1>1, EmptyKept
<1>3. pc'[c] = where /\ req' = req
  BY <1>1, MoveOthers DEF CourseInv
<1>4. Course(c)
  BY DEF CourseInv, CommandInv
<1>5. Course(c)'
  BY <1>3, <1>4 DEF Course, Scaffolds, Settles, HasRead
<1> QED BY <1>1, <1>2, <1>5, MoveKeeps

(* The steps at settings.json and its backup. *)
LEMMA SettingsStepsKeep ==
  ASSUME CourseInv, NEW c \in Commands,
         Read(c) \/ Backup(c) \/ FillBackup(c) \/ Open(c) \/ Fill(c)
  PROVE  CourseInv'
<1>0. /\ TypeOK /\ Course(c) /\ file \in Contents /\ backups \in [Seconds -> Contents]
      /\ slot \in [Commands -> Seconds] /\ slot[c] \in Seconds /\ second \in Seconds
      /\ collided \in BOOLEAN /\ raw[c] \in Contents /\ raw[c].data \in Settings
      /\ Once(file.data) /\ Once(raw[c].data) /\ req[c].op \in {"init", "uninstall"}
  BY ContentTypes, InstallerAssumption DEF CourseInv, CommandInv, OnceInv, TypeOK
<1>1. CASE Read(c)
  <2> PICK where : where = IF req[c].op = "init" THEN InitNext(file)
                           ELSE UninstallNext(file, req[c].dryRun)
    OBVIOUS
  <2>1. /\ pc[c] = "read" /\ pc' = [pc EXCEPT ![c] = where]
        /\ raw' = [raw EXCEPT ![c] = file]
        /\ UNCHANGED <<file, backups, slot, collided, project, doc, outside>>
    BY <1>1 DEF Read, Goto
  <2>2. /\ where \in {"backup", "open", "done", "failed"}
        /\ where \in {"backup", "open"} => ~(req[c].op = "uninstall" /\ req[c].dryRun)
    BY <1>0 DEF InitNext, UninstallNext
  <2>3. where \in Places
    BY <2>2 DEF Places
  <2> QED BY <1>0, <2>1, <2>2, <2>3, SettleKeeps
<1>2. CASE Backup(c)
  <2>1. /\ pc[c] = "backup" /\ pc' = [pc EXCEPT ![c] = "fillBackup"]
        /\ UNCHANGED <<file, raw, project, doc, outside>>
        /\ slot' = [slot EXCEPT ![c] = second] /\ backups' = [backups EXCEPT ![second] = Empty]
        /\ collided' = (collided \/ backups[second] # Absent)
    BY <1>2 DEF Backup, Goto
  <2>2. backups' \in [Seconds -> Contents] /\ slot' \in [Commands -> Seconds] /\ collided' \in BOOLEAN
    BY <1>0, <2>1, ContentTypes
  <2>3. ~(req[c].op = "uninstall" /\ req[c].dryRun) /\ "fillBackup" \in Places
    BY <1>0, <2>1 DEF Course, HasRead, Places
  <2> QED BY <1>0, <2>1, <2>2, <2>3, SettleKeeps
<1>3. CASE FillBackup(c)
  <2>1. /\ pc[c] = "fillBackup" /\ pc' = [pc EXCEPT ![c] = "open"]
        /\ UNCHANGED <<file, raw, slot, collided, project, doc, outside>>
    BY <1>3 DEF FillBackup, Goto
  <2>2. PICK content \in WrittenOver(backups[slot[c]], raw[c].data) :
          backups' = [backups EXCEPT ![slot[c]] = content]
    BY <1>3 DEF FillBackup
  <2>3. backups' \in [Seconds -> Contents]
    BY <1>0, <2>2, WrittenTypes
  <2>4. ~(req[c].op = "uninstall" /\ req[c].dryRun) /\ "open" \in Places
    BY <1>0, <2>1 DEF Course, HasRead, Places
  <2> QED BY <1>0, <2>1, <2>3, <2>4, SettleKeeps
<1>4. CASE Open(c)
  <2>1. /\ pc[c] = "open" /\ pc' = [pc EXCEPT ![c] = "fill"] /\ file' = Empty
        /\ UNCHANGED <<backups, raw, slot, collided, project, doc, outside>>
    BY <1>4 DEF Open, Goto
  <2>2. Empty \in Contents /\ Once(Empty.data)
    BY ContentTypes, BlankSettings
  <2>3. ~(req[c].op = "uninstall" /\ req[c].dryRun) /\ "fill" \in Places
    BY <1>0, <2>1 DEF Course, HasRead, Places
  <2> QED BY <1>0, <2>1, <2>2, <2>3, SettleKeeps
<1>5. CASE Fill(c)
  <2>1. /\ pc[c] = "fill" /\ pc' = [pc EXCEPT ![c] = "done"] /\ file' \in WrittenOver(file, Out(c))
        /\ UNCHANGED <<backups, raw, slot, collided, project, doc, outside>>
    BY <1>5 DEF Fill, Goto
  <2>2. file' \in Contents /\ Once(file'.data)
    BY <1>0, <2>1, OutTypes, WrittenTypes
  <2>3. "done" \in Places
    BY DEF Places
  <2> QED BY <1>0, <2>1, <2>2, <2>3, SettleKeeps
<1> QED BY <1>1, <1>2, <1>3, <1>4, <1>5

(* A death leaves what it has opened empty or torn. *)
LEMMA DieKeeps ==
  ASSUME CourseInv, NEW c \in Commands, Die(c)
  PROVE  CourseInv'
<1>0. /\ TypeOK /\ Course(c) /\ file \in Contents /\ backups \in [Seconds -> Contents]
      /\ slot \in [Commands -> Seconds] /\ slot[c] \in Seconds /\ Once(file.data)
      /\ pc \in [Commands -> Places \cup {"idle"}]
  BY DEF CourseInv, CommandInv, OnceInv, TypeOK, Places
<1>1. /\ Running(c) /\ pc' = [pc EXCEPT ![c] = "failed"]
      /\ file' \in {file, Torn}
      /\ backups' \in {backups, [backups EXCEPT ![slot[c]] = Torn]}
      /\ project' \in {project, [project EXCEPT ![doc[c]] = "torn"]}
      /\ UNCHANGED <<doc, raw, slot, collided, outside>>
  BY DEF Die, Goto
<1>2. /\ file' \in Contents /\ Once(file'.data) /\ backups' \in [Seconds -> Contents]
      /\ slot' \in [Commands -> Seconds] /\ collided' \in BOOLEAN /\ "failed" \in Places
  BY <1>0, <1>1, ContentTypes, BlankSettings DEF TypeOK, Places
<1>3. Moves(c, "failed")
  BY <1>1 DEF Moves
<1>4. EmptyDocInv'
  BY <1>1, <1>3, EmptyKept
<1>5. Course(c)'
  <2>1. pc'[c] = "failed"
    BY <1>0, <1>1
  <2>2. \A d \in Docs : project[d] # "absent" => project'[d] # "absent"
    BY <1>0, <1>1 DEF TypeOK
  <2>3. "rules" \in Docs /\ "policy" \in Docs
    BY DEF Docs
  <2> QED BY <1>0, <1>1, <2>1, <2>2, <2>3 DEF Course, Scaffolds, Settles, HasRead, outside
<1> QED BY <1>2, <1>3, <1>4, <1>5, MoveKeeps

(* A new command begins with rules.md or with settings.json, and whoever ran *)
(* is no longer alone.                                                       *)
LEMMA StartKeeps ==
  ASSUME CourseInv, NEW c \in Commands, Start(c)
  PROVE  CourseInv'
<1> PICK r \in Requests : /\ req' = [req EXCEPT ![c] = r]
                          /\ Goto(c, IF r.op = "init" THEN "look" ELSE "read")
  BY DEF Start
<1> PICK where : where = IF r.op = "init" THEN "look" ELSE "read"
  OBVIOUS
<1>0. /\ TypeOK /\ CommandInv /\ EmptyDocInv /\ AloneInv
      /\ pc \in [Commands -> Places \cup {"idle"}] /\ req \in [Commands -> Requests]
  BY DEF CourseInv, TypeOK, Places
<1>1. /\ pc[c] = "idle" /\ pc' = [pc EXCEPT ![c] = where]
      /\ alone' = [d \in Commands |->
                     IF d = c THEN \A other \in Commands : ~Running(other)
                     ELSE alone[d] /\ ~Running(d)]
      /\ UNCHANGED <<file, backups, project, second, doc, raw, slot, saves, saved, overtaken,
                     collided>>
  BY DEF Start, Goto
<1>2. /\ pc'[c] = where /\ req'[c] = r /\ r.op \in {"init", "uninstall"}
      /\ \A d \in Commands \ {c} : pc'[d] = pc[d] /\ req'[d] = req[d]
  BY <1>0, <1>1, InstallerAssumption
<1>3. TypeOK'
  <2>1. pc' \in [Commands -> {"idle", "look", "openDoc", "fillDoc", "read", "backup",
                              "fillBackup", "open", "fill", "done", "failed"}]
    BY <1>0, <1>1 DEF TypeOK
  <2>2. req' \in [Commands -> Requests]
    BY <1>0
  <2>3. alone' \in [Commands -> BOOLEAN]
    <3>1. \A d \in Commands :
            (IF d = c THEN \A other \in Commands : ~Running(other)
             ELSE alone[d] /\ ~Running(d)) \in BOOLEAN
      BY <1>0 DEF TypeOK
    <3> QED BY <1>1, <3>1
  <2> QED BY <1>0, <1>1, <2>1, <2>2, <2>3 DEF TypeOK
<1>4. OnceInv'
  BY <1>1 DEF CourseInv, OnceInv, Once
<1>5. CommandInv'
  <2>1. Course(c)'
    <3>1. Course(c)
      BY <1>0 DEF CommandInv
    <3> QED BY <1>1, <1>2, <3>1 DEF Course, Scaffolds, Settles, HasRead
  <2>2. ASSUME NEW d \in Commands \ {c} PROVE Course(d)'
    <3>1. Course(d)
      BY <1>0 DEF CommandInv
    <3> QED BY <1>1, <1>2, <3>1 DEF Course, Scaffolds, Settles, HasRead
  <2> QED BY <2>1, <2>2 DEF CommandInv
<1>6. EmptyDocInv'
  <2>1. ASSUME NEW d \in Docs, project'[d] \in {"empty", "torn"}
        PROVE  \E x \in Commands : (pc'[x] = "fillDoc" /\ doc'[x] = d) \/ pc'[x] = "failed"
    <3>1. PICK x \in Commands : (pc[x] = "fillDoc" /\ doc[x] = d) \/ pc[x] = "failed"
      BY <1>0, <1>1, <2>1 DEF EmptyDocInv
    <3> QED BY <1>1, <1>2, <3>1
  <2> QED BY <2>1 DEF EmptyDocInv
<1>7. AloneInv'
  <2>1. \A d \in Commands \ {c} : alone'[d] => ~Running(d)
    BY <1>1
  <2>2. alone'[c] => \A d \in Commands : ~Running(d)
    BY <1>1
  <2>3. \A d \in Commands \ {c} : Running(d)' <=> Running(d)
    BY <1>2 DEF Running
  <2>4. pc'[c] # "fill"
    BY <1>2
  <2> QED BY <2>1, <2>2, <2>3, <2>4 DEF AloneInv
<1> QED BY <1>3, <1>4, <1>5, <1>6, <1>7 DEF CourseInv

(* Whoever runs when the user writes is no longer alone. *)
LEMMA UserKeeps ==
  ASSUME CourseInv, UserSaves \/ \E d \in Docs : UserWritesDoc(d)
  PROVE  CourseInv'
<1>0. TypeOK /\ CommandInv /\ EmptyDocInv /\ OnceInv /\ MaxSaves \in Nat
  BY InstallerAssumption DEF CourseInv
<1>1. /\ UNCHANGED <<pc, req, doc, raw, slot, backups, second>>
      /\ saves' = saves + 1 /\ saves < MaxSaves
      /\ alone' = [c \in Commands |-> alone[c] /\ ~Running(c)]
  BY DEF UserSaves, UserWritesDoc, proc
<1>2. saved' \in Settings /\ file' \in Contents /\ Once(file'.data) /\ overtaken' \in BOOLEAN
      /\ collided' \in BOOLEAN
  <2>1. CASE UserSaves
    <3>1. saved' \in Settings /\ Once(saved')
      BY <1>0, <2>1, SavedTypes
    <3>2. file' = Whole(saved') /\ overtaken' = (\E c \in Commands : HasRead(c)) /\ collided' = FALSE
      BY <2>1 DEF UserSaves
    <3> QED BY <3>1, <3>2, ContentTypes
  <2>2. CASE \E d \in Docs : UserWritesDoc(d)
    BY <1>0, <2>2 DEF UserWritesDoc, TypeOK, OnceInv
  <2> QED BY <2>1, <2>2
<1>3. \/ project' = project
      \/ \E d \in Docs : project' = [project EXCEPT ![d] = "mine"]
  BY DEF UserSaves, UserWritesDoc
<1>4. /\ project' \in [Docs -> {"absent", "empty", "torn", "mine", "template"}]
      /\ \A d \in Docs : /\ project[d] # "absent" => project'[d] # "absent"
                         /\ project'[d] \in {"empty", "torn"} => project[d] \in {"empty", "torn"}
  BY <1>0, <1>3 DEF TypeOK
<1>5. TypeOK'
  <2>1. saves' \in 0..MaxSaves
    BY <1>0, <1>1 DEF TypeOK
  <2>2. alone' \in [Commands -> BOOLEAN]
    <3>1. \A c \in Commands : (alone[c] /\ ~Running(c)) \in BOOLEAN
      BY <1>0 DEF TypeOK
    <3> QED BY <1>1, <3>1
  <2> QED BY <1>0, <1>1, <1>2, <1>4, <2>1, <2>2 DEF TypeOK
<1>6. OnceInv'
  <2>1. OnceInv' <=> Once(file'.data) /\ \A c \in Commands : Once(raw'[c].data)
    BY DEF OnceInv, Once
  <2> QED BY <1>0, <1>1, <1>2, <2>1 DEF OnceInv
<1>7. CommandInv'
  <2>1. "rules" \in Docs /\ "policy" \in Docs
    BY DEF Docs
  <2> QED BY <1>0, <1>1, <1>4, <2>1 DEF CommandInv, Course, Scaffolds, Settles, HasRead
<1>8. EmptyDocInv'
  BY <1>0, <1>1, <1>4 DEF EmptyDocInv
<1>9. AloneInv'
  <2>1. \A c \in Commands : alone'[c] => ~Running(c)
    BY <1>1
  <2>2. \A c \in Commands : Running(c)' <=> Running(c)
    BY <1>1 DEF Running
  <2> QED BY <2>1, <2>2 DEF AloneInv
<1> QED BY <1>5, <1>6, <1>7, <1>8, <1>9 DEF CourseInv

(* The clock, and nothing at all. *)
LEMMA IdleKeeps ==
  ASSUME CourseInv, Tick \/ UNCHANGED vars
  PROVE  CourseInv'
<1>1. /\ UNCHANGED <<file, backups, project, pc, req, doc, raw, slot, saves, saved, overtaken,
                     collided, alone>>
      /\ second' = second \/ (second < MaxSecond /\ second' = second + 1)
  BY DEF Tick, vars, proc
<1>2. TypeOK'
  <2>1. second' \in Seconds
    BY <1>1, InstallerAssumption DEF CourseInv, TypeOK, Seconds
  <2> QED BY <1>1, <2>1 DEF CourseInv, TypeOK
<1>3. OnceInv'
  BY <1>1 DEF CourseInv, OnceInv, Once
<1>4. CommandInv' /\ EmptyDocInv'
  BY <1>1 DEF CourseInv, CommandInv, Course, Scaffolds, Settles, HasRead, EmptyDocInv
<1>5. AloneInv'
  BY <1>1 DEF CourseInv, AloneInv, Running
<1> QED BY <1>2, <1>3, <1>4, <1>5 DEF CourseInv

(* Every step keeps it. *)
LEMMA StepCourseInv == CourseInv /\ [Next]_vars => CourseInv'
<1> SUFFICES ASSUME CourseInv, [Next]_vars PROVE CourseInv'
  OBVIOUS
<1>1. ASSUME NEW c \in Commands, Step(c) PROVE CourseInv'
  <2>1. CASE Start(c)
    BY <2>1, StartKeeps
  <2>2. CASE SkipDoc(c) \/ ToWriteDoc(c) \/ OpenDoc(c) \/ FillDoc(c)
    BY <2>2, DocStepsKeep
  <2>3. CASE Read(c) \/ Backup(c) \/ FillBackup(c) \/ Open(c) \/ Fill(c)
    BY <2>3, SettingsStepsKeep
  <2>4. CASE Die(c)
    BY <2>4, DieKeeps
  <2> QED BY <1>1, <2>1, <2>2, <2>3, <2>4 DEF Step
<1>2. CASE UserSaves \/ \E d \in Docs : UserWritesDoc(d)
  BY <1>2, UserKeeps
<1>3. CASE Tick \/ UNCHANGED vars
  BY <1>3, IdleKeeps
<1> QED BY <1>1, <1>2, <1>3 DEF Next

(* The commands' invariant holds throughout. *)
THEOREM CourseInvariant == Spec => []CourseInv
<1> QED BY InitCourseInv, StepCourseInv, PTL DEF Spec

(* Every variable of Installer keeps its type: in particular, merging and    *)
(* stripping make settings of settings.                                      *)
THEOREM TypeCorrect == Spec => []TypeOK
<1>1. CourseInv => TypeOK
  BY DEF CourseInv
<1> QED BY <1>1, CourseInvariant, PTL

(* However many inits and uninstalls ran, and however they overlapped, no    *)
(* event of settings.json has arbiter's hook twice.                          *)
THEOREM NeverHookedTwice == Spec => []HookedOnce
<1>1. CourseInv => HookedOnce
  <2> SUFFICES ASSUME CourseInv, NEW e \in Events
               PROVE  Cardinality(ArbiterEntries(file.data.hooks[e])) <= 1
    BY DEF HookedOnce
  <2> PICK X : X = ArbiterEntries(file.data.hooks[e])
    OBVIOUS
  <2>1. \A i, j \in X : i = j
    BY DEF CourseInv, OnceInv, Once, OnceIn
  <2>2. CASE X = {}
    BY <2>2, FS_EmptySet
  <2>3. CASE X # {}
    <3>1. PICK i \in X : X = {i}
      BY <2>1, <2>3
    <3>2. Cardinality(X) = 1
      BY <3>1, FS_Singleton
    <3> QED BY <3>2
  <2> QED BY <2>2, <2>3
<1> QED BY <1>1, CourseInvariant, PTL

-----------------------------------------------------------------------------
(* A command that met nobody *)

(* It ends well in four places, and it alone moves. *)
LEMMA WhereItEnds ==
  ASSUME CourseInv, Next, NEW c \in Commands, Succeeds(c)
  PROVE  /\ SkipDoc(c) \/ FillDoc(c) \/ Read(c) \/ Fill(c)
         /\ Running(c) /\ \A d \in Commands \ {c} : ~Running(d)
<1>0. pc \in [Commands -> Places \cup {"idle"}] /\ pc'[c] = "done" /\ pc[c] # "done" /\ alone[c]
  BY DEF CourseInv, TypeOK, Places, Succeeds
<1>1. ASSUME NEW d \in Commands, Step(d) PROVE \E where : pc' = [pc EXCEPT ![d] = where]
  BY <1>1 DEF Step, Start, SkipDoc, ToWriteDoc, OpenDoc, FillDoc, AfterDoc, Read, Backup,
              FillBackup, Open, Fill, Die, Goto
<1>2. ~UserSaves /\ ~(\E d \in Docs : UserWritesDoc(d)) /\ ~Tick
  BY <1>0 DEF UserSaves, UserWritesDoc, Tick, proc
<1>3. PICK d \in Commands : Step(d)
  BY <1>2 DEF Next
<1>4. d = c
  BY <1>0, <1>1, <1>3
<1>5. ~Start(c) /\ ~ToWriteDoc(c) /\ ~OpenDoc(c) /\ ~Backup(c) /\ ~FillBackup(c) /\ ~Open(c) /\ ~Die(c)
  <2>1. \A r \in Requests : (IF r.op = "init" THEN "look" ELSE "read") # "done"
    OBVIOUS
  <2>2. ~Start(c)
    BY <1>0, <2>1 DEF Start, Goto
  <2>3. ~ToWriteDoc(c) /\ ~OpenDoc(c) /\ ~Die(c)
    BY <1>0 DEF ToWriteDoc, OpenDoc, Die, Goto
  <2>4. ~Backup(c) /\ ~FillBackup(c) /\ ~Open(c)
    BY <1>0 DEF Backup, FillBackup, Open, Goto
  <2> QED BY <2>2, <2>3, <2>4
<1>6. SkipDoc(c) \/ FillDoc(c) \/ Read(c) \/ Fill(c)
  BY <1>3, <1>4, <1>5 DEF Step
<1>7. Running(c)
  BY <1>6 DEF SkipDoc, FillDoc, Read, Fill, Running
<1> QED BY <1>0, <1>6, <1>7 DEF CourseInv, AloneInv

(* The documents are there, whole unless somebody died. *)
LEMMA DocsAreThere ==
  ASSUME CourseInv, Next, NEW c \in Commands, Succeeds(c), req[c].op = "init", NEW d \in Docs
  PROVE  /\ project'[d] # "absent"
         /\ project'[d] \in {"empty", "torn"} => \E other \in Commands : pc[other] = "failed"
<1>0. /\ TypeOK /\ Course(c) /\ doc[c] \in Docs
      /\ project \in [Docs -> {"absent", "empty", "torn", "mine", "template"}]
      /\ pc'[c] = "done" /\ pc \in [Commands -> Places \cup {"idle"}]
  BY DEF CourseInv, CommandInv, TypeOK, Succeeds, Places
<1>1. /\ SkipDoc(c) \/ FillDoc(c) \/ Read(c) \/ Fill(c)
      /\ \A x \in Commands \ {c} : ~Running(x)
  BY WhereItEnds
<1>2. project[d] \in {"empty", "torn"} =>
        (pc[c] = "fillDoc" /\ doc[c] = d) \/ \E other \in Commands : pc[other] = "failed"
  <2> SUFFICES ASSUME project[d] \in {"empty", "torn"}
               PROVE (pc[c] = "fillDoc" /\ doc[c] = d) \/ \E other \in Commands : pc[other] = "failed"
    OBVIOUS
  <2>1. PICK x \in Commands : (pc[x] = "fillDoc" /\ doc[x] = d) \/ pc[x] = "failed"
    BY DEF CourseInv, EmptyDocInv
  <2> QED BY <1>1, <2>1 DEF Running
<1>3. CASE SkipDoc(c) \/ FillDoc(c)
  <2>1. doc[c] = "policy" /\ project["rules"] # "absent"
    <3>1. AfterDoc(c)
      BY <1>3 DEF SkipDoc, FillDoc
    <3>2. doc[c] # "rules"
      BY <1>0, <3>1 DEF AfterDoc, Goto
    <3> QED BY <1>0, <3>2 DEF Docs, Course
  <2>2. CASE SkipDoc(c)
    <3>1. project' = project /\ pc[c] = "look" /\ project[doc[c]] # "absent"
      BY <1>0, <2>2, InstallerAssumption DEF SkipDoc, Present
    <3> QED BY <1>2, <2>1, <3>1 DEF Docs
  <2>3. CASE FillDoc(c)
    <3>1. project' = [project EXCEPT ![doc[c]] = "template"]
      BY <2>3 DEF FillDoc
    <3>2. project'["policy"] = "template" /\ project'["rules"] = project["rules"]
      BY <1>0, <2>1, <3>1 DEF Docs
    <3> QED BY <1>2, <2>1, <3>2 DEF Docs
  <2> QED BY <1>3, <2>2, <2>3
<1>4. CASE Read(c) \/ Fill(c)
  <2>1. project' = project /\ Settles(c) /\ pc[c] # "fillDoc"
    BY <1>4 DEF Read, Fill, Settles
  <2>2. project["rules"] # "absent" /\ project["policy"] # "absent"
    BY <1>0, <2>1 DEF Course
  <2> QED BY <1>2, <2>1, <2>2 DEF Docs
<1> QED BY <1>1, <1>3, <1>4

(* The settings say what the command was for. *)
LEMMA SettingsAreDone ==
  ASSUME CourseInv, Next, NEW c \in Commands, Succeeds(c)
  PROVE  (req[c].op = "init" /\ ~req[c].hooks) \/ Settled(c, file')
<1>0. /\ TypeOK /\ Course(c) /\ req[c].op \in {"init", "uninstall"} /\ req[c].mcp \in BOOLEAN
      /\ req[c].hooks \in BOOLEAN /\ req[c].dryRun \in BOOLEAN
      /\ raw[c].data \in Settings /\ pc'[c] = "done" /\ alone[c]
      /\ pc \in [Commands -> Places \cup {"idle"}]
  BY ContentTypes, InstallerAssumption DEF CourseInv, CommandInv, TypeOK, Succeeds, Places
<1>1. SkipDoc(c) \/ FillDoc(c) \/ Read(c) \/ Fill(c)
  BY WhereItEnds
<1>2. CASE SkipDoc(c) \/ FillDoc(c)
  <2>1. AfterDoc(c) /\ Scaffolds(c)
    BY <1>2 DEF SkipDoc, FillDoc, Scaffolds
  <2>2. ~req[c].hooks
    BY <1>0, <2>1 DEF AfterDoc, Goto
  <2> QED BY <1>0, <2>1, <2>2 DEF Course
<1>3. CASE Read(c)
  <2>1. /\ raw'[c] = file /\ file' = file
        /\ Goto(c, IF req[c].op = "init" THEN InitNext(file) ELSE UninstallNext(file, req[c].dryRun))
    BY <1>0, <1>3 DEF Read, TypeOK
  <2>2. req[c].op = "uninstall" /\ UninstallNext(file, req[c].dryRun) = "done"
    <3>1. InitNext(file) # "done"
      BY DEF InitNext
    <3> QED BY <1>0, <2>1, <3>1 DEF Goto
  <2>3. file.kind = "absent" \/ ~HasArbiter(file.data) \/ req[c].dryRun
    BY <2>2 DEF UninstallNext
  <2>4. SameForTheUser(file.data, file.data)
    BY DEF SameForTheUser
  <2> QED BY <1>0, <2>1, <2>2, <2>3, <2>4 DEF Settled
<1>4. CASE Fill(c)
  <2>1. pc[c] = "fill" /\ raw' = raw /\ file' \in WrittenOver(file, Out(c))
    BY <1>4 DEF Fill
  <2>2. file = Empty
    BY <1>0, <2>1 DEF CourseInv, AloneInv, Running
  <2>3. file' = Whole(Out(c)) /\ file'.data = Out(c) /\ file'.kind = "whole"
    BY <1>0, <2>1, <2>2, OutTypes, WrittenTypes, ContentTypes
  <2>4. CASE req[c].op = "init"
    <3> PICK new : new = Merge(raw[c].data, req[c].mcp)
      OBVIOUS
    <3>1. file'.data = new
      BY <2>3, <2>4 DEF Out
    <3>2. SameForTheUser(raw[c].data, new) /\ Installed(new) /\ (req[c].mcp => Arbiter \in new.servers)
      BY <1>0, Merged
    <3>3. raw'[c].data = raw[c].data
      BY <2>1
    <3>4. /\ SameForTheUser(raw'[c].data, file'.data) /\ Installed(file'.data)
          /\ req[c].mcp => Arbiter \in file'.data.servers
      BY <3>1, <3>2, <3>3
    <3> QED BY <2>3, <2>4, <3>4 DEF Settled
  <2>5. CASE req[c].op = "uninstall"
    <3> PICK new : new = Strip(raw[c].data)
      OBVIOUS
    <3>1. file'.data = new
      BY <2>3, <2>5 DEF Out
    <3>2. SameForTheUser(raw[c].data, new) /\ ~HasArbiter(new)
      BY <1>0, StrippedSettings
    <3>3. ~req[c].dryRun /\ req[c].op # "init"
      BY <1>0, <2>1, <2>5 DEF Course, HasRead
    <3>4. raw'[c].data = raw[c].data
      BY <2>1
    <3> QED BY <3>1, <3>2, <3>3, <3>4 DEF Settled
  <2> QED BY <1>0, <2>4, <2>5
<1> QED BY <1>1, <1>2, <1>3, <1>4

(* Every step to the end of a command that met nobody keeps its word. *)
LEMMA SuccessStep ==
  CourseInv /\ [Next]_vars => [\A c \in Commands : Succeeds(c) => KeepsItsWord(c)]_vars
<1> SUFFICES ASSUME CourseInv, Next, NEW c \in Commands, Succeeds(c) PROVE KeepsItsWord(c)
  OBVIOUS
<1>1. (req[c].op = "init" /\ ~req[c].hooks) \/ Settled(c, file')
  BY SettingsAreDone
<1>2. req[c].op = "init" => \A d \in Docs :
        /\ project'[d] # "absent"
        /\ project'[d] \in {"empty", "torn"} => \E other \in Commands : pc[other] = "failed"
  BY DocsAreThere
<1> QED BY <1>1, <1>2 DEF KeepsItsWord

(* However many commands came before and whatever they left half done: an    *)
(* init or uninstall that ends well, and met nobody, has done what it says,  *)
(* and has left the user her own settings as she had them.                   *)
THEOREM SuccessHolds == Spec => SuccessIsReal
<1> QED BY SuccessStep, CourseInvariant, PTL DEF Spec, SuccessIsReal
=============================================================================
