------------------------------ MODULE Journal ------------------------------
(***************************************************************************)
(* The two append-only files and their readers: the eventlog               *)
(* (internal/eventlog, `arbiter logs`, `arbiter explain`, lookup_history,  *)
(* list_recent_actions) and the index of runs (internal/runner/index.go,   *)
(* `arbiter run --list`, `arbiter run --resume`).  Processes append to     *)
(* them at the same time; a write may stop half way, because the disk is   *)
(* full or the process dies, and nobody repairs the line it leaves.        *)
(*                                                                         *)
(* Abstraction.  A row is its writer and its kind; session, tool, id and   *)
(* directory are the writer's.  The files share no state, and the model    *)
(* follows one of the two, either one.  A file is the sequence of the      *)
(* pieces that writes left in it: a "line", a "body" (the JSON without its *)
(* newline), "most" of it or a smaller "part".  The kernel orders the      *)
(* writes of O_APPEND; a reader may see what is written so far.  Times are *)
(* ranks, of a clock that is not set back.  The order of `run --list` and  *)
(* its limit are left out.                                                 *)
(***************************************************************************)
EXTENDS Naturals, Sequences, FiniteSets, FiniteSetsExt, SequencesExt

CONSTANTS
  Hooks,         (* hook processes: one decision each                        *)
  Runs,          (* `arbiter run` processes                                  *)
  Session,       (* per writer: its session; a run's is its id               *)
  Tool,          (* per writer: the tool, or the run's CLI                   *)
  Cwd,           (* per run: its directory                                   *)
  TooLong(_),    (* whether pieces that are one line to a scanner are longer *)
                 (* than the 1 MiB it has room for                           *)
  Long,          (* bound: writers of whose row most is told from a part     *)
  Quiet,         (* bound: runs whose rows in the eventlog are left out      *)
  Unset,         (* a filter that is not set                                 *)
  None,
  MaxCuts        (* bound: writes that fail or stop half way                 *)

ASSUME JournalAssumption ==
  /\ Hooks \cap Runs = {} /\ IsFiniteSet(Hooks \cup Runs)
  /\ Long \subseteq Hooks \cup Runs /\ Quiet \subseteq Runs
  /\ None \notin Hooks \cup Runs
  /\ None \notin [writer: Hooks \cup Runs, kind: {"decision", "start", "end"}, ended: Nat]
  /\ MaxCuts \in Nat

Writers == Hooks \cup Runs
Files == {"events", "index"}
Ids == {Session[w] : w \in Runs}

VARIABLES
  file,         (* the file in question                                      *)
  log,          (* its pieces, [row, size]                                   *)
  busy,         (* the writer in the middle of a write, or None              *)
  at,           (* per writer: appends it is through with                    *)
  dead,         (* writers that were killed                                  *)
  ended,        (* per run: the rank of its end, 0 before                    *)
  acked,        (* rows whose append returned nil                            *)
  cuts,
  overlap,      (* history: ids under which two runs were in flight at once  *)
  tail,         (* `logs --tail`: [on, from, at, ate, shown]                 *)
  split         (* history: rows the tail met half written                   *)

writers == <<file, log, busy, at, dead, ended, acked, cuts, overlap>>
vars == <<writers, tail, split>>

(* What a process appends, in its order: a hook logs its decision, a run its *)
(* start and its end, in either file (runner.go).                            *)
Program(w) ==
  IF file = "events" THEN CASE w \in Hooks -> <<"decision">>
                            [] w \in Quiet -> <<>>
                            [] OTHER -> <<"start", "end">>
  ELSE IF w \in Runs THEN <<"start", "end">> ELSE <<>>

Row(w, kind) == [writer |-> w, kind |-> kind, ended |-> IF kind = "end" THEN ended[w] ELSE 0]

Piece(row, size) == [row |-> row, size |-> size]

Halves(w) == IF w \in Long THEN {"part", "most"} ELSE {"part"}

-----------------------------------------------------------------------------
(* Writers *)

Finished(w) == at[w] = Len(Program(w))
InFlight(w) ==
  /\ ~Finished(w) /\ w \notin dead
  /\ at[w] > 0 \/ busy = w

(* AppendTo, AppendIndex: one write of the whole line. *)
Begin(w) ==
  /\ ~Finished(w) /\ w \notin dead /\ busy = None
  /\ w \in Runs /\ at[w] = 1 => ended[w] # 0
  /\ busy' = w
  /\ \E size \in Halves(w) :
       log' = Append(log, Piece(Row(w, Program(w)[at[w] + 1]), size))
  /\ overlap' = overlap \cup
       {Session[r] : r \in {o \in Runs \ {w} : InFlight(o) /\ Session[o] = Session[w]}}
  /\ UNCHANGED <<file, at, dead, ended, acked, cuts, tail, split>>

Grow(size) == log' = [log EXCEPT ![Len(log)].size = size]

Complete(w) ==
  /\ busy = w
  /\ Grow("line")
  /\ acked' = acked \cup {Last(log).row}
  /\ busy' = None
  /\ at' = [at EXCEPT ![w] = @ + 1]
  /\ UNCHANGED <<file, dead, ended, cuts, overlap, tail, split>>

(* The writer drops the error and goes on, or it dies. *)
GoesOnOrDies(w) ==
  \/ at' = [at EXCEPT ![w] = @ + 1] /\ dead' = dead
  \/ at' = at /\ dead' = dead \cup {w}

(* A write stops short. *)
Cut(w) ==
  /\ cuts < MaxCuts /\ busy = w
  /\ \E size \in Halves(w) \cup {"body"} :
       (Last(log).size = "most" => size # "part") /\ Grow(size)
  /\ busy' = None
  /\ cuts' = cuts + 1
  /\ GoesOnOrDies(w)
  /\ UNCHANGED <<file, ended, acked, overlap, tail, split>>

(* The file cannot be opened, or the process dies before it appends. *)
Skip(w) ==
  /\ cuts < MaxCuts /\ ~Finished(w) /\ w \notin dead /\ busy # w
  /\ cuts' = cuts + 1
  /\ GoesOnOrDies(w)
  /\ UNCHANGED <<file, log, busy, ended, acked, overlap, tail, split>>

(* An end taken again at every look: a mutant of End. *)
EndAgain(w) ==
  /\ w \in Runs /\ at[w] = 1 /\ w \notin dead
  /\ ended' = [ended EXCEPT ![w] = Cardinality({r \in Runs : ended[r] # 0}) + 1]
  /\ UNCHANGED <<file, log, busy, at, dead, acked, cuts, overlap, tail, split>>

(* A run takes its end time before it logs it. *)
End(w) ==
  /\ w \in Runs /\ at[w] = 1 /\ ended[w] = 0 /\ w \notin dead
  /\ ended' = [ended EXCEPT ![w] = Cardinality({r \in Runs : ended[r] # 0}) + 1]
  /\ UNCHANGED <<file, log, busy, at, dead, acked, cuts, overlap, tail, split>>

-----------------------------------------------------------------------------
(* Readers that scan a file *)

(* A piece that does not end its line runs into the next one, and the line  *)
(* of the two does not parse.                                               *)
Glued(i) == i > 1 /\ log[i - 1].size # "line"

(* A scan that stops at a line it cannot parse: a mutant of Parses. *)
ParsesUpTo(i) == \A j \in 1..i : log[j].size = "line"

Parses(i) ==
  /\ ~Glued(i)
  /\ log[i].size = "line" \/ (log[i].size = "body" /\ i = Len(log))

(* bufio.Scanner gives up at bytes without a newline that it has no room    *)
(* for, be they one row's or glued from several, and the reader with it.    *)
Fails ==
  \E i \in DOMAIN log : \E j \in i..Len(log) :
    (\A k \in (i + 1)..j : Glued(k)) /\ TooLong(SubSeq(log, i, j))

RowAt(i) == log[i].row

(* The rows at some of the positions, as a scan meets them. *)
RowsIn(positions) ==
  LET upTo[n \in 0..Len(log)] ==
        IF n = 0 THEN <<>>
        ELSE IF n \in positions THEN Append(upTo[n - 1], RowAt(n)) ELSE upTo[n - 1]
  IN  upTo[Len(log)]

Matches(row, q) ==
  /\ q.session \in {Unset, Session[row.writer]}
  /\ q.tool \in {Unset, Tool[row.writer]}

Scanned == {i \in DOMAIN log : Parses(i) /\ ~Fails}

Found(q) == RowsIn({i \in Scanned : Matches(RowAt(i), q)})

LastOf(s, n) == SubSeq(s, IF Len(s) > n THEN Len(s) - n + 1 ELSE 1, Len(s))
FirstOf(s, n) == SubSeq(s, 1, IF Len(s) > n THEN n ELSE Len(s))

(* eventlog.Lookup, the newest first, and what the two tools make of it; a   *)
(* limit of 0 is the default.                                               *)
OldestKept(q, n) == Reverse(FirstOf(Found(q), n))
Lookup(q, n) == FirstOf(Reverse(Found(q)), n)

Wide == [session |-> Unset, tool |-> Unset]
LookupHistory(q, n) == Lookup(q, IF n = 0 THEN 5 ELSE n)
ListRecentActions(session, n) == Lookup([Wide EXCEPT !.session = session], IF n = 0 THEN 20 ELSE n)

(* `arbiter logs`: scanLogs. *)
ScanLogs(q, n) == LastOf(Found(q), n)

(* eventlog.Explain: the last row that is the event, is of the session, or    *)
(* any row with --last.                                                     *)
Picked(last, session, event) ==
  LET rows == RowsIn({i \in Scanned : \/ RowAt(i) = event
                                      \/ Session[RowAt(i).writer] = session
                                      \/ last}) IN
  IF rows = <<>> THEN None ELSE Last(rows)

(* `arbiter explain`: a session, and perhaps an event, or --last. *)
ExplainCommand(last, session, event) ==
  IF ~last /\ session = Unset THEN None ELSE Picked(last, session, event)

IndexRows(id, kind) ==
  {i \in Scanned : Session[RowAt(i).writer] = id /\ RowAt(i).kind = kind}

(* FindLatest: the last end row in the file, or else the last start row. *)
FindLatest(id) ==
  LET rows == IF IndexRows(id, "end") # {} THEN IndexRows(id, "end") ELSE IndexRows(id, "start") IN
  IF rows = {} THEN None ELSE RowAt(Max(rows))

(* A list that keeps the first row it meets: a mutant. *)
ListedFirst(id) ==
  LET rows == IndexRows(id, "end") \cup IndexRows(id, "start") IN
  IF rows = {} THEN None ELSE RowAt(Min(rows))

(* ListRecent: the row with the latest end, or else the first start row. *)
Listed(id) ==
  IF IndexRows(id, "end") # {}
  THEN RowAt(CHOOSE i \in IndexRows(id, "end") : \A j \in IndexRows(id, "end") :
                        RowAt(j).ended <= RowAt(i).ended)
  ELSE IF IndexRows(id, "start") # {} THEN RowAt(Min(IndexRows(id, "start")))
  ELSE None

(* VerifyResumeCwd; an id without rows may be a session of the CLI's own. *)
MayResume(id, cwd, force) ==
  /\ ~Fails
  /\ FindLatest(id) = None \/ force \/ Cwd[FindLatest(id).writer] = cwd

-----------------------------------------------------------------------------
(* `arbiter logs --tail` (tailLogs) *)

TailStart ==
  /\ file = "events" /\ ~tail.on
  /\ LET whole == log = <<>> \/ Last(log).size = "line" IN
       tail' = [on |-> TRUE, from |-> Len(log), shown |-> <<>>,
                at |-> IF whole THEN Len(log) ELSE Len(log) - 1,
                ate |-> IF whole THEN "" ELSE Last(log).size]
  /\ UNCHANGED <<writers, split>>

Newlines == {i \in DOMAIN log : i > tail.at /\ log[i].size = "line"}

(* At the end of the file without a newline the reader drops what it has.   *)
TailMeetsEnd ==
  /\ tail.on /\ Newlines = {} /\ Len(log) > tail.at
  /\ tail' = [tail EXCEPT !.at = Len(log) - 1, !.ate = Last(log).size]
  /\ split' = split \cup {RowAt(Len(log))}
  /\ UNCHANGED writers

(* The line up to piece i, without what was dropped of it before. *)
LineParses(i) ==
  \/ i = tail.at + 1 /\ tail.ate = ""
  \/ i = tail.at + 2 /\ tail.ate = log[tail.at + 1].size

(* A tail that gives up at a line it cannot parse: a mutant. *)
TailGivesUp ==
  /\ tail.on /\ Newlines # {}
  /\ LET i == Min(Newlines) IN
       /\ LineParses(i)
       /\ tail' = [tail EXCEPT !.at = i, !.ate = "", !.shown = Append(@, RowAt(i))]
  /\ UNCHANGED <<writers, split>>

TailReadsLine ==
  /\ tail.on /\ Newlines # {}
  /\ LET i == Min(Newlines) IN
       tail' = [tail EXCEPT !.at = i, !.ate = "",
                            !.shown = IF LineParses(i) THEN Append(@, RowAt(i)) ELSE @]
  /\ UNCHANGED <<writers, split>>

TailPoll == TailMeetsEnd \/ TailReadsLine

-----------------------------------------------------------------------------
Init ==
  /\ file \in Files
  /\ log = <<>>
  /\ busy = None
  /\ at = [w \in Writers |-> 0]
  /\ dead = {}
  /\ ended = [r \in Runs |-> 0]
  /\ acked = {}
  /\ cuts = 0
  /\ overlap = {}
  /\ tail = [on |-> FALSE, from |-> 0, at |-> 0, ate |-> "", shown |-> <<>>]
  /\ split = {}

Next ==
  \/ \E w \in Writers : Begin(w) \/ Complete(w) \/ Cut(w) \/ Skip(w) \/ End(w)
  \/ TailStart \/ TailPoll

(* The tail polls every 250 ms. *)
Spec == Init /\ [][Next]_vars /\ WF_vars(TailPoll)

-----------------------------------------------------------------------------
(* Properties *)

Rows == [writer: Writers, kind: {"decision", "start", "end"}, ended: 0..Cardinality(Runs)]

TypeOK ==
  /\ file \in Files
  /\ log \in Seq([row: Rows, size: {"part", "most", "body", "line"}])
  /\ busy \in Writers \cup {None}
  /\ at \in [Writers -> 0..2]
  /\ dead \subseteq Writers
  /\ ended \in [Runs -> 0..Cardinality(Runs)]
  /\ acked \subseteq Rows
  /\ cuts \in 0..MaxCuts
  /\ overlap \subseteq Ids
  /\ tail.on \in BOOLEAN /\ tail.ate \in {"", "part", "most", "body"}
  /\ tail.at \in 0..Len(log) /\ tail.from \in 0..Len(log)
  /\ tail.shown \in Seq(Rows)
  /\ split \subseteq Rows

(* As long as the scan gets through, a row whose append succeeded is lost to *)
(* the readers only when the write before it stopped half way, so that no    *)
(* more rows are lost than writes failed; no reader sees a row that nobody   *)
(* wrote to the end.  A scan that does not get through hides every row,      *)
(* which takes a row that is too long on its own or a write that failed.     *)
RowsAreFound ==
  LET seen == {RowAt(i) : i \in Scanned} IN
  /\ ~Fails => Cardinality(acked \ seen) <= cuts
  /\ Fails => cuts > 0 \/ \E i \in DOMAIN log : TooLong(<<log[i]>>)
  /\ Cardinality(seen \ acked) <= cuts

Queries == {Wide} \cup {[Wide EXCEPT !.session = Session[w]] : w \in Writers}
                 \cup {[Wide EXCEPT !.tool = Tool[w]] : w \in Writers}

(* The scans are written three times over, and tell one story: lookup_history *)
(* has the rows of `logs` in the opposite order, `explain` the newest of      *)
(* them, and the tail shows its rows in the order of the log, each once.      *)
NewestOf(rows) == IF rows = <<>> THEN None ELSE rows[1]

ReadersAgree ==
  file = "events" =>
  /\ \A q \in Queries, n \in 1..2 : Reverse(LookupHistory(q, n)) = ScanLogs(q, n)
  /\ \A s \in {Session[w] : w \in Writers} \ {Unset} :
       ExplainCommand(FALSE, s, None) = NewestOf(ListRecentActions(s, 0))
  /\ ExplainCommand(TRUE, Unset, None) = NewestOf(ListRecentActions(Unset, 1))
  /\ \A j, k \in DOMAIN tail.shown : j < k =>
       \E i, l \in DOMAIN log : /\ i < l
                                /\ RowAt(i) = tail.shown[j]
                                /\ RowAt(l) = tail.shown[k]

(* `run --list` and the directory check of --resume go by the same row of an *)
(* id, whatever was lost, unless two runs of that id were in flight at once  *)
(* or none of several has an end row; a resume is accepted unforced only in  *)
(* a directory where a run of that id was, and only an id without rows is    *)
(* accepted everywhere.                                                      *)
ListAgreesWithResume ==
  file = "index" => \A id \in Ids :
    /\ \/ Listed(id) = FindLatest(id)
       \/ id \in overlap
       \/ IndexRows(id, "end") = {} /\ Cardinality(IndexRows(id, "start")) > 1
    /\ Listed(id) = None <=> FindLatest(id) = None
    /\ \A cwd \in {Cwd[r] : r \in Runs} : MayResume(id, cwd, FALSE) =>
         \/ FindLatest(id) = None
         \/ \E r \in Runs : Session[r] = id /\ Cwd[r] = cwd /\ (at[r] > 0 \/ r \in dead)

ToBeShown(i) ==
  tail.on /\ i > tail.from /\ i \in DOMAIN log /\ log[i].size = "line"

AccountedFor(i) ==
  /\ i \in DOMAIN log
  /\ \/ RowAt(i) \in Range(tail.shown) \cup split
     \/ Glued(i)

(* A row written while somebody tails the log is shown to her in the end,    *)
(* unless the tail met it half written or it was glued to a cut one.         *)
TailKeepsUp ==
  \A i \in 1..(Cardinality(Hooks) + 2 * Cardinality(Runs)) :
    ToBeShown(i) ~> AccountedFor(i)
=============================================================================
