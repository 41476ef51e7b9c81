------------------------------- MODULE Proxy --------------------------------
(***************************************************************************)
(* The proxy's way of one request (internal/proxy/server.go, wire.go) with *)
(* routing (classify, route), the gate on whole answers, the budget        *)
(* (budget.go) and the usage ledger (usage.go).  Requests are served       *)
(* concurrently, each by a goroutine of its own; the days change and the   *)
(* process is restarted in between.  Streamed answers are StreamGate's.    *)
(*                                                                         *)
(* Abstraction.  A slot is a client that sends one request after the       *)
(* other.  Of a request's fields only the model is told apart from `other`,*)
(* the fields that translate's request types do not have.  Of the session  *)
(* counters only the one of answers without an id is kept, for Inspect("") *)
(* reads no other; soft limits only change a Status that nobody reads.     *)
(*                                                                         *)
(* External part: the clients and the LLM's API, which answers a body that *)
(* is no request with an error.  `legible` says whether a whole answer is  *)
(* one the gate and extractUsage can read.  It is not when it is no JSON,  *)
(* as when the client's Accept-Encoding, which is forwarded, makes the API *)
(* compress it: the transport undoes only what it asked for itself.  Nor   *)
(* is an answer of /v1/responses, whose calls and token counts have other  *)
(* names.                                                                  *)
(***************************************************************************)
EXTENDS FastPath, FiniteSets, FiniteSetsExt, Functions

CONSTANTS
  Slots,
  Asks,          (* requests: [provider, parses, model, prompt, tools, other]  *)
  Answers,       (* [stream, legible, usage, blocks]; usage is Absent or [anon, tokens, cost] *)
  Refusal,       (* what a denied tool call is replaced by                    *)
  Policies,      (* compiled policies, or Absent                              *)
  Limits,        (* hard limits a Wiring may have: [session, daily], 0 for none *)
  Table,         (* the routing section: [defaults, rules]                    *)
  Cli,           (* --cli                                                     *)
  MaxCost,       (* the highest cost of one answer                            *)
  MaxDay,        (* bound: days                                               *)
  MaxRequests    (* bound: requests in a behaviour                            *)

ASSUME ProxyAssumption ==
  /\ IsFiniteSet(Slots)
  /\ MaxCost \in Nat /\ MaxDay \in Nat /\ MaxRequests \in Nat
  /\ Limits \subseteq [session : Nat, daily : Nat]
  /\ \A a \in Answers :
       /\ a.blocks \in Seq(Range(a.blocks))
       /\ a.usage # Absent => a.usage.cost \in 0..MaxCost /\ a.usage.tokens \in Nat \ {0}

VARIABLES
  policy, limits,
  req,          (* per slot: its last request                                *)
  counter,      (* budget.State: [day, cost, anonymous]                      *)
  ledger,       (* usage.jsonl: the cost of each day's rows                  *)
  today,
  served,       (* requests so far, for the bound                            *)
  unlogged,     (* history: charged today without a row of today             *)
  forgotten,    (* history: today's rows a failed hydration left out         *)
  slate         (* history: a hydration failed today                         *)

history == <<unlogged, forgotten, slate>>
vars == <<policy, limits, req, counter, ledger, today, served, history>>

Never == MaxDay + 1      \* the zero time.Time
NoRow == MaxDay + 1

-----------------------------------------------------------------------------
(* Routing *)

(* preForward knows the user's last text and the tools, nothing of files. *)
Classify(ask) ==
  IF \/ ask.prompt = {} /\ ask.tools # {} /\ ask.tools \subseteq {"Read", "Glob", "Grep"}
     \/ "summarize" \in ask.prompt
  THEN "read-only-summarization"
  ELSE IF "architecture" \in ask.prompt THEN "hard-reasoning"
  ELSE IF "question" \in ask.prompt THEN "read-only-summarization"
  ELSE "other"

RulesFor(tag) == {i \in DOMAIN Table.rules : Table.rules[i].tag = tag}

Pick(ask) ==
  IF RulesFor(Classify(ask)) # {} THEN Table.rules[Min(RulesFor(Classify(ask)))].model
  ELSE IF Cli \in DOMAIN Table.defaults /\ Table.defaults[Cli] # "" THEN Table.defaults[Cli]
  ELSE ask.model

Parsed(ask) == ask.provider # "gemini" /\ ask.parses

Routed(ask) == Parsed(ask) /\ Pick(ask) \notin {"", ask.model}

(* The body is marshalled before the model is set: a mutant of Rewritten. *)
OldModel(ask) == [model |-> ask.model, other |-> ask.other /\ ~Routed(ask)]

(* What goes to the API: a routed request is marshalled anew. *)
Rewritten(ask) ==
  IF Routed(ask) THEN [model |-> Pick(ask), other |-> FALSE]
  ELSE [model |-> ask.model, other |-> ask.other]

RoutedTo(ask) == IF Routed(ask) THEN Pick(ask) ELSE Absent

(* Absent is neither a model's name nor a body.                             *)
ASSUME AbsentAssumption ==
  \A ask \in Asks : Pick(ask) # Absent /\ Rewritten(ask) # Absent

-----------------------------------------------------------------------------
(* The budget *)

(* Only the session limit is looked at: a mutant of OverHard. *)
OverSession == limits.session > 0 /\ counter.anonymous > limits.session

(* Inspect("").OverHard *)
OverHard ==
  \/ limits.session > 0 /\ counter.anonymous > limits.session
  \/ limits.daily > 0 /\ counter.cost > limits.daily

(* The bucket of the day before is charged on: a mutant of Charged. *)
SameBucket(u) ==
  [counter EXCEPT !.day = today, !.cost = @ + u.cost,
                  !.anonymous = IF u.anon THEN @ + u.tokens ELSE @]

Charged(u) ==
  [day       |-> today,
   cost      |-> (IF counter.day = today THEN counter.cost ELSE 0) + u.cost,
   anonymous |-> IF u.anon THEN counter.anonymous + u.tokens ELSE counter.anonymous]

(* NewState and HydrateFromLedger, which may fail to read the ledger. *)
Hydrated == [day |-> today, cost |-> ledger[today], anonymous |-> 0]
CleanSlate == [day |-> Never, cost |-> 0, anonymous |-> 0]

-----------------------------------------------------------------------------
(* The gate on whole answers *)

DeniedBlock(b) == b.call /\ Eval(policy, [tool |-> b.tool, input |-> b.input]).outcome = "deny"

(* Gemini's answers, and a body that does not parse or has no calls where   *)
(* the gate looks for them, are returned as they came.                      *)
Decides(provider, a) == policy # Absent /\ provider # "gemini" /\ a.legible

(* The loop ends at the first denied call: a mutant of gate. *)
FirstDenied(provider, a) ==
  [i \in DOMAIN a.blocks |->
     IF /\ Decides(provider, a) /\ DeniedBlock(a.blocks[i])
        /\ \A j \in DOMAIN a.blocks : j < i => ~DeniedBlock(a.blocks[j])
     THEN Refusal ELSE a.blocks[i]]

gate(provider, a) ==
  [i \in DOMAIN a.blocks |->
     IF Decides(provider, a) /\ DeniedBlock(a.blocks[i]) THEN Refusal ELSE a.blocks[i]]

-----------------------------------------------------------------------------
(* The handler *)

Failed(status) == [status |-> status, routed |-> Absent, blocks |-> <<>>]

Set(s, r) == req' = [req EXCEPT ![s] = r]

Done(r, got) == [r EXCEPT !.pc = "done", !.got = got]

Gated(r) ==
  Done(r, [status |-> 200, routed |-> RoutedTo(r.ask),
           blocks |-> gate(r.ask.provider, r.answer)])

(* Reading the body may fail; PreForward routes the request and refuses it  *)
(* when the budget is used up.                                              *)
Receive(s) ==
  /\ req[s].pc \in {"idle", "done", "cut"} /\ served < MaxRequests
  /\ served' = served + 1
  /\ \E ask \in Asks :
       LET r == [pc |-> "sent", ask |-> ask, sent |-> Rewritten(ask),
                 answer |-> Absent, row |-> NoRow, got |-> Absent]
       IN  \/ Set(s, Done([r EXCEPT !.sent = Absent], Failed(400)))
           \/ IF Parsed(ask) /\ OverHard
              THEN Set(s, Done([r EXCEPT !.sent = Absent], Failed(400)))
              ELSE Set(s, r)
  /\ UNCHANGED <<policy, limits, counter, ledger, today, history>>

(* The Content-Type is not looked at: a mutant of Arrived. *)
AllRead(r, a) == [r EXCEPT !.pc = "read", !.answer = a]

(* A stream goes through the stream gate, anything else is read as a whole. *)
Arrived(r, a) ==
  IF a.stream
  THEN Done([r EXCEPT !.answer = a], [Failed(200) EXCEPT !.routed = RoutedTo(r.ask)])
  ELSE [r EXCEPT !.pc = "read", !.answer = a]

(* The API cannot be reached, the client went away, or the body breaks off. *)
Answer(s) ==
  /\ req[s].pc = "sent"
  /\ \/ Set(s, Done(req[s], Failed(502)))
     \/ \E a \in Answers :
          /\ req[s].ask.parses \/ a.usage = Absent
          /\ Set(s, Arrived(req[s], a))
  /\ UNCHANGED <<policy, limits, counter, ledger, today, served, history>>

(* extractUsage finds nothing in a body it cannot read. *)
Used(r) == r.ask.provider # "gemini" /\ r.answer.legible /\ r.answer.usage # Absent

(* postResponse up to the budget: the row, whose failure is ignored. *)
LogUsage(s) ==
  LET r == req[s] IN
  /\ r.pc = "read"
  /\ IF ~Used(r)
     THEN Set(s, Gated(r)) /\ UNCHANGED ledger
     ELSE \/ /\ ledger' = [ledger EXCEPT ![today] = @ + r.answer.usage.cost]
             /\ Set(s, [r EXCEPT !.pc = "logged", !.row = today])
          \/ Set(s, [r EXCEPT !.pc = "logged"]) /\ UNCHANGED ledger
  /\ UNCHANGED <<policy, limits, counter, today, served, history>>

(* Budget.Charge, the gate and the answer to the client. *)
Charge(s) ==
  LET r == req[s] IN
  /\ r.pc = "logged"
  /\ counter' = Charged(r.answer.usage)
  /\ unlogged' = IF r.row = today THEN unlogged ELSE unlogged + r.answer.usage.cost
  /\ Set(s, Gated(r))
  /\ UNCHANGED <<policy, limits, ledger, today, served, forgotten, slate>>

-----------------------------------------------------------------------------
(* The surroundings *)

Midnight ==
  /\ today < MaxDay
  /\ today' = today + 1
  /\ unlogged' = 0 /\ forgotten' = 0 /\ slate' = FALSE
  /\ UNCHANGED <<policy, limits, req, counter, ledger, served>>

(* A crash or a shutdown, whose five seconds may be too short, and a start. *)
Restart ==
  /\ req' = [s \in Slots |->
               IF req[s].pc \in {"idle", "done"} THEN req[s] ELSE [req[s] EXCEPT !.pc = "cut"]]
  /\ unlogged' = 0
  /\ \/ counter' = Hydrated /\ forgotten' = 0 /\ UNCHANGED slate
     \/ counter' = CleanSlate /\ forgotten' = ledger[today] /\ slate' = TRUE
  /\ UNCHANGED <<policy, limits, ledger, today, served>>

Init ==
  /\ policy \in Policies
  /\ limits \in Limits
  /\ req = [s \in Slots |-> [pc |-> "idle", ask |-> Absent, sent |-> Absent,
                             answer |-> Absent, row |-> NoRow, got |-> Absent]]
  /\ counter = [day |-> 0, cost |-> 0, anonymous |-> 0]
  /\ ledger = [d \in 0..MaxDay |-> 0]
  /\ today = 0
  /\ served = 0
  /\ unlogged = 0 /\ forgotten = 0 /\ slate = FALSE

Next ==
  \/ \E s \in Slots : Receive(s) \/ Answer(s) \/ LogUsage(s) \/ Charge(s)
  \/ Midnight
  \/ Restart

Spec == Init /\ [][Next]_vars

-----------------------------------------------------------------------------
(* Properties *)

(* The values each variable takes, and how far a request has come: what is  *)
(* read as a whole was sent, and is no stream.                              *)
TypeOK ==
  /\ policy \in Policies /\ limits \in Limits
  /\ \A s \in Slots :
       /\ req[s].pc \in {"idle", "sent", "read", "logged", "done", "cut"}
       /\ req[s].row \in 0..MaxDay \cup {NoRow}
       /\ req[s].pc \in {"read", "logged"} => req[s].sent # Absent /\ ~req[s].answer.stream
       /\ req[s].pc = "done" => req[s].got.status \in {200, 400, 502}
  /\ counter \in [day : 0..MaxDay \cup {Never}, cost : Nat, anonymous : Nat]
  /\ ledger \in [0..MaxDay -> Nat]
  /\ today \in 0..MaxDay /\ served \in 0..MaxRequests
  /\ unlogged \in Nat /\ forgotten \in Nat /\ slate \in BOOLEAN

CostOf(s) == IF req[s].pc = "logged" /\ req[s].row = today THEN req[s].answer.usage.cost ELSE 0

(* The day's counter is the ledger's sum for the day, at any time and       *)
(* through restarts, midnight and requests in flight: apart from rows that  *)
(* are about to be charged, rows a failed hydration left out, and charges   *)
(* whose row failed or is of the day before.                                *)
CounterFollowsLedger ==
  counter.day = today =>
    counter.cost + SumFunction([s \in Slots |-> CostOf(s)]) + forgotten = ledger[today] + unlogged

(* Requests in flight may exceed the daily limit together, for Inspect and  *)
(* Charge are far apart, but never by more than one answer per client.      *)
OverrunBounded ==
  limits.daily > 0 /\ counter.day = today /\ ~slate =>
    counter.cost <= limits.daily + Cardinality(Slots) * MaxCost

WholeAnswer(r) ==
  r.pc = "done" /\ r.answer # Absent /\ r.got.status = 200 /\ ~r.answer.stream

(* Whichever way a request came, routed or not, no whole answer of          *)
(* Anthropic or OpenAI that the gate can read brings its client a denied    *)
(* call, and it brings all the rest; one it cannot read (compressed, or of  *)
(* /v1/responses), and any of Gemini's, is brought as it came, denied calls *)
(* and all.                                                                 *)
DeniedStaysBehind ==
  \A s \in Slots :
    LET r == req[s] IN
    WholeAnswer(r) =>
      /\ Len(r.got.blocks) = Len(r.answer.blocks)
      /\ \A i \in DOMAIN r.got.blocks :
           IF Decides(r.ask.provider, r.answer) /\ DeniedBlock(r.answer.blocks[i])
           THEN r.got.blocks[i] = Refusal
           ELSE r.got.blocks[i] = r.answer.blocks[i]

(* A client that got an answer can tell from its headers what the API was   *)
(* asked, streamed or not: without X-Arbiter-Routed-To its request with all *)
(* its fields, with it the model that the header names.                     *)
RoutingIsShown ==
  \A s \in Slots :
    LET r == req[s] IN
    r.pc = "done" /\ r.got.status = 200 =>
      IF r.got.routed = Absent THEN r.sent = [model |-> r.ask.model, other |-> r.ask.other]
      ELSE r.sent.model = r.got.routed

(* Disagreements with the documentation *)

(* docs/MULTI_CLI.md:237-247: "The proxy gates tool calls in **both**       *)
(* streaming and non-streaming responses", with a check mark at             *)
(* "Non-streaming" for each provider, Gemini "via `functionCall` parts":    *)
(* no whole answer brings its client a call that the policy denies.         *)
DeniedNeverArrives ==
  \A s \in Slots :
    WholeAnswer(req[s]) /\ policy # Absent =>
      \A i \in DOMAIN req[s].got.blocks :
        req[s].got.blocks[i] # Refusal => ~DeniedBlock(req[s].got.blocks[i])
=============================================================================
