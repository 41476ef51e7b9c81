# TLA+ models of godx-arbiter

`arbiter` stands between an AI coding CLI (Claude Code and others) and the tools
that CLI wants to use.  It decides every proposed tool call by a regex policy,
then by an LLM agent, then by asking a human; it can also sit in front of the
LLM API as a proxy, and it can itself spawn a CLI as a child.  The modules here
are written from the Go source, state what has to hold, and are checked with TLC
on small instances and, where noted, proved with TLAPS for all instances.

`PROJECT.json` maps every definition to the lines it models, and lists the
components, the runs, the hazards and the theorems.

## 1. Inventory

| Component (code) | State it keeps | Operations | Hard behaviour | What makes it correct |
|---|---|---|---|---|
| pretool hook (`cmd/arbiter/main.go`, `hookio`) | one short process per tool call; stdout; one row in `events.jsonl` | read call, load project, decide, write, log | several hooks share files; killed by the CLI's timeout; panics; half-done work after the answer | one answer per call, answered in the end, row says what was answered, no allow without a reason |
| project configuration (`internal/config`, `projectfind`) | rules.md, policy.yaml on disk | `LoadProject`, `LoadRules`, `LoadPolicy` | edited while read; one file bad, the other good | a failure acts as configured |
| fast path (`internal/policy`) | none (pure) | `Eval`, `matches`, `selectField` | order of the lists, absent fields, dropped rules | a deny rule wins |
| slow-path agent (`internal/agent`) | one conversation, iteration count, deadline | `Decide` loop, tool uses, fallbacks | LLM is arbitrary; deadlines race replies | ends; timeouts and errors take their own fallback |
| notify (`internal/notify`, `escalate_to_user`) | per-process dedup map, quiet hours | `Dispatch`, per-channel `Ask` | channels fail, are skipped, time out | the reply, or the fallback for a missing reply, decides |
| Telegram (`notify/telegram.go`) | `lastUpdate` per process; keyboards and update queue at Telegram | send, poll, acknowledge | one queue, many processes; redelivery; loss | a tap answers one question: its own |
| child runner (`internal/runner`, `arbiter run`, `delegate_to`) | child process, pipe, three goroutines, `runs/index.jsonl`, per-run logs | `Run`, `DecodeStream`, `buildEnv`, kill, finish | cancellation races the child's end; panic shield; parent death; nesting | no orphan, bounded nesting, truthful outcome, returns |
| eventlog (`internal/eventlog`, `cmd/arbiter/logs.go`, `explain.go`) | append-only file | `AppendTo`, `Lookup`, `Explain`, `logs`, `logs --tail` | concurrent appenders, writes cut short, lines too long to scan | rows are whole, the readers agree with each other |
| run index (`runner/index.go`, `run.go`) | append-only file | `AppendIndex`, `FindLatest`, `ListRecent`, `VerifyResumeCwd` | the same, and start and end rows of one id | list and resume go by the same row |
| configuration cache (`config/cache.go`) | mtime → parsed file | `CachedLoadRules`, `CachedLoadPolicy` | stat, stat, read and store race with an editor | an answer was true at some moment of the call |
| MCP server (`internal/mcp`, `arbiter mcp`) | a sequential request loop, the cache | initialize, ping, tools/list, tools/call | notifications, parse errors, cancellation, tools that wait | one response per request, in order; it stops when told |
| agent tools (`internal/tools`) | none | check_rule, read_file, history ... | read while others write | read-only |
| proxy server (`internal/proxy/server.go`, `wire.go`) | requests in flight | PreForward, upstream, PostResponse | concurrent requests, streaming | a denied tool call never reaches the client |
| stream gates (`sse.go`, `sse_openai.go`) | buffered tool call(s) | per SSE event | interleaved blocks, EOF in the middle | same, and the rest of the stream is untouched |
| budget (`proxy/budget`) | counters per session and day | Inspect, Charge, Hydrate | check-then-act, day change, restart | spending stays near the limit, resets daily |
| routing, translation | none | pure | conversion | first matching route |
| usage ledger | append-only file | append, report | as the eventlog | totals equal the rows |
| credentials (`internal/auth`) | environment, keychain, file | Get, Set, Delete | keychain comes and goes | a deleted key is gone |
| settings installer (`init.go`, `uninstall.go`) | `settings.json`, its backups, `.arbiter/rules.md`, `policy.yaml` | init, uninstall | files truncated and rewritten in place: death between the steps, several commands, the user's own saves | one hook per event, the user's settings in the file or in a backup |
| doctor, wizard, adapters, skills, global config, npm | - | - | - | interactive, descriptive or packaging |

How they interact: a CLI starts hooks (JSON on stdin, decision on stdout) and
`arbiter mcp` (JSON-RPC on stdio).  Hooks share the project's files, the
eventlog and a Telegram bot, never memory.  The agent inside a hook calls the
agent tools in-process, and escalates through notify, as the hook itself does
for a final "ask".  `arbiter run` and the MCP tool `delegate_to` share
`runner.Run`, whose child may be a CLI with hooks, or again `arbiter run`.

## 2. Modules

| Module | What it is |
|---|---|
| `FastPath` | pure operators: how a policy.yaml is compiled, and `Eval` |
| `DecisionGate` | abstract: what one hook promises its CLI and the log's readers |
| `PreToolHook` | EXTENDS FastPath; the whole of `arbiter hook pretool`, several at once; implements DecisionGate |
| `PreToolHookProofs` | its proofs: types, invariants, refinement |
| `Telegram` | the Telegram channel's Ask by several processes, the chat and the Bot API |
| `Runner` | `runner.Run`, with the child, the goroutines and both logs |
| `RunnerProofs` | its proofs: all six invariants |
| `TelegramProofs`, `StreamGateProofs`, `ProxyProofs`, `InstallerProofs`, `JournalProofs`, `McpServerProofs` | the proofs about these components, see Proofs |
| `StreamGate` | EXTENDS FastPath; the proxy's gate on Anthropic and OpenAI event streams |
| `Proxy` | EXTENDS FastPath; one request's way through the proxy, with routing, the gate on whole answers, budget and ledger, several at once |
| `Installer` | `arbiter init` and `arbiter uninstall` on the user's settings, step by step |
| `Journal` | the eventlog and the run index: their appenders and all their readers |
| `McpServer` | the JSON-RPC loop of `arbiter mcp`, with the tool that caches rules.md and the tools that wait; implements AtomicServer |
| `AtomicServer` | abstract: what a client of `arbiter mcp` can rely on |
| `MCPreToolHook`, `MCTelegram`, `MCRunner`, `MCStreamGate`, `MCProxy`, `MCInstaller`, `MCJournal`, `MCMcpServer` | the instances TLC checks |

### PreToolHook

One hook is a program counter and the locals of its handler; the shared state
is `disk` (the content of `.arbiter/`) and `eventlog`.

| `pc` | Code |
|---|---|
| read, rules, policy | stdin, `ARBITER_DISABLED`, `LoadProject`: two file reads with the user's edits (`EditProject`) between them |
| eval | kill switch of rules.md, `policy.Eval`, the missing API key |
| agent, tools | `agent.Decide`: LLM reply, then the tool uses of that reply one by one |
| dispatch, asking | `notify.Registry.Dispatch`, from `escalate_to_user` (back to tools) or for the final question (the reply decides) |
| log | `logEvent`, a step after the decision is on stdout |
| exit, killed, recovered | the end: by itself, by a signal, or through `failOpen` |

`Kill` (the CLI's hook timeout, a signal) and `Panic` (caught by `failOpen`) are
possible wherever the hook is working, also between the answer and its row; after
a panic `failOpen` writes an allow of its own (`recovered`), whatever was written
before it and whatever on_error says.  What the handler itself writes is
`OwnAnswers`, and DenyRuleHolds and AllowIsJustified are about those.
Which text a rule is matched against is exact, `regexp` is a constant relation.
The LLM, the human and the channels return any result the code tells apart.
`cause` is a history variable: what the outside world last told the hook.

### Telegram

A process sends a question with a keyboard, polls `getUpdates` from its own
`lastUpdate + 1`, and acknowledges by editing the message.  The Bot API's queue
belongs to the bot, hence to all processes; an update is dropped when some
`getUpdates` names a higher offset.  `Poll` is one call of `poll`, from the
request to the loop over its results.  `updates`, `tapped` and `replies` are
history: the code cannot see which keyboard a tap came from, which is the point.

### Runner

`pc` is Run's goroutine (check, start row, start event, spawn, then the stream
loop or a plain wait, end row, end event).  `reaped` is the goroutine that waits
for the child, stores ProcessState and closes the pipe; `decoder` is
`DecodeStream`.  `KillGroup` is what `exec` does when the context is done.  The
child, signals, panics, SIGKILL of arbiter and oversized lines are free.  A run
that is not a root is called by the child of another run and inherits its
`ARBITER_RUN_DEPTH`; `hops` counts the true nesting.

That `ChildIsTold` holds when arbiter itself is killed rests on PR_SET_PDEATHSIG
(sysproc_pdeath_linux.go), so it is a statement about Linux; elsewhere the child of a
killed arbiter goes on.  Calls that `resolveSpec` refuses (runner.go:52-55: no directory for the
log, a negative timeout) return an error before any row or child, and are left out.

### StreamGate

An event has the number of its place in the upstream's stream (`sent`); `held`
(the code's pendingEvents) and `out` hold numbers, a refusal the set of numbers
it replaces.  One action reads one event and does what the loop does with it.
`calls` is the code's toolBlock (at most one call) respectively `p.calls`.
`Json` and `Text` say what a sequence of argument pieces parses to.

The upstream is as the APIs have it: Anthropic's blocks follow one
another, an OpenAI answer has one choice and at most one finish_reason, and the
events of a call have no comment lines in their blocks.  OpenAI's calls may start
together, be continued after text, and be interrupted.  What the gate does and a reader may
not expect, all in the model:

* a chunk without tool calls makes the OpenAI gate decide on the arguments it has
  so far (sse_openai.go:137); a call cut like this is decided in two halves, so
  `DenyHolds` is stated for calls that are not interrupted;
* EOF and [DONE] write undecided calls as they came; the client gets an
  incomplete call;
* a comment overtakes held events, and a ping held within a denied Anthropic
  block goes with it, although sse.go:17-24 says that pings pass unchanged;
* one denied OpenAI call refuses every call that was held with it, where the
  gate on whole answers (wire.go) refuses just the denied one;
* an event without data (id, event or retry alone) is dropped by both loops
  (sse.go:170, sse_openai.go:128), although sse.go:21-23 has everything but denied
  calls "passed through unchanged"; and so is the data of an event with a comment line
  in its block, of which only the comment is written (sse.go:311-313, 166-168).  Both
  are the event `Bare`, and `NothingLostOrReordered` excepts it (`Dropped`).

Not in the model: the OpenAI loop writes an event again without its `retry`
(`serializeSSE`); calls are told apart by `index` alone, against the comment at
sse_openai.go:22, which is the same with one choice; a compressed event stream is no
lines of events to the gate; and after a refusal `pendingEvents` keeps what was
refused (sse.go:222-236), which nobody looks at, for `bufferingToolUse` is off.

### Proxy

A slot is a client that sends one request after the other; its `pc` is how far
the handler goroutine is.

| `pc` | Code |
|---|---|
| sent | PreForward is done: classified, routed, checked by `Inspect("")`, or refused (`Receive`) |
| read | the whole answer is there (`Answer`); a stream goes to StreamGate instead |
| logged | `usage.Append` was called (`LogUsage`), with or without a row |
| done | `Budget.Charge` and the gate, and the client has its answer (`Charge`) |
| cut | the proxy stopped in between (`Restart`) |

`Inspect`, `Append` and `Charge` each hold a lock, so each is one step, and
everything else in the handler is private to the request.  `Restart` is a crash or a
shutdown, followed by NewWiring with a hydration that may fail ("a clean
slate").  A UTC day ends with `Midnight`.  Costs are whole numbers; that
dailyCostUSD reads a total rounded to four decimals is left out.

What the code does and a reader may not expect, all in the model:

* the gate returns what it cannot read (`Decides`): a body that does not parse
  (wire.go:177-179, 213-215), and one of /v1/responses, whose calls are in `output`.  A
  body does not parse when it is compressed: server.go:225-241 forwards the client's
  Accept-Encoding, and Go's transport decompresses only what it asked for itself.
  An answer is `legible` when it is neither;
* Gemini's whole answers are not gated at all, see finding 4;
* streamed answers, Gemini's, and those that are not legible never reach the ledger or the
  counter, although docs/CLI.md:304-305 says that every response is logged;
* a routed request is marshalled again from a struct with a subset of the API's fields
  (wire.go:104): temperature, tool_choice, metadata, and the whole input of a
  `/v1/responses` request are lost, where docs/CLI.md:298-299 has PreForward "rewrite
  `model`".  `RoutingIsShown` says of an unrouted request that it kept all its fields, and
  of a routed one only its model;
* the session counters are keyed by the id of the answer and inspected
  for "": only answers without an id count towards a session limit;
* Inspect looks at the counter of whatever day it was charged last, so that
  a daily limit that was passed holds until a restart, or until a request that was in
  flight at midnight is charged;
* a request that does not parse is forwarded unrouted and unchecked.

A row of the ledger is appended whole or not at all.  A row cut short would be glued to
the next one, and both would be missing from the total a hydration reads.

### Installer

One command is a program counter and what it has read.  os.WriteFile is two steps
(it truncates, then writes), because a command may die between them, and
because two commands may write the same file.

| `pc` | Code |
|---|---|
| look, openDoc, fillDoc | init's `writeIfMissing`, for rules.md, then for policy.yaml |
| read | `writeClaudeSettings` respectively `runUninstall` reads settings.json, and decides whether there is anything to do |
| backup, fillBackup | the copy of what was read, named after the second |
| open, fill | settings.json is truncated, and written with the merged or stripped settings |
| done, failed | the end |

Settings are the hook entries per event, in order, the MCP servers and
a number for everything else.  The user saves the settings and writes the
documents at any moment (`UserSaves`, `UserWritesDoc`); a command dies at any
moment, and leaves a document it was writing empty or torn (`Die`).  What a write leaves of longer content, once two writers
are in one file, is whole or torn (`WrittenOver`).  `saved`, `overtaken`,
`collided` and `alone` are history.

What the code does and a reader may not expect, all in the model:

* a backup's name has the second and no more, so a second backup within it takes the
  place of the first, and with it of the only copy when the first
  command died in its write;
* uninstall drops a whole entry when one of its commands is arbiter's, also the
  user's commands in it (uninstall.go:91; docs/CONFIG.md:131 says only
  arbiter's go);
* uninstall makes no backup when there is nothing to remove;
* init takes an empty file for no settings at all, uninstall takes it for an error.

Not in the model: settings of another shape than Claude Code's.  A `hooks` value that is
no object, and an event that is no list, are overwritten by init (init.go:189-193, 208),
and the event is deleted by uninstall (uninstall.go:78-98); and every number in the file
passes through a float64.

### Journal

The eventlog and the run index are two append-only files with no shared state,
so the model follows one of them (`file`, chosen at the start).  A
file is the sequence of pieces that writes left: a `line`, a `body` (a
row without its newline), `most` of a row or a smaller `part`.  A piece that does not end its
line is glued to the next one, and neither is readable (`Glued`, `Parses`).  A
writer appends what its program has (`Program`: a hook its decision, a run its
start and end), in two steps, so that a reader may come in between; a write may
stop short (`Cut`) or not happen (`Skip`), after which the process goes on, as the
code does, or is dead.

The scans (`Lookup`, `Explain`, `ScanLogs`, `FindLatest`, `ListRecent`) read a
whole file at one moment, and are operators on `log`.  The tail is a process with
a position and what it has eaten of an unfinished line (`ate`).  That is the hard
part: `ReadBytes` at the end of the file returns what there is, the tail drops
it, and the rest of the line is read as a line of its own.

bufio.Scanner has room for 1 MiB between two newlines and gives up at more, whether the
bytes are one row's or glued from several, and whether their newline is there
(`Fails`).  `TooLong` says of a run of pieces that it is too long, and is any relation;
`Long` are the writers of whose row `most` is told apart.  A scan that fails hides all
rows from `logs`, `explain`, the tools, `--list` and `--resume` (which is then refused,
forced or not), and RowsAreFound says what it takes: a row that is too long by itself, or
a write that failed.  The rest of it, no more lost than cut, is about scans that get
through.  The clock that stamps the ends of runs is taken not to step back.

### McpServer

| `pc` | Code |
|---|---|
| loop | the look at the context between two requests |
| read | blocked in ReadBytes, which no signal interrupts |
| handle | dispatch by method and tool |
| wait | `escalate_to_user` or `delegate_to` is at work |
| load, content | `CachedLoadRules` missed: `LoadRules`' own stat, then its read, and the store under the time of that stat |
| reply | the write to stdout, unless it was a notification |
| ended | EOF, a signal seen, or stdout gone |

The client writes ahead, closes either pipe or sends a signal; the user
edits rules.md at any moment, and may give it a time it had before.

`AtomicServer` has neither a cache nor a program counter: the next line is carried
out in one instant (`CarryOut`), at which `check_rule` sees rules.md as it is, and is
over at another (`Finish`).  The mapping: `done` is the lines that are over (the one at
work is not, nor one whose response was never written), `settled` is the answer once
it is determined (`pc` = reply), and `quota` is how many more lines may be finished:
any, one after a signal, none at the end or when the loop is about to see the signal.

What the code does and a reader may not expect: a notification is carried out, side
effects and all, and only its answer is dropped; a signal that arrives while the
server waits for input does nothing until one more line has come and has been
carried out; delegate_to's `timeout_seconds` is read by nobody (runner.Run leaves it to
its caller's context), so that one child that does not end holds the server for
ever.  A tool that returns an error, and a tool nobody knows, are calls of kind
`failing`: they are answered, with a result that is marked an error.

## 3. Runs

| Run | Result | Shows |
|---|---|---|
| `pretool` | pass, 39,708 states | one hook over the product of calls, environments and project contents, the project edited at any moment: types, OneAnswer, LogTellsTheAnswer, DenyRuleHolds, AllowIsJustified, EveryCallAnswered, and the refinement of DecisionGate with its fairness |
| `broken_policy` | violation | see finding 1 |
| `telegram` | pass, 3.2 M states (up to symmetry) | two processes, two questions each, two updates: a reply was offered and comes from the right chat, a tap answers one question of a process, no tap of its own is passed over |
| `telegram_stale` | violation | see finding 2 |
| `runner` | pass, 345,880 states | a run and one nested in it: the fuse, truthful outcome, exit code, index and eventlog agree, the child is told to stop, Run returns |
| `runner_orphan` | violation | see finding 3 |
| `stream_gate` | pass, 2.7 M states | nothing that has data lost, doubled or reordered; a denied call does not pass however it was cut; a refusal takes calls and pings only, and a call is passed or refused once it is complete |
| `proxy` | pass, 2.6 M states (up to symmetry) | the day's counter follows the ledger through restarts, midnight and failing appends; the limit is overrun by one answer per client at most; in an answer the gate can read denied calls are replaced, all else is kept; headers name the model that was asked |
| `proxy_ungated` | violation | see finding 4 |
| `settings` | pass, 4.4 M states (up to symmetry) | three commands, killed anywhere and overlapping, and a saving user: her last save is in settings.json or in a backup but for two named exceptions; no event is hooked twice; a command that met nobody has done what it says |
| `journal` | pass, 353,424 states | two hooks and two runs that write at once, two writes that fail, rows too long for the scanner alone or glued: what the readers lose is bounded by the failed writes as long as they get through, the readers agree with each other, list and resume go by the same row, the tail shows each row in the end |
| `mcp` | pass, 1.35 M states | every order of two lines of any kind, a signal, closed pipes and two edits of rules.md: answers in order and one each, at most one line is carried out after a signal, check_rule's answer was true during the call, and the refinement of AtomicServer with its fairness: every request is answered in the end, but for a delegate's |

CHECK_DEADLOCK is FALSE everywhere because every one of these programs ends.

### Bounds, and why they are enough

* Hooks: one.  Hooks share only the project's files and the eventlog.  What
  another process does to the files is `EditProject`, so one hook sees every
  interleaving with editors, and a row in the eventlog carries its writer's name.
  The theorems of section 4 are for any set of hooks.
* `MaxUses = 1` tool use per reply and `DefaultIterations = 2` (the code: 10), so
  both ends of the loop, the explicit `max_agent_iterations: 1` and the default,
  are reached; two tool uses come one in each of two iterations.
* `MCDisks` holds six contents: strict, lax, switched off, policy.yaml
  broken, no rules.md with `default: approve`, and no `.arbiter/` at all.
* Telegram: `MaxAsks = 2` (an `escalate_to_user` question, then the final
  one), two processes, `MaxUpdates = 2`, two option sets of which one is not the
  default.  The stale answer needs two questions and one update.
  The processes are interchangeable and no liveness is checked, so SYMMETRY is
  sound.
* Runner: two runs with `RootDepths = {2, 3}`.  A root at depth 2 is
  the deepest that may spawn, its nested run the first that may not; 3 is refused
  at once.  Nothing else in Run depends on how deep it is, and the theorem
  `FuseHolds` is for any set of runs and any depth.
* Streams: six events and two blocks or calls.  A call needs two pieces of
  arguments to be cut, a start and a stop, which leaves room for a second call or for two
  others in the middle (`MaxOthers`): pings, comments, events without data.  The gate forgets everything after each decision (`Clear`),
  so a longer stream is a sequence of such ones.
* MCStreamGate's policies: none, one with a deny rule, one with `default: deny`
  and an allow rule; `p q` is the denied command, `q` the allowed one, the rest is no JSON.
* Proxy: two clients, five requests, two days, cost 1 and a limit of 1.  The limit
  is passed by the second charge, two requests are in flight at that time, and
  there are requests left to be refused.  The clients are interchangeable and only
  safety is checked, so SYMMETRY is sound.
* Settings: three commands, for a command that died needs one that overlaps with
  another to be repaired or made worse.  Two seconds and one save: a backup name
  is taken twice or is new, the save falls before, between or after.  One event: the
  code treats each by the same loop.
  Commands are interchangeable and no liveness is checked, so SYMMETRY is sound.
* Journal: two appenders in each file at least, one of them twice; two cuts, so that
  a glued row may be glued again.  A row that is too long by itself, one that is so
  only with two others glued to it, and rows that never are (`MCTooLong`).  Both runs may have one id, the rows of a quiet run
  stay in the index only, and the eventlog has five rows at most.
* MCP: two lines, for a request is only ever affected by the one before, through
  the cache and the loop; two edits and two times, which is what a stale entry needs:
  the entry's content, another one under a new time, and a return to the old time.

### Fairness

`PreToolHook`: weak fairness of every hook's own steps.  They are straight-line
code, reads of local files, and calls under a context with a deadline, so they
end.  None is assumed of the LLM's choices, the editor, Kill or Panic.
`Runner`: weak fairness of Run's goroutine, of the waiting goroutine and of
`exec`'s watcher, which the Go runtime schedules, and of the end of a child
that was signalled (`exec` sends SIGKILL after WaitDelay).  Nothing makes a child
end that nobody signalled.  `Journal`: weak fairness of the tail's poll, which the code repeats every 250 ms; none
of the writers.  `McpServer`: weak fairness of the loop's own steps, local reads and
a write, and of the end of a waiting tool where the code gives it a deadline
(`escalate_to_user`) or where the context is done; none of a delegate's child, of
the client, or of the user.  That the loop's write ends assumes a client that drains
stdout; one that does not stops its own server, and no response is owed to it.  `Telegram`, `StreamGate`, `Proxy` and `Installer` are
checked for safety only.  Whether a human answers is nobody's promise, and Ask's
deadline is `PollFails`; a client that does not read may hold a handler of the proxy
for ever, the server having no write timeout; and a command of the installer may
die anywhere, which leaves nothing to promise but what SuccessIsReal says.

## 4. Proofs

Constants are only assumed to satisfy the named assumption of their module
(`HookAssumption`, `RunnerAssumption`, `TelegramAssumption`, `StreamAssumption`,
`ProxyAssumption`, `InstallerAssumption`, `JournalAssumption`, `McpAssumption`): their
types, that the known channel names are channel names, that the processes which
are counted (the proxy's clients, the journal's writers) are finitely many, and
that values which stand for different things differ (`AbsentAssumption` of Proxy
says so of a missing value).

Every invariant of every passing run is a theorem, in all eight components, and so
are the settings' action property and the safety part of both refinements.

Counts, sums, concatenations and selections over a whole sequence would call for
an induction over data, which the prover cannot do.  Where an invariant needs
one, the proofs argue by a least counterexample: the well-foundedness of the
natural numbers, or of the finite sets, gives the smallest case in which a claim
fails, and the claim is then shown for it from the next smaller one.  A
recursive function is unfolded only after its equation is shown, by the same
argument, to have a solution.

**PreToolHook.** `TypeCorrect` is inductive by itself (one step per action).  The
four invariants are not: the proof strengthens them to `IInv`, that is TypeOK, for every hook `HookInv`, and
`LogInv`.  `HookInv` says how far a hook has come determines what it has written:
nothing while it works, exactly its pending row's decision at `log`, something at
`exit`, failOpen's allow after at most one decision at `recovered`; its policy is
Absent before it is loaded; past `eval` the
policy's verdict was "agent" and no kill switch was on.  The last part carries
DenyRuleHolds: the slow path is only entered when no deny rule matched, and rules
and policy do not change after that.  `LogInv` adds that a row's hook has exited.

The induction is kept short by classifying steps first: every action of a hook is
a `Think`, an `Answer`, an `AnswerOnly`, `LogEvent`, `Kill` or `Panic`
(`StepActs`), and each kind is shown to preserve the invariant once; a step leaves
other hooks untouched (`OthersUntouched`).  From IInv follow
`AnswersOnce`, `LogIsTruthful`, `DenyIsFinal` and `AllowsAreJustified`.

**Refinement.** `HookImplementsGate`: SafeSpec implies the gate's SafeSpec under
the mapping answer = first decision on stdout, recorded = the decision of the
hook's row, cut = killed.  A killed hook can no longer write, which needs pc in
IInv.

**Runner.** `RunnerProofs` proves all six of its invariants for any number of
runs nested in any way and any starting depth: `TypeCorrect`, `FuseHolds`,
`CompletedIsDone`, `FailureHasCode`, `ChildrenAreTold`, `RowsAreTruthful`.  The
strengthening `IInv` is TypeOK and, per run, four parts: `DepthInv` (the counter
read from the environment is the true nesting, and whatever is past the check
has a counter of at most 2: the step that needs it is a nested call, whose
parent's own counter has to be the true one), `ProcessInv` (no child before the
spawn, a reaped child has ended, the loop is only left when the child is reaped
or its output failed), `ResultInv` (a settled result fits what is known of the
child) and `RowInv` (which rows exist at each point of Run).  One lemma per
part, with one step per action.

**Telegram.** `TelegramProofs` proves `TypeOK`, `OneQuestionPerTap` and
`NoTapPassedOver` for any number of processes, questions and updates.  `IInv` adds
to them `IdInv` (ids are given out in order, none is handled before it exists),
`ChatInv` (a tap belongs to a question that was asked), `AskInv` (what a process
acknowledges is handled and matches its question) and `ReplyInv` (a reply's update
is handled, and older than the one being acknowledged: why no tap can be taken
twice).  That a batch has a lowest and a highest id is shown from the
well-foundedness of finite sets (`SmallestInitial`), where an induction would
have been used.

**StreamGate.** `StreamGateProofs` proves all four invariants for streams of any
length, any providers, policies and cuts of the arguments.  The order
is a statement about two sequences (`InOrder`), which writing, holding and emitting
each keep (three lemmas without state); what makes the gate use them rightly is
`HeldInv`: something is held only while a call is open, Anthropic's open call is
the upstream's open block, and without a policy no call is kept.  An event the gate drops
is in neither sequence, and the events that have data are in one of them.  The second part is
where the upstream's protocol enters: if blocks could overlap, the start of one
would overwrite what is held for another.

`DenyHolds` and `NothingElseIsRefused` rest on `CallInv` on top of that.  A call is
in the making (`InTheMaking`: its events are held, none is refused, and the gate's
copy has its name and exactly its argument pieces) or ruled (`Ruled`: nothing of it
is held, and it is refused if it is denied and only if it, or with OpenAI a call
beside it, is).  `AnthropicInv` says that every block but the open
one is ruled.  `OpenAIInv` says that while the calls' chunks follow each other all
calls are undecided or all ruled: the gate decides them together.  `TakenInv` says
that held events and refusals consist of calls and pings.  That the gate's
pieces, appended one by one, are what the upstream's events join to (`ArgsOf`) is
an argument by a least number of events.

**Proxy.** `ProxyProofs` proves all five invariants for any finite number of
clients and any costs, limits, days and number of requests.  `IInv` has four parts.
`Counts` are the types of the books.  `Requests` says how far each request has come:
what it has read, and how it was settled; DeniedStaysBehind and RoutingIsShown
follow from it.  `Books` is the balance behind CounterFollowsLedger: what is
charged today, what is in today's ledger and not charged yet, and what a failed
hydration left out, are together the day's ledger and the costs whose append failed.
`Headroom` is why the overrun is bounded: a request is let in only while the
counter is within the limit, so the counter and the risk of the requests on their way
are never more than the limit and one answer per client.  Both have sums over the
clients; that changing one request changes the sum by its own part is an argument by
a smallest set of clients.

**Installer.** `InstallerProofs` proves `UserWorkIsRecoverable` for any number of
commands, killed anywhere.  `IInv` holds as long as neither exception has
happened: whoever has read something other than the user's save came after a
backup of it (`ReadersInv`), whoever is about to rewrite settings.json too
(`WritersInv`), and a backup in the making is empty and one command's
(`SlotsInv`), so that writing it destroys none.

`TypeOK`, `HookedOnce` and the action property `SuccessIsReal` come from `CourseInv`.
`OnceInv`: neither the file nor anything a command has read has arbiter twice.
`CommandInv`: how far each command has come; init is at settings.json only when both
documents exist, and a dry run never writes.  `EmptyDocInv`: an empty document is
being written or its writer died.  `AloneInv`: a command that met nobody is the only one
running, and what it truncated is still empty, so what it writes is what is
there.  That merging keeps the user's entries and their order, and stripping
removes just arbiter's, are lemmas about selections from sequences (`Others`).

Two theorems relate the commands to each other, for any settings, also such as no run
reaches.  `InitAgainChangesNothing`: what init writes is left as it is by another init
with the same choice about hooks and server, whatever the user had in any event.
`UninstallUndoesInit`: uninstall after init leaves what uninstall alone would have left,
and that is the user's settings, unchanged, when arbiter had nothing in them.

**Journal.** `JournalProofs` proves `TypeOK`, `RowsAreFound`, `ReadersAgree` and
`ListAgreesWithResume` for any finite number of writers and any cuts, skips and
interleavings.  `JournalInv` says who is in the
middle of a write and what it left (`BusyInv`); that each piece is of a row its
writer is through with, has died over, or is at (`WrittenInv`); that the
whole lines are the acknowledged rows (`AckedInv`); that lines which stay unfinished
are at most as many as cuts (`CutInv`); that the end rows of an id no two
overlapping runs share stand in the order of their times (`OrderInv`); and that the tail's
rows come from the log, in its order (`ShownInv`).

RowsAreFound then maps each unfinished piece to the row it spoils, its successor's,
and counts: what is lost is within the image of a set of at most `cuts` elements.
ListAgreesWithResume compares the greatest end time with the last place, which
OrderInv makes one.  ReadersAgree does not depend on the invariant but for the tail:
the scans are selections from the same rows (`RowsIn`), and the lemmas say how
reversing, keeping the last n and taking the newest commute with selecting.

**McpServer.** `McpServerProofs` proves all four invariants, for any lines, edits
and times.  `LateInv` counts what was read after the signal;
`SeenInv` says that every modification time in use has been seen, so that one
that was not used twice identifies a file; then the entry agrees with the file
that has its time (`CacheInv`), and the call at hand has seen that file.  For
`AnsweredInOrder`, `OrderInv` adds that the line at work is newer than every answered
one, and that what is about to be written answers it.

`ServerImplementsAtomic` is the refinement.  Most steps stutter; the work is to show at
which one a line is carried out.  A hit is carried out when the entry is found current:
`CacheInv` makes the entry's content the file's at that moment.  A miss is carried out at
the look that finds no file (`GetCached`, `StatAgain`), or at the read (`ReadAndStore`),
not at the store under an older time.  A notification is carried out like a request and finished
without a response.  After a signal `LateInv` lets one more line be finished, and the
step in which the loop sees the signal spends the quota.  Where a modification
time was used twice the abstract server may answer anything, so the theorem says of
check_rule what `CacheIsFresh` says, and more: that all its answers can be had from one
instant each, in order.

Only model-checked: the liveness properties `EveryCallAnswered`, `RunReturns` and
`TailKeepsUp`, and that PreToolHook keeps the fairness of
`DecisionGate` and McpServer that of `AtomicServer` (the theorems are about SafeSpec).  Fairness and ENABLED are outside the
prover.  The four properties whose runs find a violation are no theorems, of course.

## 5. Findings

1. `broken_policy` - docs/CLI.md says that rules.md's `on_error` drives the
   response to an internal failure.  `LoadProject` (project.go:59) returns nil
   when policy.yaml is refused, and with it drops the rules.md it has read: with
   `on_error: deny` in it, a missing API key still answers allow.
2. `telegram_stale` - docs say that the user's choice is returned.  An
   update is matched by chat and option text alone (telegram.go:153), every
   process starts from the oldest kept update, and the matched one is not
   confirmed: a tap on an earlier question answers the next one.
3. `runner_orphan` - runner.go's comment says no child is orphaned under any
   failure mode.  When a stream line is larger than 1 MiB the decoder closes
   the events, Run leaves its loop and returns without a signal to the child.
4. `proxy_ungated` - docs/MULTI_CLI.md:237-247: the proxy gates tool calls in non-streaming
   responses of Anthropic, OpenAI and Gemini.  `postResponse` (wire.go:163-170) has no
   case for Gemini, and the gates of the other two return a body that does not parse,
   as a compressed one does not (wire.go:177-179, 213-215): a denied call arrives.

Met on the way, and not stated as a run:

* eval.go goes deny, allow, to_agent, and `DenyRuleHolds` checks that deny wins.
  docs/POLICY_SPEC.md:61-62 says so too, but goes on (63-64) that "a `to_agent` overrides
  both", which it never does: a call that a deny or an allow rule matches does not get to
  the agent.  docs/DECISION_FLOW.md:135-136 has "in declaration order", where
  "`deny` and `allow` share the same list ordering": in the code an allow rule declared
  before a deny rule loses to it;
* docs/POLICY_SPEC.md:88 matches a Grep call by `pattern` + `path` combined; match.go:81-82
  takes `pattern` alone (`defaultFieldFor`), so that no default rule sees the path;
* main.go:180-182, docs/CLI.md:48-51 and docs/DECISION_FLOW.md:283-288 have internal errors
  decided by on_error.  A call that cannot be read (main.go:222-227) and a panic
  (main.go:543-548) are answered with an allow under `on_error: deny` as well;
  `AllowIsJustified` names both exceptions;
* docs/DECISION_FLOW.md:275 has a policy.yaml that does not parse skip to the slow path,
  and line 276 has an API error retried once; LoadProject's error leaves neither policy
  nor rules (finding 1), and no call is sent twice (agent.go:124-136);
* docs/TROUBLESHOOTING.md:157 has 502 for a budget refusal; server.go:230 gives 400.  Its
  last advice (line 169), GODX_ARBITER_DISABLED=1, is read by the hook and doctor alone;
* a child ended by a signal has ExitCode() -1, and Run leaves the code at 0 with
  outcome "failed" (runner.go:216), where docs/RUN.md:142 has 0 mean success;
  `FailureIsNotZero` carries the exception;
* sse_openai.go:25-28 says that on deny finish_reason becomes "tool_calls"; the
  refusal carries none (:96), and the held chunks, with the upstream's, are dropped;
* NewWiring (wire.go:37) gives the budget no limits, so that none of the limits of
  docs/MODEL_ROUTING.md is ever enforced (the `proxy` run checks it both with limits
  and without);
* docs/TROUBLESHOOTING.md:164 has a refusal by the daily limit end at midnight; it ends
  as told at Proxy, for only Charge starts a new day (budget.go:90) and a refused
  request is never charged (latent, by the point before);
* no code sets the header `X-Arbiter-Refused` of docs/MULTI_CLI.md:249;
* `arbiter explain <session> <event>` shows the last event of the session, whatever
  event was named (eventlog.go:237, docs/CLI.md:363);
* uninstall.go:91 against docs/CONFIG.md:131-135, see Installer;
* the hint of a finished run says `claude --resume <id>` with arbiter's own id, which
  no `--session-id` ever gave to the child (run.go:165, cliflags.go:51);
* read_file cuts at a byte, and calls text that was cut within a character binary
  (read_file.go:92-97);
* ListRecent keeps the first start row of an id and FindLatest the last;
  `ListAgreesWithResume` carries the exception;
* delegate_to's timeout and the signal during a read, see McpServer.

## 6. Not modelled, and the plan

Not modelled on purpose: prompt texts, wire formats and translation, rendering,
log formatting, the wizard, doctor, npm packaging (no state, or pure I/O).
Token counts and costs are left out of Runner.  Quiet hours and the dedup window
are a free choice of the clock.

Order of the work:

1. (done) FastPath, DecisionGate, PreToolHook and its proofs: the decision itself.
2. (done) Telegram: the shared external queue.  Runner: the concurrent part.
3. (done) `StreamGate`: tool calls in event streams, Anthropic and OpenAI.
4. (done) `Proxy`: the request handler with routing, budget and ledger.
5. (done) `Journal`: eventlog and run index with unreadable and oversized lines.
   `Installer`: the settings with crashes.
6. (done) `McpServer`: the request loop, and the cache against an editor.
7. (done) Proofs: every invariant of every component.
8. (done) Proofs beyond the invariants: the refinement of `AtomicServer`, and what init and
   uninstall do to each other's work.
9. Credentials over environment, keychain and file; the order of lookup and deletion.
10. Translation between the providers' requests, as pure operators.

## 7. Running it

    tlasany PreToolHook.tla
    tlc -workers 2 -config MCPreToolHook.cfg MCPreToolHook.tla
    tlc -workers 2 -config MCTelegram.cfg MCTelegram.tla
    tlc -workers 2 -config MCRunner.cfg MCRunner.tla
    tlc -workers 2 -config MCStreamGate.cfg MCStreamGate.tla
    tlc -workers 2 -config MCProxy.cfg MCProxy.tla
    tlc -workers 2 -config MCInstaller.cfg MCInstaller.tla
    tlc -workers 2 -config MCJournal.cfg MCJournal.tla
    tlc -workers 2 -config MCMcpServer.cfg MCMcpServer.tla
    tlapm PreToolHookProofs.tla
    tlapm RunnerProofs.tla
    tlapm TelegramProofs.tla
    tlapm StreamGateProofs.tla
    tlapm ProxyProofs.tla
    tlapm InstallerProofs.tla
    tlapm JournalProofs.tla
    tlapm McpServerProofs.tla
