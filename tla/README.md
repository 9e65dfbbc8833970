# A verification of agentic-press in TLA+

agentic-press runs coding agents in sandboxes and puts a proxy between them and
their MCP servers. This directory holds TLA+ models of the parts of it where order,
failure and time matter, the TLC configurations that check them, and theorems
proved with TLAPS. Paths are relative to the repository; every definition is
translated from the source (`PROJECT.json` maps it to its lines).

To check a run: `tlc -workers 2 -config StdioBridge_lifecycle.cfg MCStdioBridge`.
To check the proofs: `tlapm` on `StdioBridgeProofs.tla`, `StdioCapProofs.tla`, `BackendsProofs.tla`, `SkillUsageProofs.tla`,
`ProxyProcessProofs.tla`, `DispatchProofs.tla`, `ImprovementsProofs.tla` and `ObserversProofs.tla`.

## 1. The system: an inventory

    apd (dispatch CLI) --POST/DELETE /sessions--> control plane --writes--> session registry
       |  sbx create/policy/exec/stop/rm                                        | read
       v                                                                        v
    sandbox: agent ------------- POST /mcp ------------> proxy pipeline (server.ts)
                                                          |  bridge.call   | audit, trace, push
                                                          v                v
                                     composite transport -> stdio bridge   audit log, Langfuse,
                                                         -> HTTP bridge    dashboard, metrics
                                                              |                |
                                                              v                v
                                                         MCP servers    sweep -> .improvements/

| Component | State | Operations | What is hard | What makes it correct |
|---|---|---|---|---|
| Stdio bridge (`mcp-proxy/stdio-bridge.ts`) | `processes` by name; per process: ids, pending calls with timers, line buffer, fail-fast counters, broken and discarding flags | `call`, `shutdown`, data/exit/error listeners, timers | all of these in any order; chunks cut anywhere; late output of dead children | a call settles once, with its own response; one live child per name; a shutdown that ends and leaves nothing |
| HTTP bridge (`mcp-proxy/http-bridge.ts`) | one timer and one body per call | `call` | an upstream that stalls at any byte, against timer and cap | a call settles, once, and only with its own result within the cap |
| Composite transport, routes, allowlist (`transport.ts`, `server.ts`, `allowlist.ts`, `server-config.ts`) | constant tables | check at the start, `checkAllowlist`, `resolveRoute`, composite `call` and `shutdown` | overlapping patterns; half-made configurations | a tool reaches the server of its most specific route, which exists; two bridges are again a transport |
| Request pipeline (`mcp-proxy/server.ts`) | per request: trace, identity, whether it was answered | `POST /mcp` and two promise callbacks | errors between two steps of a callback; clients that leave | audit entry, trace and answer agree |
| Proxy process (`src/index.ts`) | signal timers, server, tasks | start, `shutdown` | what is in flight when a signal comes, a second signal | a clean exit loses no entry or event and leaves no child |
| Audit log (`mcp-proxy/logger.ts`) | fd, warned flag | open, `logAuditEntry`, close | a write that fails or is short, an exit before stdout is drained | every entry is written to one place, once, and a file loses none |
| Tracing (`observability/langfuse.ts`) | per trace: ended, tags | `startTrace`, `span`, `end`, phases of `shutdown` | SDK calls that throw half-way, uploads that hang | the trace tells what the audit log tells; what is queued is exported |
| Event bridge, metrics | pushes under way; counters | `emit`, `flush` | their failure must not break a request | fail-open |
| Control plane and session registry (`orchestrator/`) | in-memory map of bounded size | POST, DELETE, GET, `lookup` | lost on restart; retried requests | the audit log tells who is registered |
| Dispatch CLI (`dispatch/`) | what it created: registration, `.mcp.json`, sandbox, policies | one run, clean-up, signals | any step fails, also in the clean-up; other dispatches; lost answers | leaks are reported; nobody else's things are touched |
| Sanitizers, injection patterns, path guard (`security/`) | none | text to verdict | text | not for a model checker |
| Improvement sweep, `address-improvement` (`improvements/`, `scripts/*.mjs`) | files in `.improvements/`, in a git worktree; counters of a run | sweep (two phases), triage, address, roll back | human, sweep and git on the same files; any command fails | the cap; no triage undone; a quiet exit has done all; a PR brings its suggestion and no other |
| Skill usage report (`improvements/skill-*.ts`) | none | transcripts to invocations, outcomes, verdicts | three windows in one walk, transcripts that grow | equals its definition; report and suggestions contradict each other in no case but the known one |

The hazards of this code, each at its line and with the properties that guard
against it, are in `PROJECT.json`.

## 2. The modules

| Module | Models | Composition |
|---|---|---|
| `Transport` | what `McpTransport` (transport.ts) promises: a promise settles once, and resolves with its own call's response | abstract specification |
| `StdioBridge` | `stdio-bridge.ts` | implements `Transport` (`TransportSpec`) |
| `StdioBridgeProofs` | theorems about `StdioBridge` | extends it |
| `StdioCapProofs` | theorems about its cap on a line | extends `StdioBridgeProofs` |
| `ControlPlane` | `control-plane.ts`, `session-registry.ts` and the HTTP wire | |
| `Dispatch` | `dispatch/`: processes of `apd` against one control plane and one host | extends `ControlPlane` |
| `DispatchProofs` | theorems about `Dispatch` and `ControlPlane` | extends `Dispatch` |
| `Proxy` | one `POST /mcp` and its observers | |
| `ProxyProcess` | `index.ts`: serving, signals, shutdown, exit | extends `Proxy` |
| `ProxyProcessProofs` | theorems about `Proxy` and `ProxyProcess` | extends `ProxyProcess` |
| `Worktree` | git, as `address-improvement.mjs` uses it (external) | |
| `Improvements` | `sweep-improvements.mjs`, `detector.ts`, `writer.ts`, the human, `address-improvement.mjs` | extends `Worktree` |
| `ImprovementsProofs` | theorems about `Improvements` and `Worktree` | extends `Improvements` |
| `HttpBridge` | `http-bridge.ts`: one exchange per call | |
| `Routing` | allowlist, routes and the check of the server configuration, as operators | |
| `Backends` | start of the bridges, the way of a tool call to a server, the composite transport | extends `HttpBridge` and `Routing`, takes the stdio bridge as `Transport`; implements `Transport` (`CompositeIsTransport`) |
| `BackendsProofs` | theorems about `HttpBridge`, `Routing` and `Backends` | extends `Backends` |
| `AuditLog`, `Tracer` | `logger.ts`, `langfuse.ts` | |
| `Observers` | the handlers that feed both, start, stop and exit of the process | extends both |
| `ObserversProofs` | theorems about `Observers`, `AuditLog` and `Tracer` | extends `Observers` |
| `SkillSignals` | the two signals of `detectSkillUsageImprovements` | used by `Improvements` and `SkillUsage` |
| `SkillUsage` | `skill-transcript.ts`, `skill-usage-report.ts` | extends `SkillSignals` |
| `SkillUsageProofs` | theorems about `SkillUsage` | extends it |
| `MC*` | instances for TLC | |

JavaScript runs a callback to completion, so a handler or the code between two
awaits is one action. The one exception is the bridge's stdout listener, whose
loop over lines is a sequence of steps (`ReceiveChunk`, one `HandleLine` per line,
`EndChunk`) during which `handler` keeps every other event away.

**StdioBridge.** A process is numbered by its spawn; its `ManagedProcess` fields are
functions of that number, because its listeners outlive its place in `processes`
(`cur`). A call is named; `owner` and `id` say where it was sent under which id,
`pending`, `armed` are the map and the timers. A line has a kind (answer, note
without id, request with an id of the child's own, text, blank), an id and a size;
`out`, `part` are what the pipe holds and how much of its first line was delivered, so that TLC
cuts chunks at every byte. Children answer each request at most once, in any order
(`InOrder` restricts them for one property), write unsolicited lines, close stdin,
exit, or die by a signal. "exit" destroys stdin in the same action; Node's delay
between the two is not modelled. A spawn that fails is an exit with a code.

**ControlPlane, Dispatch.** `wire` holds requests on their way and `waiting` who still
waits for an answer: a client that gives up leaves its request on the wire, where
it may be handled late or never. `cli[c]` is the process of dispatch c: its place
in `runDispatchWithDeps`, and its locals (`created`, `ids`, `intended`, `leak`). After the headers of a 400 the client awaits
the text, its abort timer cleared (`register400`, `deregister400`); `BodyEnds` is when the body does.
Signals set `signalled`, which decides the exit code in `Ended`. External are sbx and the agent; an sbx
command that fails is taken to have had no effect, and one agent run reads
`.mcp.json` once.

**Proxy, ProxyProcess.** The synchronous part of `POST /mcp` has one outcome of
`Verdicts`; a forwarded call settles into one of `Results` or `Failures`. Each is
a record of the entries it audits and the answer it gives, in the order of the code.
The trace keeps the outcome of the first `end()` that succeeds: of the first entry, or, with `TraceFaults`, of any, or none;
it may also fail to start. An exit runs in `index.ts`'s order: the server closes when no client is
connected any more (`Drained`), then all tasks start (`RunTasks`): the stdio bridge
rejects what waits, and the event bridge takes its snapshot of pending pushes first.

**Worktree, Improvements.** A suggestion file is its status; `work`, `index` and
`tree` hold it in the worktree, staged, and on each branch, with git's rules for
what a checkout or a reset may touch. `sweep` is a run of the sweep script: the phase, what it
detected (`found`, from a log and a usage that are enumerated around the
thresholds), what it has yet to look at, its counters. `isDuplicate`, the second look of
`writeSuggestion` and the write are three steps. `address` is the address script, a command a
step, with the status it read at the start (`orig`); `BodyFails` is the one that has no catch. The human edits a status at any
moment, and uses git only while the script does not run. `raced` records the
files that were written while another process was between its read and its write:
the properties except them, since neither script guards against it. One sweep and one
address run at a time, all on one day.

**Routing, HttpBridge, Backends.** A tool name is a sequence of characters; a pattern is its
text and the number of its trailing stars, because `sortRoutes` compares lengths with
stars and `matchesPattern` strips them. An exchange is a record: how far `call` has come, whether its
abort timer is armed and the response still open, bytes read, and why it ended. The upstream takes any step at any
moment. `Backends` sends a request through the checks of `POST /mcp` in their
order; `req` keeps where it went. The stdio bridge is there by its promise only, the abstract
`Transport`, which `StdioBridge` implements: the composition is checked, and proved, without
its details. The start (`Boot`) may fail, on a configuration `validateServerConfig` refuses; the
configurations TLC enumerates are what the environment may hold, valid or not.

**AuditLog, Tracer, Observers.** `log` is what was written, in order, to which place, and
whether it was cut short; of what went to stdout, the last `buffered` entries are still in the process and end with it. `trace[r]` has the tags as accumulated and as they were set (`attr`): an SDK call that throws
leaves what was done before it. The handler of `server.ts` that logs, spans and ends is a list of steps (`cur`)
that nothing interrupts, so that each step may fail by itself. `told` is the history of
what was audited; `faulty` names the requests in whose trace the SDK failed.

**SkillSignals, SkillUsage.** A transcript line is a record of what the code reads of it: kind, session, Skill
blocks with nesting, text (none, benign, stop word), whether it has its ids and lies in the lookback
window. `AppendLine` is the session writing on; the two loops, over lines
and over the events behind an invocation, are functions of the position (`Parsed`, `Walked`). What
earlier transcripts add up to (`past`) is chosen at the start, around the thresholds.

## 3. The runs

| Run | Instance | Shows |
|---|---|---|
| `bridge_lifecycle` | 1 server, 2 calls, 2 spawns, fail-fast after 1 text line, 1 unsolicited line per process; exits, deaths by signal, lost stdin, timeouts, shutdown | `ExactlyOnce`, `BrokenServedNobody`, `OneLiveChild`, `BrokenIsFinal`; the bridge implements `Transport` |
| `bridge_servers` | 2 servers (or one and its successor), 2 calls, exits, shutdown | `OwnResponse`, `ShutdownLeavesNothing` |
| `bridge_live` | 1 process, cap 1 with lines of 1 and 4 bytes, 2 calls answered in order, 1 unsolicited long line, exits, deaths by signal, shutdown, fair timers | `OneCallPerOversizedLine`, `OffenderPays`, `BufferIsPart`, `EveryCallSettles`, `ShutdownEnds` |
| `bridge_signal` | a child dies by a signal | finding: `DeadIsReplaced` fails |
| `dispatch_lifecycle` | 2 dispatches of one manifest, one forced, registry of 1, no retries, lost answers, sbx failures, signals, 1 restart | `LeaksAreLoud`, `RunsRegistered`, `NobodyElsesSandbox` |
| `dispatch_live` | 2 dispatches of one workspace, registry of 1, 3 attempts, lost answers, signals, 1 restart | `AuditTellsRegistry` with retries; `ClientEnds`, `SignalEnds` |
| `proxy_shutdown` | 2 requests, 2 signals, tracer faults | `OneStory`, `EntriesNotLost`, `EventsFlushed`, `NoLateCalls`, `SignalEnds` |
| `backends` | 2 calls, 3 tools and the empty name, a stdio and an HTTP server or two HTTP servers, every pair of 6 overlapping patterns, 8 other configurations (empty, half, dangling, doubled, empty name), cap 1, bodies up to 2 bytes | `OwnServer`, `ExchangeEnds`, `EveryForwardSettles`; the composite implements `Transport` |
| `skill_usage` | transcripts of up to 5 lines of 13 kinds (2 behind an earlier transcript), windows of 1 assistant turn, 2 user turns and 3 turns in all, 10 pasts, the shapes of the 5 verdict rules, ages 13 and 14 days | `OutcomeAsDefined`, `OutcomeOnlyWorsens`, `OneContradiction` |
| `observers` | 2 requests with one or two entries, 4 kinds of tracer, up to 2 failures of disk or SDK anywhere, stop and exit | `EntryKept`, `TraceTellsAudit`, `QueuedIsExported` |
| `improvements_lifecycle` | 3 suggestions, one of them committed on main, 3 runs of either script, cap 2, 1 edit, every step fails | `RunCap`, `QuietMeansDone`, `NoClobber`, `PrIsSeeded`, `PrCarriesOwn` |
| `improvements_rollback` | 1 sweep, 1 address, the push fails | finding: `RollbackRestores` fails |

Deadlock is not checked: each of these systems may stop (all calls made, every
dispatch ended, the process gone). TLC's symmetry is used for safety only.

**Why the bounds are enough.** Two calls are the fewest that can be confused, be
charged for each other or race a respawn; two spawns are a process and its
successor, or two servers; the cap needs one line at the cap, one far over it
(so that it can be cut before, at and after the cap) and a sibling. Two dispatches compete
for one place, name and workspace, in `dispatch_live` with the code's three attempts each, where the
one that finds the registry full is refused by a 400. Two requests show one that is in flight while
another is over, on either bridge, and two signals a repeated shutdown. Three suggestions
against a cap of 2 make the cap cut across the phases; three runs are a sweep and two
addresses, one starting where the other left the worktree, or an address between two sweeps.
Two routes are the fewest that can shadow each other; their patterns are the catch-all, a name, its
prefixes with one and two stars, and the blank one. A cap of 1 with bodies of up to 2 bytes is passed by the first chunk or by the second. The
windows of `skill_usage` are smaller than the code's 3, 5 and 20 but of the same order, and four
turns behind the invocation go past each of them. Two failures are a disk that fails in one entry and
the SDK in another, or in two steps of one trace. The theorems below
do without all these bounds, and the sizes are then any numbers.

**Fairness.** Only timers and the running handler are assumed to go on: the 30s
timer of a call, grace and ceiling timers, the client's back-off, 5s abort and
the 5s backstop, the forced exit. Nothing is assumed of children, sbx, agents,
clients, the control plane or the dashboard. In particular `BodyEnds` has no
fairness: nothing in the client bounds the wait for the body of a 400. In `proxy_shutdown` the
forced exit alone is assumed. In `backends` the stdio bridge settles its calls (`WF(StdioSettles)`), which is
`EveryCallSettles`, and the abort timer of an exchange fires (`WF(HttpTimesOut)`); no step of an upstream is assumed. In
`observers` the running handler goes on, and the timers of the tracer's phases fire; uploads need not happen.

`LateCalls` is FALSE in the bridge's runs: no call is made once `shutdown()` was.
`NoLateCalls` of `ProxyProcess` is the other half: `index.ts` closes the server first.

## 4. The theorems

In `StdioBridgeProofs`, for every set of calls and servers and every limit,
from `BridgeAssumption` alone (the constants have their types):

* `TypeCorrect`, `SettledExactlyOnce`, `BrokenAnsweredNobody`, `LiveChildIsManaged`:
  invariants of `bridge_lifecycle`; `BrokenStaysFinal`: `BrokenIsFinal`.
* `OwnResponses`, `ImplementsTransport`: if servers send no requests of their own
  (`"request" \notin ChatterKinds`), resolved calls have their own response and
  the bridge implements `Transport`. Without that hypothesis both are false (section 5).
* `ShutdownLeaves`: if no call is made after `shutdown()` (`~LateCalls`), its end leaves nothing.

They follow from one inductive invariant, `IInv` (`Invariant`). `ExactlyOnce` alone is
not inductive: that a response or a timer finds its call needs to know where calls were sent and that ids
are not reused within a process (`RequestsKnown`); that a respawn settles nobody twice needs that
a dead process holds no calls (`DeadHoldNothing`), and that a fresh process is
fresh (`SpawnedInOrder`); `OwnResponse` needs the provenance of every line in a
pipe or in the handler's hands (`LinesTruthful`), where each answer carries the id
of the call it answers; `BrokenServedNobody` needs that a process that has answered has
spoken JSON (`AnswersAreJson`). `StopKnown` says in the same way what `shutdown()`
still waits for. The proof has a lemma per conjunct and per group of actions:
what a step settles (`StepSettles`), what it leaves alone (`StepFrame`), and then each conjunct.

In `BackendsProofs`, for every set of calls, tools and configurations and every cap,
from `HttpAssumption` alone:

* `ExchangesEnd`: `ExchangeEnds` is an invariant.
* `CompositeImplements`: the composite transport implements `Transport`.

`ExchangeEnds` lacks two things to be inductive: that nothing is decided of an exchange before
it ends, and that its result is never another's (`Sound`). Every step of the HTTP
bridge changes one exchange and leaves it sound (`Exchanges`), one lemma per kind of
step. For the refinement `BackendsInv` adds that a call is at rest at each
bridge it was not sent to (`Apart`), so that the composite's promise is the one of the
bridge `req` names. A step hands a request on (`Moves`), settles calls of the stdio bridge (`StdioGoesOn`) or
goes on with one exchange (`HttpGoesOn`), and each of the three is a step of `Transport` or a
stutter. With `ImplementsTransport` this makes the chain complete: the
real stdio bridge keeps `Transport`, and with it in its place so does what `server.ts` calls.

Also in `BackendsProofs`, for every table of routes, every allowlist, every set of servers and of tools, from
`BackendsAssumption` (a configuration has the types that `server-config.ts` lets through):

* `CallsReachTheirServer`: `OwnServer` is an invariant.

`sortRoutes` puts every route at the place of its rank, the number of routes that come before it. Ranks
increase along `Precedes` (`RankIncreases`), are therefore never shared, and by counting each one is taken (`RankOnto`): the
table is sorted and complete (`SortRoutes`), and the first match in it is more specific than any other (`RoutedByFirst`).
The invariant `RoutingInv` adds that only a validated configuration is served and that each request went where the
tables say; that no call reaches a bridge without its server is `RoutedToDeclared`.

In `StdioCapProofs`, from `BridgeAssumption` and `IInv` of the bridge:

* `BufferHoldsPart`: `BufferIsPart`, from `BufInv`, which says the same while a handler runs.
* `CapCostsOneCall`: `OneCallPerOversizedLine`. Inductive is `Paid`: the calls rejected for size *and* the
  lines over the cap that may still cost one (`Due`: in the pipe or in the handler's hands, but for the one
  that is being dropped) are together no more than the lines over the cap that were written. A step that rejects a call moves
  one unit from the right to the left; that a line is seen by one check only is `BufInv`.
* `OffenderIsCharged`: `OffenderPays`, if the children answer in order (`InOrder`) and send no requests of
  their own, and no call follows `shutdown()` (`~LateCalls`; the proxy's order of shutdown, `ServerClosedFirst`). Without
  any one of the three TLC finds another call paying: the oldest that waits is then not the one answered (out of
  order), already settled by a request with its id, or sent to a child whose earlier answers nobody awaits any more.
  Inductive is `Orderly`, about all that a child has written or has yet to answer (its stream `Stream(p)`, then its
  `inbox`): ids ascend along it (`InTurn`), each line says truly whom it answers (`AllTold`), and the calls that
  wait are those it is still to answer, but for the calls that timed out (`Awaited`), until an exception of the
  property excuses the process or nobody waits for it any more (`Closed`). The head of the stream is then the
  answer of the oldest waiting call (`HeadPays`).

In `ProxyProcessProofs`, for every set of requests and number of signals (`ProcessAssumption`):

* `OneStoryTold`, `CleanExitKeepsEntries`, `CleanExitFlushes`: the invariants of `proxy_shutdown`. Of a trace that has ended
  the first says that its outcome is that of the first entry, or, where the SDK fails, of one of the entries.
* `ServerClosedFirst`: `NoLateCalls`, which discharges the hypothesis of `ShutdownLeaves`.

The invariant has a part per request (`RequestOK`: nothing is said of a request before its handler has run, and what
is said then agrees) and a part for the exit (`ProcessInv`: what has been closed, drained and flushed in each phase).
That a clean exit loses nothing is a fact about the order of `index.ts`: no new request once it is closing,
no connected one once it is stopping.

In `DispatchProofs`, for every set of sessions, every sharing of names and workspaces, any number
of attempts, restarts and places in the registry (`DispatchAssumption`, `ControlPlaneAssumption`):

* `AuditIsTrue`, `RunsAreRegistered`, `LeaksExitLoudly`: the invariants of both runs; `SandboxesStay`: `NobodyElsesSandbox`.

`LeaksAreLoud` speaks of dispatches that have exited, so its invariant says place by place what a dispatch has: on the wire
(`ClientOK`: no request of its own is under way between two attempts, else a late POST could register what a DELETE had
removed), in the registry (`RegistryOK`) and on the host (`HostOK`: who has a sandbox or a rule is at a place that will remove it,
has noted the leak, or has exited loudly). `SandboxesStay` rests on `Owns`: who runs `sbx rm` has the sandbox.

In `ImprovementsProofs`, for every set of suggestions, every spelling of their ids (two may share one), any cap,
thresholds, runs and edits (`ImprovementsAssumption`, `MainAssumption`):

* `SweepIsCapped`, `QuietSweepsAreDone`, `PrsAreSeeded`, `PrsCarryTheirOwn`: the invariants of
  `improvements_lifecycle`; `SweepsClobberNothing`: `NoClobber`.

`SweepOK` is the loop invariant of the sweep: what was found is handled, yet to be looked at or in hand.
`FreeToWrite` carries the second look of `writeSuggestion` to the write. `Delivered` follows a suggestion
backwards from the remote: the branch got it by a commit of the index (`IndexOK`), the index by an add of the
worktree (`Underway`), and each of the three differs from main in what was staged before and in nothing else.

In `ObserversProofs`, for every set of requests and any number of failures (`ObserversAssumption`):

* `TraceAgreesWithAudit`: `TraceTellsAudit`. The invariant needs the remaining steps of the running
  handler to be those of one entry or of two, of one request (`CurOK`), and says for each of
  them what the trace has so far (`CurrentOK`).
* `EntriesAreKept`: `EntryKept`. From `FileOK` (file first, then stdout, never back; only entries on stdout wait in its buffer) and `LogOK` (each audited entry once);
  the two illegible entries per short write are then counted by mapping each one to the short write before it.

`DispatchTypes`, `ProcessTypes` and `ImprovementsTypes` prove the `TypeOK` of their modules. No run lists these:
the invariants that were checked on the runs' instances before they were proved contain them.

In `SkillUsageProofs`, for every set of lines, transcripts of any length, any windows, from `SkillUsageAssumption` and
`ReportAssumption`:

* `OutcomesAreDefined`: `OutcomeAsDefined`. The loop invariant is `Walks`: after the i-th event the counters are the
  numbers of turns heard so far (`Heard`, `Said`, `Upto`), and the outcome is open exactly as long as none of these turns was
  a pivot or a stop word in its window (`QuitBy`). That a window, defined by counting turns, is the prefix that
  the loop's counter admits is `WindowNext` and `WindowFills`.
* `ReportsNeverTakeBack`: `OutcomeOnlyWorsens`. Both walks agree on the old transcript (`OneMoreEvent`),
  and the new line is one more step of `Walk`, or none after `Horizon` turns.
* `OnlyContradiction`: `OneContradiction`. What the report counts is finite and adds up (`UsageCounts`); the rest is the
  arithmetic of the rates (`MoreThanHalf`).

The loops are inductive over data. The library's induction theorems have a predicate for a parameter, which the provers
cannot instantiate; `SetInduction` is the same with a set for it, by the theorem of least elements `WFMin`, and `LoopRuns` gives from it that
a loop written as a recursive function has the values its equation says. `ReportAssumption` says what the code
guarantees of earlier transcripts (a session counts for an invocation in it) and that a rule asks for no completion rate, or for one
above the half that makes the sweep suggest a skill as abandoned: the rules of the code ask for 0.7 or for none. The latter is the
exception that `OneContradiction` names; a rule with 0.5 would add another.

Only model-checked: liveness, because fairness is out of the prover's reach.

## 5. Where code and words differ

The two violation runs are explained in `PROJECT.json` under "findings": a child
killed by a signal is never replaced; the rollback of `address-improvement` deletes a suggestion that only its own commit knows.

Excluded by the instance or by an exception of a property:

* A server's own request (sampling, ping) whose id equals a pending one settles that call with
  undefined, where transport.ts:11 promises "the raw `result` field from the
  upstream JSON-RPC response" (`OwnResponse` fails with `ChatterKinds = {"request"}`).
* A dispatch does not register again after a restart of the proxy, where session-registry.ts:158 says
  "the dispatch CLI is responsible for re-registering".
* `.mcp.json` is checked and written in two steps (mcp-config-writer.ts:54): of two unforced dispatches of one
  workspace, one agent may run under the other's session.

Met while modelling, and stated as exceptions of the properties:

* A register request that fails unanswered exits 66 though it may have been
  handled (`LeaksAreLoud`).
* If sbx prints no policy id, the rule outlives the dispatch and the exit code is
  the agent's; docs/setup.md:160 promises better.
* A signal's exit code 130 hides a 70.
* The client clears its abort timer with the headers (control-plane-client.ts:117) and then awaits the text of a 400
  (lines 190 and 215): nothing in the client bounds that wait, beyond what Node's `fetch` does of itself with an idle connection (`ClientEnds` excepts it; `SignalEnds` does not). In
  these runs a register meets it; this control plane answers no DELETE of a well-formed id with 400.
* Entries on stdout may be lost at an exit, a clean one too, while a pipe has not taken them; the comment at logger.ts:56
  says so of the forced one (`EntryKept` says which).
* `verification-before-completion` is kept for five invocations, whatever their outcome (skill-usage-report.ts:101-105): abandoned five
  times, the report says KEEP, "the skill is paying off" (line 365), and the sweep files a suggestion that it is abandoned
  100% of the time (detector.ts:169). `OneContradiction` has this case as its exception; it is the only one. The report's
  legend explains DROP by "sustained high abandonment" too (line 366), for which `deriveVerdict` has no rule at all.
* A DELETE that removes nothing is not audited; docs/security.md:165 says every
  successful DELETE is (`AuditTellsRegistry` shows that the code's way is the useful one).
* The entry of a call at the HTTP bridge whose client has gone is lost at a
  clean exit, against the comment at index.ts:317 (`EntriesNotLost`).
* The children's SIGKILL comes 5s after the forced-exit timer was started and so never in
  production: a child that ignores SIGTERM turns the exit into 1, and outlives it.
* A push to a dashboard that never answers does the same.
* A result nested too deep to print is audited as "allowed" and then again as "error"
  (server.ts:530), where docs/observability.md:56 says "Every request emits exactly one
  entry"; `OneStory` judges by the last entry.
* An address whose commit fails (a hook, a missing identity) leaves its file staged as addressed;
  the next PR, of another suggestion, takes it along (`PrCarriesOwn` excepts it).
* The checkout of a second address removes the first one's suggestion from the
  worktree, being tracked on that branch only. A sweep of the same day then finds no duplicate and
  writes it anew as open, against `.improvements/README.md`; addressing that
  fails, because the branch exists.
* Suggestions of tools whose names differ only in case or in characters other than
  letters, digits and hyphens share an id (`slugify`): one counts as the other's duplicate.
* A stdout line `null` throws in the data listener (stdio-bridge.ts:317).
* Routes are sorted by the length of the pattern with all its stars, where server.ts:186 says "longest
  prefix first": `f**` is tried before `fs*` or on a par with it (`OwnServer` excepts several stars).
* A server whose name is the empty string passes the check at the start, and no tool is ever
  routed to it (`if (!serverName)`, server.ts:476).
* The body of a response other than 2xx is neither read nor cancelled, and its timer is gone
  (`ExchangeEnds` excepts it). The id of a response is not compared over HTTP.
* What `writeSync` returns is ignored (logger.ts:150): an entry that is written in part takes
  the next one with it (`EntryKept` counts two illegible entries for a short write).
* langfuse.ts:352 leaves a trace open whose end() failed, for "server.ts's outer catch to retry"; no path of
  server.ts ends it again with the same outcome, and where it is ended again, with that of a second entry ("allowed", then "error", server.ts:589), both outcomes stay
  among its tags (`TraceTellsAudit` excepts traces in which the SDK failed; `OneStory` asks of them for an outcome that was audited).
* Only the first top-level Skill block of a turn counts as a pivot; a second one, or one behind a
  block with an empty name, is not seen (`findTopLevelSkillInvocation`).
* "completed" does not ask that the windows have been walked past, as the comment at
  skill-transcript.ts:189 has it: one benign message at the end of a transcript is enough.
* The temporary file with the body of a PR is written outside every `try` (address-improvement.mjs:149): if that fails, the
  script ends by an exception, its commit made and not pushed, and the branch in the way of a second attempt (`BodyFails`).

* A file without a status line is "bare": the script reads it as open and has nothing to mark. So it does with one whose
  status line has text behind the word (address-improvement.mjs:53 against line 110); `PrIsSeeded` lets both pass.

## 6. Not modelled

Regular expressions and other text handling: sanitizers, injection patterns, path guard, dispatch
manifests, the parsing of configuration, transcripts and log lines, rendering. Metrics
(counters of prom-client), GET endpoints, the shell scripts and the vendoring script. The
start of the dashboard, metrics and control-plane servers. The per-session allowlist: a request is judged by some allowlist.
Times are not modelled: timers fire in any order, except that the bridge's SIGKILL
never precedes the forced exit. A `writeFileSync` that fails leaves the file as it was (it could leave a part of it), and
`--max` is a number (`--max NaN` would be no cap). `Backends` makes no call of the stdio bridge once its shutdown began; the
real bridge has no such guard, but the server is closed before (`NoLateCalls`).

## 7. Plan

Every component with state of its own is modelled, and every safety property of such a component that a run
checks is proved. What is left is what section 6 names, and `EveryCallSettles` and its like, which stay with TLC.
