----------------------------- MODULE StdioBridge -----------------------------
(***************************************************************************)
(* The stdio bridge (src/mcp-proxy/stdio-bridge.ts): it spawns each        *)
(* configured MCP server on first use, multiplexes calls over the child's  *)
(* stdin and stdout, and stops the children at shutdown.                   *)
(*                                                                         *)
(* JavaScript runs an event handler to completion.  One handler has a      *)
(* loop that matters, stdout's "data" listener, so it is modelled as a     *)
(* sequence of steps: ReceiveChunk, one HandleLine per complete line,      *)
(* EndChunk.  While it runs (handler # 0) no other event is delivered;     *)
(* every other handler is one action.                                      *)
(*                                                                         *)
(* A process is numbered by its spawn, 1, 2, ...; its ManagedProcess       *)
(* object and its listeners outlive its place in the `processes` map.      *)
(* Text is abstracted to lines with a kind, an id and a size; the bytes    *)
(* of a line reach the bridge in pieces.                                   *)
(***************************************************************************)
EXTENDS Naturals, Sequences, FiniteSets

CONSTANTS
  Calls,     \* invocations of call(), each made at most once
  NoCall,    \* "no call"
  Servers,   \* names of the configured servers
  FailFast,  \* failFastNonJsonLines (0: off)
  Cap,       \* maxResponseBytes (0: off)
  Sizes,     \* sizes of the lines a child may write
  ChatterKinds, \* unsolicited lines: subset of {"note","request","text","blank"}
  ChatterSizes, \* and their sizes
  Faults,    \* what may go wrong: subset of {"exit","signal","stdin","timeout"}
  InOrder,   \* do the children answer in the order of the requests?
  LateCalls, \* may call() be invoked once shutdown() was?
  MaxProcs,  \* bound: processes spawned
  MaxChatter \* bound: unsolicited lines per process

ASSUME BridgeAssumption ==
  /\ NoCall \notin Calls
  /\ FailFast \in Nat /\ Cap \in Nat /\ MaxProcs \in Nat /\ MaxChatter \in Nat
  /\ ChatterKinds \subseteq {"note", "request", "text", "blank"}
  /\ Sizes \subseteq Nat \ {0} /\ ChatterSizes \subseteq Nat \ {0}

VARIABLES
  \* the bridge
  cur,        \* cur[s]: the process in `processes` under the name s, 0 if none
  spawned,    \* number of processes spawned so far
  nextId,     \* nextId[p]: ManagedProcess.nextId
  pending,    \* pending[p]: the calls in ManagedProcess.pending
  buffer,     \* buffer[p]: bytes in ManagedProcess.buffer
  nonJson,    \* nonJson[p]: nonJsonLinesSeen
  sawJson,    \* sawJson[p]: jsonLinesSeen > 0
  broken,     \* broken[p]: brokenReason is set
  discarding, \* discarding[p]: discardingUntilNewline
  handler,    \* the process whose "data" listener is running, 0 if none
  lines,      \* the complete lines it has still to handle
  phase,      \* shutdown(): "running", "stopping", "cleared"
  stop,       \* stop[p]: shutdownOne: "no", "grace", "ceiling", "exited", "leaked"
  \* the calls
  owner,      \* owner[c]: the process c was sent to, 0 if none
  id,         \* id[c]: its request id
  armed,      \* the calls whose 30s timer is running
  outcome,    \* outcome[c]: "idle", "waiting", or how its promise settled first
  settles,    \* settles[c]: how often resolve or reject was called for c
  got,        \* got[c]: the call whose response resolved c
  \* the children and their pipes
  exit,       \* exit[p]: "running", "code" (exitCode set), "signal" (signalCode set)
  stdinOpen,  \* stdinOpen[p]: proc.stdin exists and is not destroyed
  signalled,  \* signalled[p]: proc.kill() was called
  inbox,      \* inbox[p]: requests the child has not answered
  out,        \* out[p]: lines written and not yet entirely delivered
  part,       \* part[p]: bytes of the first of them already delivered
  chatter,    \* chatter[p]: unsolicited lines written
  bigLines,   \* bigLines[p]: lines over the cap written (history)
  bigAnswers  \* the calls whose answer was over the cap (history)

managedVars == <<nextId, buffer, nonJson, sawJson, broken, discarding>>
loopVars    == <<handler, lines>>
settleVars  == <<outcome, settles, armed>>
callVars    == <<owner, id, got>>
procVars    == <<exit, stdinOpen, signalled>>
mapVars     == <<cur, spawned>>
stopVars    == <<phase, stop>>
pipeVars    == <<inbox, out, part, chatter, bigLines, bigAnswers>>
vars == <<managedVars, pending, loopVars, settleVars, callVars, procVars,
          mapVars, stopVars, pipeVars>>

Procs    == 1..MaxProcs
Answers  == {"result", "error"}
Kinds    == Answers \cup {"note", "request", "text", "blank"}
Outcomes == {"idle", "waiting", "resolved", "error", "timeout", "size", "exit",
             "broken", "stdin", "restart", "shutdown"}
(* A line on a child's stdout.  "note": JSON without an id; "request": JSON *)
(* with an id of the child's own; "text": not JSON; "blank": white space.   *)
Line == [kind : Kinds, id : Nat, to : Calls \cup {NoCall}, size : Nat]

Idle == handler = 0
Live(p) == p <= spawned /\ exit[p] = "running"
-----------------------------------------------------------------------------
(* Mutants (operators named after a bug) stand before what they mutate: with *)
(* one in the place of its original, a property must fail.                   *)

(* Mutant: the timer is not cleared. *)
SettleTimerRuns(S, why) ==
  /\ outcome' = [c \in Calls |-> IF c \in S /\ outcome[c] = "waiting"
                                 THEN why ELSE outcome[c]]
  /\ settles' = [c \in Calls |-> IF c \in S THEN settles[c] + 1 ELSE settles[c]]
  /\ UNCHANGED armed

(* Settling promises: every path clears the timer, and a second resolve or  *)
(* reject of the same promise has no effect (but is counted).               *)
Settle(S, why) ==
  /\ outcome' = [c \in Calls |-> IF c \in S /\ outcome[c] = "waiting"
                                 THEN why ELSE outcome[c]]
  /\ settles' = [c \in Calls |-> IF c \in S THEN settles[c] + 1 ELSE settles[c]]
  /\ armed' = armed \ S

(* Mutant: the entries go, their promises are forgotten. *)
dropAllPending(p, why) ==
  /\ armed' = armed \ pending[p]
  /\ pending' = [pending EXCEPT ![p] = {}]
  /\ UNCHANGED <<outcome, settles>>

rejectAllPending(p, why) ==
  /\ Settle(pending[p], why)
  /\ pending' = [pending EXCEPT ![p] = {}]

(* Mutant: the last entry instead of the first. *)
Newest(p) == {c \in pending[p] : \A d \in pending[p] : id[c] >= id[d]}

(* Map iteration order is insertion order, which is id order. *)
Oldest(p) == {c \in pending[p] : \A d \in pending[p] : id[c] <= id[d]}

(* Mutant: an oversized line costs every pending call. *)
rejectEveryPending(p) == rejectAllPending(p, "size")

rejectOldestPending(p) ==
  /\ Settle(Oldest(p), "size")
  /\ pending' = [pending EXCEPT ![p] = @ \ Oldest(p)]
-----------------------------------------------------------------------------
Init ==
  /\ cur = [s \in Servers |-> 0] /\ spawned = 0
  /\ nextId = [p \in Procs |-> 1] /\ pending = [p \in Procs |-> {}]
  /\ buffer = [p \in Procs |-> 0] /\ nonJson = [p \in Procs |-> 0]
  /\ sawJson = [p \in Procs |-> FALSE] /\ broken = [p \in Procs |-> FALSE]
  /\ discarding = [p \in Procs |-> FALSE]
  /\ handler = 0 /\ lines = <<>>
  /\ phase = "running" /\ stop = [p \in Procs |-> "no"]
  /\ owner = [c \in Calls |-> 0] /\ id = [c \in Calls |-> 0] /\ armed = {}
  /\ outcome = [c \in Calls |-> "idle"] /\ settles = [c \in Calls |-> 0]
  /\ got = [c \in Calls |-> NoCall]
  /\ exit = [p \in Procs |-> "running"] /\ stdinOpen = [p \in Procs |-> TRUE]
  /\ signalled = [p \in Procs |-> FALSE]
  /\ inbox = [p \in Procs |-> {}] /\ out = [p \in Procs |-> <<>>]
  /\ part = [p \in Procs |-> 0] /\ chatter = [p \in Procs |-> 0]
  /\ bigLines = [p \in Procs |-> 0] /\ bigAnswers = {}
-----------------------------------------------------------------------------
(* call() and getOrSpawn()                                                  *)

MayCall(c) == Idle /\ outcome[c] = "idle" /\ (phase = "running" \/ LateCalls)

(* getOrSpawn throws brokenReason. *)
CallBroken(c, s) ==
  /\ MayCall(c)
  /\ cur[s] # 0 /\ broken[cur[s]]
  /\ outcome' = [outcome EXCEPT ![c] = "broken"]
  /\ settles' = [settles EXCEPT ![c] = @ + 1]
  /\ UNCHANGED <<armed, managedVars, pending, loopVars, callVars, procVars,
                 mapVars, stopVars, pipeVars>>

(* exitCode is null: the process in the map is used again. *)
Reusable(s) == cur[s] # 0 /\ ~broken[cur[s]] /\ exit[cur[s]] # "code"

(* A process that exited with a code, or none: spawn.  Mutants: although the *)
(* old one is broken; or as soon as it lost its stdin.                       *)
RespawnsBroken(s) == cur[s] # 0 => exit[cur[s]] = "code"
RespawnsClosed(s) == cur[s] # 0 => ~broken[cur[s]] /\ ~stdinOpen[cur[s]]
Respawns(s) == cur[s] # 0 => ~broken[cur[s]] /\ exit[cur[s]] = "code"

(* Mutant: nextId is not advanced. *)
TakeSameId(c, p) ==
  /\ owner' = [owner EXCEPT ![c] = p]
  /\ id' = [id EXCEPT ![c] = nextId[p]]
  /\ UNCHANGED <<nextId, got>>

TakeId(c, p) ==
  /\ owner' = [owner EXCEPT ![c] = p]
  /\ id' = [id EXCEPT ![c] = nextId[p]]
  /\ nextId' = [nextId EXCEPT ![p] = @ + 1]
  /\ UNCHANGED got

CallReuse(c, s) ==
  LET p == cur[s] IN
  /\ MayCall(c) /\ Reusable(s) /\ stdinOpen[p]
  /\ TakeId(c, p)
  /\ pending' = [pending EXCEPT ![p] = @ \cup {c}]
  /\ armed' = armed \cup {c}
  /\ outcome' = [outcome EXCEPT ![c] = "waiting"]
  /\ inbox' = [inbox EXCEPT ![p] = @ \cup {c}]
  /\ UNCHANGED <<settles, buffer, nonJson, sawJson, broken, discarding, loopVars,
                 procVars, mapVars, stopVars,
                 out, part, chatter, bigLines, bigAnswers>>

(* The same, but stdin is destroyed: set and removed in one go. *)
CallNoStdin(c, s) ==
  LET p == cur[s] IN
  /\ MayCall(c) /\ Reusable(s) /\ ~stdinOpen[p]
  /\ TakeId(c, p)
  /\ outcome' = [outcome EXCEPT ![c] = "stdin"]
  /\ settles' = [settles EXCEPT ![c] = @ + 1]
  /\ UNCHANGED <<armed, pending, buffer, nonJson, sawJson, broken, discarding,
                 loopVars, procVars, mapVars, stopVars, pipeVars>>

(* Reject what the old process still holds, spawn, and send the request to  *)
(* the new one.                                                             *)
CallSpawn(c, s) ==
  LET old   == cur[s]
      p     == spawned + 1
      stale == IF old = 0 THEN {} ELSE pending[old]
  IN
  /\ MayCall(c)
  /\ Respawns(s)
  /\ p \in Procs
  /\ spawned' = p
  /\ cur' = [cur EXCEPT ![s] = p]
  /\ TakeId(c, p)
  /\ outcome' = [d \in Calls |-> IF d = c THEN "waiting"
                                 ELSE IF d \in stale /\ outcome[d] = "waiting"
                                 THEN "restart" ELSE outcome[d]]
  /\ settles' = [d \in Calls |-> IF d \in stale THEN settles[d] + 1 ELSE settles[d]]
  /\ armed' = (armed \ stale) \cup {c}
  /\ pending' = [q \in Procs |-> IF q = p THEN {c}
                                 ELSE IF q = old THEN {} ELSE pending[q]]
  /\ inbox' = [inbox EXCEPT ![p] = {c}]
  /\ UNCHANGED <<buffer, nonJson, sawJson, broken, discarding, loopVars,
                 procVars, stopVars, out, part, chatter, bigLines, bigAnswers>>

TimeoutFires(c) ==
  /\ "timeout" \in Faults
  /\ Idle /\ c \in armed
  /\ pending' = [pending EXCEPT ![owner[c]] = @ \ {c}]
  /\ Settle({c}, "timeout")
  /\ UNCHANGED <<managedVars, loopVars, callVars, procVars, mapVars, stopVars,
                 pipeVars>>
-----------------------------------------------------------------------------
(* stdout's "data" listener                                                 *)

(* The next chunk ends k bytes into the line after the first j lines. *)
ChunkEnd(p, j, k) ==
  /\ Idle /\ p <= spawned
  /\ k <= IF j < Len(out[p]) THEN out[p][j + 1].size ELSE 0
  /\ j > 0 \/ k > part[p]

(* Still inside an over-cap line: the whole chunk is dropped. *)
DiscardChunk(p, k) ==
  /\ discarding[p] /\ ChunkEnd(p, 0, k)
  /\ part' = [part EXCEPT ![p] = k]
  /\ UNCHANGED <<managedVars, pending, loopVars, settleVars, callVars, procVars,
                 mapVars, stopVars, inbox, out, chatter, bigLines, bigAnswers>>

(* What the buffer holds after the chunk.  Mutant: the last chunk only. *)
LeftoverOverwrites(p, j, k) == k - part[p]
Leftover(p, j, k) == IF j = 0 THEN buffer[p] + (k - part[p]) ELSE k

(* buffer += chunk, split at newlines.  The first line is what the buffer   *)
(* held and what the chunk adds; after a discarded line it is skipped.      *)
ReceiveChunk(p, j, k) ==
  LET first == [out[p][1] EXCEPT !.size = buffer[p] + (@ - part[p])] IN
  /\ ~discarding[p] \/ j > 0
  /\ ChunkEnd(p, j, k)
  /\ discarding' = [discarding EXCEPT ![p] = FALSE]
  /\ handler' = p
  /\ lines' = IF j = 0 THEN <<>>
              ELSE IF discarding[p] THEN SubSeq(out[p], 2, j)
              ELSE [i \in 1..j |-> IF i = 1 THEN first ELSE out[p][i]]
  /\ buffer' = [buffer EXCEPT ![p] = Leftover(p, j, k)]
  /\ part' = [part EXCEPT ![p] = k]
  /\ out' = [out EXCEPT ![p] = SubSeq(@, j + 1, Len(@))]
  /\ UNCHANGED <<nextId, nonJson, sawJson, broken, pending, settleVars, callVars,
                 procVars, mapVars, stopVars, inbox, chatter, bigLines, bigAnswers>>

line == Head(lines)
NextLine == handler # 0 /\ lines # <<>> /\ lines' = Tail(lines)
OverCap(size) == Cap > 0 /\ size > Cap

SkipBlank ==
  /\ NextLine /\ line.kind = "blank"
  /\ UNCHANGED <<managedVars, pending, handler, settleVars, callVars, procVars,
                 mapVars, stopVars, pipeVars>>

(* Cap check #2: a complete line over the cap costs the oldest call. *)
HandleOversized ==
  /\ NextLine /\ line.kind # "blank" /\ OverCap(line.size)
  /\ rejectOldestPending(handler)
  /\ UNCHANGED <<managedVars, handler, callVars, procVars, mapVars, stopVars,
                 pipeVars>>

(* handleNonJsonLine.  Mutant: trips although the server has spoken JSON. *)
TripsAnyway(p) == ~broken[p] /\ FailFast > 0 /\ nonJson[p] + 1 >= FailFast
TripsFailFast(p) ==
  ~broken[p] /\ FailFast > 0 /\ nonJson[p] + 1 >= FailFast /\ ~sawJson[p]

HandleNonJson ==
  LET p == handler IN
  /\ NextLine /\ line.kind = "text" /\ ~OverCap(line.size)
  /\ nonJson' = [nonJson EXCEPT ![p] = @ + 1]
  /\ IF TripsFailFast(p)
     THEN /\ broken' = [broken EXCEPT ![p] = TRUE]
          /\ signalled' = [signalled EXCEPT ![p] = TRUE]
          /\ rejectAllPending(p, "broken")
     ELSE UNCHANGED <<broken, signalled, pending, settleVars>>
  /\ UNCHANGED <<nextId, buffer, sawJson, discarding, handler, callVars, exit,
                 stdinOpen, mapVars, stopVars, pipeVars>>

(* The pending call that the id of a JSON message names, if any.  Mutant: *)
(* looked up in whatever process the call waits on.                       *)
AddresseeAnywhere(p, l) ==
  {c \in UNION {pending[q] : q \in Procs} : l.kind # "note" /\ id[c] = l.id}
Addressee(p, l) == {c \in pending[p] : l.kind # "note" /\ id[c] = l.id}

(* `msg.error` decides between reject and resolve; a request of the child's *)
(* own has neither result nor error, and resolves.                          *)
HandleJson ==
  LET p == handler
      S == Addressee(p, line)
  IN
  /\ NextLine /\ line.kind \notin {"text", "blank"} /\ ~OverCap(line.size)
  /\ sawJson' = [sawJson EXCEPT ![p] = TRUE]
  /\ pending' = [pending EXCEPT ![p] = @ \ S]
  /\ Settle(S, IF line.kind = "error" THEN "error" ELSE "resolved")
  /\ got' = [c \in Calls |-> IF c \in S /\ line.kind # "error" THEN line.to ELSE got[c]]
  /\ UNCHANGED <<nextId, buffer, nonJson, broken, discarding, handler, owner, id,
                 procVars, mapVars, stopVars, pipeVars>>

(* Cap check #1 on the trailing partial line, after the complete lines. *)
EndChunk ==
  LET p == handler IN
  /\ handler # 0 /\ lines = <<>>
  /\ handler' = 0
  /\ IF OverCap(buffer[p])
     THEN /\ buffer' = [buffer EXCEPT ![p] = 0]
          /\ discarding' = [discarding EXCEPT ![p] = TRUE]
          /\ rejectOldestPending(p)
     ELSE UNCHANGED <<buffer, discarding, pending, settleVars>>
  /\ UNCHANGED <<nextId, nonJson, sawJson, broken, lines, callVars, procVars,
                 mapVars, stopVars, pipeVars>>
-----------------------------------------------------------------------------
(* Events of the child process                                              *)

(* What shutdown() still waits for, and what its settling does: the finally *)
(* block clears the map in the microtask after the last shutdownOne.        *)
(* Mutants: the first to stop will do; or all must have exited.             *)
StoppedOne(st) == \E p \in Procs : st[p] \in {"exited", "leaked"}
StoppedDead(st) == \A p \in Procs : st[p] \in {"no", "exited"}
Stopped(st) == \A p \in Procs : st[p] \notin {"grace", "ceiling"}

Settled(st) ==
  IF phase = "stopping" /\ Stopped(st)
  THEN phase' = "cleared" /\ cur' = [s \in Servers |-> 0]
  ELSE UNCHANGED <<phase, cur>>

(* "exit" (or "error" when the spawn itself failed, which sets exitCode too). *)
(* Node destroys stdin; shutdownOne's own listener resolves `exited`.         *)
Exits(p, how) ==
  /\ Idle /\ Live(p)
  /\ signalled[p] \/ (how = "code" /\ "exit" \in Faults)
                  \/ (how = "signal" /\ "signal" \in Faults)
  /\ exit' = [exit EXCEPT ![p] = how]
  /\ stdinOpen' = [stdinOpen EXCEPT ![p] = FALSE]
  /\ rejectAllPending(p, "exit")
  /\ stop' = [stop EXCEPT ![p] = IF @ \in {"grace", "ceiling"} THEN "exited" ELSE @]
  /\ Settled(stop')
  /\ UNCHANGED <<managedVars, loopVars, callVars, signalled, spawned, pipeVars>>

(* stdin's "error": the child closed its end while it lives, and the stream *)
(* destroys itself.                                                         *)
StdinError(p) ==
  /\ "stdin" \in Faults
  /\ Idle /\ Live(p) /\ stdinOpen[p]
  /\ stdinOpen' = [stdinOpen EXCEPT ![p] = FALSE]
  /\ rejectAllPending(p, "stdin")
  /\ UNCHANGED <<managedVars, loopVars, callVars, exit, signalled, mapVars,
                 stopVars, pipeVars>>
-----------------------------------------------------------------------------
(* shutdown() and shutdownOne()                                             *)

Managed == {cur[s] : s \in Servers} \ {0}

(* Every process in the map loses its pending calls and gets SIGTERM, unless *)
(* it has exited, in which case shutdownOne returns at once.                 *)
Shutdown ==
  LET lost == UNION {pending[p] : p \in Managed} IN
  /\ Idle /\ phase = "running"
  /\ Settle(lost, "shutdown")
  /\ pending' = [p \in Procs |-> IF p \in Managed THEN {} ELSE pending[p]]
  /\ stop' = [p \in Procs |-> IF p \in Managed
                              THEN IF exit[p] = "running" THEN "grace" ELSE "exited"
                              ELSE stop[p]]
  /\ signalled' = [p \in Procs |-> signalled[p] \/ stop'[p] = "grace"]
  /\ IF Stopped(stop')
     THEN phase' = "cleared" /\ cur' = [s \in Servers |-> 0]
     ELSE phase' = "stopping" /\ cur' = cur
  /\ UNCHANGED <<managedVars, loopVars, callVars, exit, stdinOpen, spawned, pipeVars>>

(* The grace timer: SIGKILL, and wait for the hard ceiling. *)
GraceExpires(p) ==
  /\ Idle /\ stop[p] = "grace"
  /\ stop' = [stop EXCEPT ![p] = "ceiling"]
  /\ signalled' = [signalled EXCEPT ![p] = TRUE]
  /\ UNCHANGED <<managedVars, pending, loopVars, settleVars, callVars, exit,
                 stdinOpen, mapVars, phase, pipeVars>>

(* The hard ceiling: give the process up. *)
CeilingExpires(p) ==
  /\ Idle /\ stop[p] = "ceiling"
  /\ stop' = [stop EXCEPT ![p] = "leaked"]
  /\ Settled(stop')
  /\ UNCHANGED <<managedVars, pending, loopVars, settleVars, callVars, procVars,
                 spawned, pipeVars>>
-----------------------------------------------------------------------------
(* The children (the environment): they answer each request at most once,   *)
(* and may write lines nobody asked for.                                    *)

Write(p, l) ==
  /\ Idle /\ Live(p)
  /\ out' = [out EXCEPT ![p] = Append(@, l)]
  /\ bigLines' = [bigLines EXCEPT ![p] = IF OverCap(l.size) THEN @ + 1 ELSE @]

Answer(p, c, kind, size) ==
  /\ c \in inbox[p]
  /\ InOrder => \A d \in inbox[p] : id[c] <= id[d]
  /\ Write(p, [kind |-> kind, id |-> id[c], to |-> c, size |-> size])
  /\ inbox' = [inbox EXCEPT ![p] = @ \ {c}]
  /\ bigAnswers' = IF OverCap(size) THEN bigAnswers \cup {c} ELSE bigAnswers
  /\ UNCHANGED <<managedVars, pending, loopVars, settleVars, callVars, procVars,
                 mapVars, stopVars, part, chatter>>

Chatter(p, kind, size) ==
  /\ chatter[p] < MaxChatter
  /\ chatter' = [chatter EXCEPT ![p] = @ + 1]
  /\ Write(p, [kind |-> kind, id |-> IF kind = "request" THEN chatter'[p] ELSE 0,
               to |-> NoCall, size |-> size])
  /\ UNCHANGED <<managedVars, pending, loopVars, settleVars, callVars, procVars,
                 mapVars, stopVars, inbox, part, bigAnswers>>
-----------------------------------------------------------------------------
Call == \E c \in Calls, s \in Servers :
          CallBroken(c, s) \/ CallReuse(c, s) \/ CallNoStdin(c, s) \/ CallSpawn(c, s)
HandleLine == SkipBlank \/ HandleOversized \/ HandleNonJson \/ HandleJson
Bytes(p, j) == 0..(IF j < Len(out[p]) THEN out[p][j + 1].size ELSE 0)
Data(p) ==
  \/ \E k \in Bytes(p, 0) : DiscardChunk(p, k)
  \/ \E j \in 0..Len(out[p]) : \E k \in Bytes(p, j) : ReceiveChunk(p, j, k)
Child(p) ==
  \/ \E c \in Calls, kind \in Answers, size \in Sizes : Answer(p, c, kind, size)
  \/ \E kind \in ChatterKinds, size \in ChatterSizes : Chatter(p, kind, size)
  \/ \E how \in {"code", "signal"} : Exits(p, how)
  \/ StdinError(p)
Timers == \/ \E c \in Calls : TimeoutFires(c)
          \/ \E p \in Procs : GraceExpires(p) \/ CeilingExpires(p)

Next ==
  \/ Call
  \/ \E p \in Procs : Data(p) \/ Child(p)
  \/ HandleLine
  \/ EndChunk
  \/ Timers
  \/ Shutdown

Spec == Init /\ [][Next]_vars

(* A running handler finishes, and the timers of the event loop fire.       *)
(* Nothing is assumed of the children, the callers or the operator.         *)
Fairness ==
  /\ WF_vars(HandleLine) /\ WF_vars(EndChunk)
  /\ \A c \in Calls : WF_vars(TimeoutFires(c))
  /\ \A p \in Procs : WF_vars(GraceExpires(p)) /\ WF_vars(CeilingExpires(p))

FairSpec == Spec /\ Fairness
-----------------------------------------------------------------------------
(* Type invariant, in three parts: processes, calls, children.              *)
ManagedType ==
  /\ cur \in [Servers -> 0..MaxProcs] /\ spawned \in 0..MaxProcs
  /\ nextId \in [Procs -> Nat] /\ pending \in [Procs -> SUBSET Calls]
  /\ buffer \in [Procs -> Nat] /\ nonJson \in [Procs -> Nat]
  /\ sawJson \in [Procs -> BOOLEAN] /\ broken \in [Procs -> BOOLEAN]
  /\ discarding \in [Procs -> BOOLEAN]
  /\ phase \in {"running", "stopping", "cleared"}
  /\ stop \in [Procs -> {"no", "grace", "ceiling", "exited", "leaked"}]

CallType ==
  /\ owner \in [Calls -> 0..MaxProcs] /\ id \in [Calls -> Nat]
  /\ armed \in SUBSET Calls
  /\ outcome \in [Calls -> Outcomes] /\ settles \in [Calls -> Nat]
  /\ got \in [Calls -> Calls \cup {NoCall}]

ChildType ==
  /\ handler \in 0..MaxProcs /\ lines \in Seq(Line)
  /\ exit \in [Procs -> {"running", "code", "signal"}]
  /\ stdinOpen \in [Procs -> BOOLEAN] /\ signalled \in [Procs -> BOOLEAN]
  /\ inbox \in [Procs -> SUBSET Calls] /\ out \in [Procs -> Seq(Line)]
  /\ part \in [Procs -> Nat] /\ chatter \in [Procs -> Nat]
  /\ bigLines \in [Procs -> Nat] /\ bigAnswers \in SUBSET Calls

TypeOK == ManagedType /\ CallType /\ ChildType

(* No more of a line is delivered than was written. *)
PartFits == \A p \in Procs : part[p] \in Bytes(p, 0)

Waiting == {c \in Calls : outcome[c] = "waiting"}

(* Exactly once: a promise that is pending has never been settled, is in    *)
(* the pending map of the one process it was sent to, and has its timer     *)
(* armed; any other has been settled once (if it was ever issued) and has   *)
(* neither.  Nine code paths settle promises, each clearing timer and map   *)
(* entry by hand.                                                           *)
ExactlyOnce ==
  /\ armed = Waiting
  /\ \A c \in Calls : settles[c] = IF outcome[c] \in {"idle", "waiting"} THEN 0 ELSE 1
  /\ \A p \in Procs : pending[p] = {c \in Waiting : owner[c] = p}

(* A resolved call got the response to its own request, although every      *)
(* process numbers its requests from 1 and late output of a dead process is *)
(* still read: transport.ts, "call() returns the raw result field from the  *)
(* upstream JSON-RPC response".                                             *)
OwnResponse == \A c \in Calls : outcome[c] = "resolved" => got[c] = c

(* The cap costs at most one call per oversized line, whichever of the two  *)
(* checks sees it first and however the line is cut into chunks.            *)
SizeRejections(p) == {c \in Calls : owner[c] = p /\ outcome[c] = "size"}
OneCallPerOversizedLine ==
  \A p \in Procs : Cardinality(SizeRejections(p)) <= bigLines[p]

(* When the children answer in order and make no requests of their own, and *)
(* no call follows shutdown(), the call that pays for an oversized line is  *)
(* the one it answers.  Two things make another pay, and nothing else does: *)
(* an oversized line that answers nobody, and the late oversized answer of  *)
(* a call that timed out (rejectOldestPending's comment owns to the first,  *)
(* "fallback hazard").                                                      *)
OversizedChatter(p) == bigLines[p] > Cardinality({c \in bigAnswers : owner[c] = p})
OversizedLate(p) == \E c \in bigAnswers : owner[c] = p /\ outcome[c] = "timeout"
OffenderPays ==
  \A c \in Calls : outcome[c] = "size" =>
    c \in bigAnswers \/ OversizedChatter(owner[c]) \/ OversizedLate(owner[c])

(* The buffer holds exactly the delivered part of the current line, or      *)
(* nothing while the rest of an over-cap line is being dropped: no bytes of *)
(* one line are ever counted or parsed as another's.                        *)
BufferIsPart ==
  \A p \in Procs : handler # p =>
    buffer[p] = IF discarding[p] THEN 0 ELSE part[p]

(* A process declared broken keeps no call waiting and was never the source *)
(* of an answer.                                                            *)
BrokenServedNobody ==
  \A p \in Procs : broken[p] =>
    \A c \in Calls : owner[c] = p => outcome[c] \notin {"waiting", "resolved", "error"}

(* "No silent respawn": until shutdown clears the map, a broken process is  *)
(* never replaced, although it was killed and has exited.                   *)
BrokenIsFinal ==
  [][\A s \in Servers : cur[s] # 0 /\ broken[cur[s]] /\ phase' # "cleared"
                          => cur'[s] = cur[s]]_vars

(* The bridge never has two live children under one name: a process that is *)
(* alive is the one in the map.                                             *)
OneLiveChild ==
  phase # "cleared" => \A p \in Procs : Live(p) => p \in Managed

(* When shutdown() resolves, every child has exited or was reported leaked  *)
(* after SIGKILL, and no call is left waiting.                              *)
ShutdownLeavesNothing ==
  phase = "cleared" =>
    /\ \A p \in Procs : Live(p) => stop[p] = "leaked"
    /\ Waiting = {}

(* No call is turned away for want of stdin once the process it would use   *)
(* is dead: getOrSpawn replaces a process that died.                        *)
DeadIsReplaced ==
  [][\A c \in Calls : outcome[c] = "idle" /\ outcome'[c] = "stdin"
                        => exit[owner'[c]] = "running"]_vars

-----------------------------------------------------------------------------
(* The strengthening that makes ExactlyOnce, OwnResponse, OneLiveChild and  *)
(* BrokenServedNobody inductive.                                            *)

(* Requests are numbered apart within a process; a call not yet made has    *)
(* none, and a child only holds requests that were sent to it.              *)
RequestsKnown ==
  /\ \A c \in Calls : owner[c] <= spawned
  /\ \A c \in Calls : outcome[c] = "idle" => owner[c] = 0
  /\ \A c \in Calls : outcome[c] \in {"waiting", "resolved", "error"} => owner[c] # 0
  /\ \A c \in Calls : owner[c] # 0 => id[c] < nextId[owner[c]]
  /\ \A c, d \in Calls : owner[c] # 0 /\ owner[c] = owner[d] /\ id[c] = id[d] => c = d
  /\ \A p \in Procs : \A c \in inbox[p] : owner[c] = p

(* A line that answers carries the id of the call it answers. *)
Truthful(p, l) ==
  /\ l.kind \in Answers => l.to \in Calls /\ owner[l.to] = p /\ id[l.to] = l.id
  /\ l.kind = "request" => "request" \in ChatterKinds
LinesTruthful ==
  /\ \A p \in Procs : \A i \in 1..Len(out[p]) : Truthful(p, out[p][i])
  /\ \A i \in 1..Len(lines) : handler # 0 => Truthful(handler, lines[i])

(* A process is fresh until it is spawned. *)
SpawnedInOrder ==
  /\ handler <= spawned
  /\ \A s \in Servers : cur[s] <= spawned
  /\ \A p \in Procs : p > spawned => exit[p] = "running" /\ stdinOpen[p] /\ ~broken[p]

(* A process without a stdin holds no calls, and a dead one has no stdin. *)
DeadHoldNothing ==
  /\ \A p \in Procs : ~stdinOpen[p] => pending[p] = {}
  /\ \A p \in Procs : exit[p] # "running" => ~stdinOpen[p]

AnswersAreJson ==
  \A c \in Calls : outcome[c] \in {"resolved", "error"} => sawJson[owner[c]]

(* What shutdown() has still to wait for (when no call is made after it). *)
StopKnown ==
  /\ phase = "running" => \A p \in Procs : stop[p] = "no"
  /\ phase # "running" => Waiting = {}
  /\ phase = "stopping" =>
       \A p \in Procs : Live(p) => stop[p] \in {"grace", "ceiling", "leaked"}
  /\ phase = "cleared" => \A p \in Procs : Live(p) => stop[p] = "leaked"

IInv ==
  /\ TypeOK /\ PartFits /\ ExactlyOnce /\ RequestsKnown /\ LinesTruthful
  /\ SpawnedInOrder /\ DeadHoldNothing /\ AnswersAreJson /\ BrokenServedNobody
  /\ OneLiveChild
-----------------------------------------------------------------------------
(* Every call settles: the 30s timer is the backstop for a child that never *)
(* answers.                                                                 *)
EveryCallSettles == \A c \in Calls : outcome[c] = "waiting" ~> outcome[c] # "waiting"

(* shutdown() resolves, whatever the children do.                           *)
ShutdownEnds == phase = "stopping" ~> phase = "cleared"

(* The bridge as a transport.                                               *)
State(c) == CASE outcome[c] \in {"idle", "waiting", "resolved"} -> outcome[c]
              [] OTHER -> "rejected"
T == INSTANCE Transport WITH state <- [c \in Calls |-> State(c)], reply <- got
TransportSpec == T!Spec
=============================================================================
