---------------------------- MODULE ProxyProcess ----------------------------
(***************************************************************************)
(* The proxy process (src/index.ts): it serves until SIGTERM or SIGINT,    *)
(* closes the HTTP server, and when the last connection is gone shuts the  *)
(* bridge and the observers down and exits with 0; a timer started by the  *)
(* signal forces exit 1 after 5s.                                          *)
(*                                                                         *)
(* Of the stdio bridge, modelled in StdioBridge, there is here the child   *)
(* that keeps the shutdown waiting.  It gets a SIGTERM; its SIGKILL comes  *)
(* 5s after the bridge's shutdown began, later than the forced exit.       *)
(***************************************************************************)
EXTENDS Proxy

CONSTANT MaxSignals \* bound: signals the process gets

ASSUME ProcessAssumption == MaxSignals \in Nat

VARIABLES
  phase,   \* "serving", "closing", "stopping", "exited"
  stopped, \* bridge.shutdown() has been called
  child,   \* a child process runs
  flushes, \* the pushes that each run of the shutdown tasks waits for
  cut,     \* the calls still at a bridge when the tasks began (history)
  signals, \* number of signals
  code     \* the exit code

processVars == <<phase, stopped, child, flushes, cut, signals, code>>
vars        == <<proxyVars, processVars>>

NoCode == 999

Init ==
  /\ ProxyInit
  /\ phase = "serving" /\ stopped = FALSE /\ child = FALSE
  /\ flushes = {} /\ cut = {} /\ signals = 0 /\ code = NoCode
-----------------------------------------------------------------------------
(* server.close() ends idle connections; one that was busy may carry more   *)
(* requests until it is closed.                                             *)
Serving == phase \in {"serving", "closing"}

Handles(r)     == Serving /\ Handle(r) /\ UNCHANGED processVars
Settled(r)     == phase # "exited" /\ Settles(r) /\ UNCHANGED processVars
Disconnects(r) == phase # "exited" /\ Disconnect(r) /\ UNCHANGED processVars
PushSettled(e) == phase # "exited" /\ PushEnds(e) /\ UNCHANGED processVars

Forwards(r, via) ==
  /\ Serving
  /\ Forward(r, via)
  /\ child' = (child \/ via = "stdio")
  /\ UNCHANGED <<phase, stopped, flushes, cut, signals, code>>

(* Children exit when they like, and after SIGTERM as a rule. *)
ChildExits ==
  /\ child /\ child' = FALSE
  /\ UNCHANGED <<proxyVars, phase, stopped, flushes, cut, signals, code>>
-----------------------------------------------------------------------------
(* What eventBridge.flush() waits for: pending.splice(0). *)
Pending == pushes \ UNION flushes

(* Mutant: the bridge is shut down first, before the server has closed. *)
SignalStops ==
  /\ phase = "serving" /\ signals < MaxSignals
  /\ signals' = signals + 1
  /\ phase' = "closing" /\ stopped' = TRUE
  /\ UNCHANGED <<proxyVars, child, flushes, cut, code>>

Signal ==
  /\ phase = "serving" /\ signals < MaxSignals
  /\ signals' = signals + 1
  /\ phase' = "closing"
  /\ UNCHANGED <<proxyVars, stopped, child, flushes, cut, code>>

(* A second one before the server has closed: the tasks will run twice.     *)
(* Later, they run again at once.                                           *)
SignalAgain ==
  /\ phase \in {"closing", "stopping"} /\ signals < MaxSignals
  /\ signals' = signals + 1
  /\ flushes' = IF phase = "stopping" THEN flushes \cup {Pending} ELSE flushes
  /\ UNCHANGED <<proxyVars, phase, stopped, child, cut, code>>

(* Mutant: does not wait for the connections that are busy. *)
DrainedAnyway == TRUE
Drained == \A r \in Requests : ~req[r].connected

(* Mutant: the event bridge is not flushed. *)
FlushesNothing == {{}}
Flushes == {Pending} \cup (IF signals > 1 THEN {{}} ELSE {})

(* The callback of server.close().  bridge.shutdown() rejects what waits at *)
(* the stdio bridge; those .catch callbacks run, and push their events,     *)
(* only after eventBridge.shutdown() has taken what it waits for.           *)
RunTasks ==
  LET busy == {r \in Requests : req[r].stage = "call"}
      late == {r \in busy : req[r].via = "stdio"} IN
  /\ phase = "closing" /\ Drained
  /\ phase' = "stopping" /\ stopped' = TRUE
  /\ flushes' = Flushes
  /\ cut' = busy
  /\ \E trace \in [late -> Statuses \cup {"none", "open"}] :
       /\ \A r \in late : trace[r] \in Ended(req[r].trace, Failures.other.audits)
       /\ req' = [r \in Requests |-> IF r \in late
                                     THEN Answered(req[r], Failures.other, trace[r])
                                     ELSE req[r]]
  /\ pushes' = pushes \cup UNION {Pushed(r, Failures.other.audits) : r \in late}
  /\ UNCHANGED <<child, signals, code>>

Ready == ~child /\ \E waits \in flushes : waits \cap pushes = {}

(* allSettled: the bridge's child and the pushes.  The tracer is bounded by *)
(* its own timers, the recorder does not wait.                              *)
ExitClean ==
  /\ phase = "stopping" /\ Ready
  /\ phase' = "exited" /\ code' = 0
  /\ UNCHANGED <<proxyVars, stopped, child, flushes, cut, signals>>

(* Mutant: the timer is cleared once the server has closed. *)
TimerCleared == phase = "closing"
TimerRuns    == phase \in {"closing", "stopping"}

ForceExit ==
  /\ TimerRuns
  /\ phase' = "exited" /\ code' = 1
  /\ UNCHANGED <<proxyVars, stopped, child, flushes, cut, signals>>
-----------------------------------------------------------------------------
Next ==
  \/ \E r \in Requests :
       \/ Handles(r) \/ Settled(r) \/ Disconnects(r)
       \/ \E via \in Bridges : Forwards(r, via)
  \/ \E e \in Events : PushSettled(e)
  \/ ChildExits
  \/ Signal \/ SignalAgain \/ RunTasks \/ ExitClean \/ ForceExit

Spec == Init /\ [][Next]_vars

(* The 5s timer fires.  Nothing is assumed of clients, of the bridges and   *)
(* their servers, or of the dashboard.                                      *)
Fairness == WF_vars(ForceExit)
FairSpec == Spec /\ Fairness
-----------------------------------------------------------------------------
TypeOK ==
  /\ ProxyType
  /\ phase \in {"serving", "closing", "stopping", "exited"}
  /\ stopped \in BOOLEAN /\ child \in BOOLEAN
  /\ flushes \in SUBSET SUBSET Events
  /\ cut \in SUBSET Requests
  /\ signals \in 0..MaxSignals /\ code \in {0, 1, NoCode}

(* "Flush + close audit log fd before exit so no entries are lost": a clean *)
(* exit finds every request audited, also those whose client is gone and    *)
(* those the shutdown rejects; but not a call at the HTTP bridge whose      *)
(* client is gone: nobody waits for it.  (Audited means handed to logger.ts: *)
(* what becomes of it there is told in AuditLog.)                            *)
EntriesNotLost ==
  code = 0 => \A r \in Requests : req[r].stage = "call" => req[r].via = "http" /\ ~req[r].connected

(* A clean exit loses no event of a request that was over when the shutdown *)
(* tasks began.  (Those of the calls the tasks reject, or leave at the HTTP *)
(* bridge, come too late to be waited for; a second signal gives up on the  *)
(* rest.)                                                                   *)
EventsFlushed ==
  code = 0 /\ signals = 1 => \A e \in pushes : e[1] \in cut

(* The server is closed before the bridge: no call arrives at a bridge that *)
(* has been shut down, where it would start a child nobody ends.            *)
NoLateCalls == [][stopped => \A r \in Requests : req[r].stage = "none" => req'[r].stage # "call"]_vars

(* A signal ends the process, whatever clients, servers and the dashboard   *)
(* do.                                                                      *)
SignalEnds == phase = "closing" ~> phase = "exited"
=============================================================================
