-------------------------------- MODULE Proxy --------------------------------
(***************************************************************************)
(* The request pipeline of the MCP proxy (src/mcp-proxy/server.ts): what   *)
(* becomes of a POST /mcp, and what the observers hear of it: the audit    *)
(* log (logger.ts), the trace (observability/langfuse.ts) and the events   *)
(* pushed to the dashboard (dashboard/event-bridge.ts).                    *)
(*                                                                         *)
(* The handler is synchronous up to bridge.call(); each callback of that   *)
(* promise is synchronous too.  The contents of a request and of a result  *)
(* are abstracted to the verdict they get.                                 *)
(***************************************************************************)
EXTENDS Naturals, Sequences

CONSTANTS
  Requests,   \* the POSTs that may arrive
  TraceFaults \* TRUE: startTrace and end may fail inside the tracer

VARIABLES
  req,   \* req[r]: what is known of r, of type Request
  pushes \* events whose push is under way: <<r, i>> for the i-th entry of r

proxyVars == <<req, pushes>>

Statuses == {"allowed", "blocked", "flagged", "error"}
Bridges  == {"stdio", "http"}

(* What the synchronous part finds: the entry it audits, if any, and the    *)
(* answer it gives, named after the JSON-RPC code.                          *)
Verdicts ==
  [invalid     |-> [audits |-> <<>>,          reply |-> "parse"],       \* -32700
   unsupported |-> [audits |-> <<>>,          reply |-> "method"],      \* -32601
   allowlist   |-> [audits |-> <<"blocked">>, reply |-> "refused"],     \* -32600
   injection   |-> [audits |-> <<"flagged">>, reply |-> "refused"],
   path_guard  |-> [audits |-> <<"blocked">>, reply |-> "refused"],
   no_route    |-> [audits |-> <<"blocked">>, reply |-> "refused"],
   no_backend  |-> [audits |-> <<"allowed">>, reply |-> "internal"],    \* -32603
   exception   |-> [audits |-> <<"error">>,   reply |-> "internal"]]

(* Mutant: a result the sanitizer fails on is passed through. *)
FailsOpen ==
  [clean       |-> [audits |-> <<"allowed">>, reply |-> "result"],
   flagged     |-> [audits |-> <<"flagged">>, reply |-> "rejected"],
   unwalkable  |-> [audits |-> <<"error">>,   reply |-> "result"],
   unprintable |-> [audits |-> <<"allowed", "error">>, reply |-> "internal"]]

(* What the result of the call becomes.  An exception out of res.json (a    *)
(* result nested too deep to print) comes after the entry "allowed" and is  *)
(* caught by .catch, which audits again, though docs/observability.md has   *)
(* every request emit exactly one entry.                                    *)
Results ==
  [clean       |-> [audits |-> <<"allowed">>, reply |-> "result"],
   flagged     |-> [audits |-> <<"flagged">>, reply |-> "rejected"],    \* -32001
   unwalkable  |-> [audits |-> <<"error">>,   reply |-> "rejected"],
   unprintable |-> [audits |-> <<"allowed", "error">>, reply |-> "internal"]]

Failures ==
  [size  |-> [audits |-> <<"blocked">>, reply |-> "rejected"],
   other |-> [audits |-> <<"error">>,   reply |-> "internal"]]

Replies == {"none", "parse", "method", "refused", "rejected", "internal", "result"}

Request == [stage     : {"none", "call", "done"},
            via       : Bridges \cup {"none"}, \* the bridge it was forwarded to
            connected : BOOLEAN,               \* the client waits
            entries   : Seq(Statuses),
            trace     : Statuses \cup {"none", "open"}, \* its outcome once ended
            reply     : Replies]

Events == Requests \X (1..2)

ProxyInit ==
  /\ req = [r \in Requests |-> [stage |-> "none", via |-> "none", connected |-> FALSE,
                                entries |-> <<>>, trace |-> "none", reply |-> "none"]]
  /\ pushes = {}
-----------------------------------------------------------------------------
(* audit(): the entry is logged, and its event is pushed without waiting.   *)
Pushed(r, audits) == {<<r, i>> : i \in 1..Len(audits)}

(* safeEnd() follows each entry.  end() is idempotent once it has           *)
(* succeeded: the first outcome stays.  One that throws leaves the trace    *)
(* open to the end() of the next entry.                                     *)
EndsWith(audits) ==
  IF TraceFaults THEN {audits[i] : i \in DOMAIN audits} \cup {"open"} ELSE {audits[1]}

Ended(trace, audits) == IF trace = "open" /\ audits # <<>> THEN EndsWith(audits) ELSE {trace}

Answered(r, o, trace) ==
  [r EXCEPT !.stage = "done", !.connected = FALSE,
            !.entries = @ \o o.audits, !.trace = trace, !.reply = o.reply]

Answer(r, q, o) ==
  /\ \E trace \in Ended(q.trace, o.audits) : req' = [req EXCEPT ![r] = Answered(q, o, trace)]
  /\ pushes' = pushes \cup Pushed(r, o.audits)

(* A trace is started for every tools/call; a failure leaves a no-op.       *)
Traced == {"open"} \cup (IF TraceFaults THEN {"none"} ELSE {})

Handle(r) ==
  /\ req[r].stage = "none"
  /\ \E v \in DOMAIN Verdicts, trace \in Traced :
       Answer(r, [req[r] EXCEPT !.trace = IF Verdicts[v].audits = <<>> THEN "none" ELSE trace],
              Verdicts[v])

Forward(r, via) ==
  /\ req[r].stage = "none"
  /\ \E trace \in Traced :
       req' = [req EXCEPT ![r] = [@ EXCEPT !.stage = "call", !.via = via,
                                           !.connected = TRUE, !.trace = trace]]
  /\ UNCHANGED pushes

(* The promise of bridge.call() settles: .then, or .catch. *)
Settles(r) ==
  /\ req[r].stage = "call"
  /\ \/ \E k \in DOMAIN Results : Answer(r, req[r], Results[k])
     \/ \E k \in DOMAIN Failures : Answer(r, req[r], Failures[k])

(* The client goes away; the call goes on. *)
Disconnect(r) ==
  /\ req[r].stage = "call" /\ req[r].connected
  /\ req' = [req EXCEPT ![r].connected = FALSE]
  /\ UNCHANGED pushes

(* A push ends, well or badly. *)
PushEnds(e) ==
  /\ e \in pushes
  /\ pushes' = pushes \ {e}
  /\ UNCHANGED req
-----------------------------------------------------------------------------
ProxyType ==
  /\ req \in [Requests -> Request] /\ \A r \in Requests : Len(req[r].entries) <= 2
  /\ pushes \in SUBSET Events

LastOf(s) == s[Len(s)]

(* The audit log, the trace and the client tell one story of a request:     *)
(* whatever stage answers, and whatever fails in the tracer, a tools/call   *)
(* is answered only with an entry, the last of which bears the answer out   *)
(* (a result reaches the client only as "allowed"), and a trace that has    *)
(* ended has the outcome of one of its entries.  (Of the first, unless the  *)
(* SDK fails in the first end(): module Observers, TraceTellsAudit.)        *)
OneStory ==
  \A r \in Requests : req[r].reply \notin {"none", "parse", "method"} =>
    LET q == req[r] IN
    /\ q.entries # <<>>
    /\ q.reply = "result"   => q.entries = <<"allowed">> /\ q.via # "none"
    /\ q.reply = "rejected" => LastOf(q.entries) # "allowed" /\ q.via # "none"
    /\ q.reply = "refused"  => LastOf(q.entries) \in {"blocked", "flagged"} /\ q.via = "none"
    /\ q.reply = "internal" => LastOf(q.entries) = "error" \/ q.via = "none"
    /\ q.trace \in Statuses => \E i \in DOMAIN q.entries : q.trace = q.entries[i]
=============================================================================
