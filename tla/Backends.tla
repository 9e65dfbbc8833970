------------------------------ MODULE Backends ------------------------------
(***************************************************************************)
(* The proxy between the agent and its servers: the start that builds the  *)
(* bridges (index.ts), the way of a tools/call to a server (server.ts) and *)
(* the composite transport over the two bridges (transport.ts).            *)
(*                                                                         *)
(* The HTTP bridge is HttpBridge.  The stdio bridge is taken by what it    *)
(* promises, Transport, which StdioBridge is shown to implement.  What     *)
(* else may stop a call, the sanitizers and the path guard, is module      *)
(* Proxy's; here it is a choice.                                           *)
(***************************************************************************)
EXTENDS HttpBridge, Routing

CONSTANTS
  Tools,    \* the tool names agents ask for
  Configs   \* [defs, routes, allowed]: what the environment may configure

(* What parseServerDefs, parseServerRoutes and the allowlist let through.   *)
ToolPattern == [text : Seq(STRING), stars : Nat]
ServerDef   == [name : STRING, transport : {"stdio", "http"}]
ServerRoute == [pattern : ToolPattern, server : STRING]

ASSUME BackendsAssumption ==
  Configs \subseteq [defs : Seq(ServerDef), routes : Seq(ServerRoute), allowed : SUBSET ToolPattern]

VARIABLES
  phase,    \* "boot", "failed", "serving", "stopping" or "stopped"
  cfg,      \* the configuration the process was started with
  req,      \* req[c]: the tool asked for, where the call went, to which server
  st, sreply \* the stdio bridge's calls, as Transport has them

Stdio == INSTANCE Transport WITH state <- st, reply <- sreply

backendVars == <<phase, cfg, req, st, sreply, http>>

NoTool == <<>>
Fates  == {"none", "blocked", "stopped", "no_backend", "no_route", "stdio", "http"}

BackendsInit ==
  /\ phase = "boot"
  /\ cfg \in Configs
  /\ req = [c \in Calls |-> [tool |-> NoTool, fate |-> "none", server |-> NoServer]]
  /\ Stdio!Init
  /\ HttpInit
-----------------------------------------------------------------------------
(* validateServerConfig throws before a bridge or a listener exists. *)
Boot ==
  /\ phase = "boot"
  /\ phase' = IF validateServerConfig(cfg.defs, cfg.routes) THEN "serving" ELSE "failed"
  /\ UNCHANGED <<cfg, req, st, sreply, http>>

(* Mutant: the routes are tried in the order they were written in. *)
ServerOfUnsorted(tool) == resolveRoute(tool, cfg.routes)
ServerOf(tool) == resolveRoute(tool, sortRoutes(cfg.routes))

(* A request is taken up: phase is not consulted, so one that arrives while *)
(* the bridges shut down goes the same way.                                 *)
Takes(c, tool, fate, server) ==
  /\ phase \in {"serving", "stopping", "stopped"}
  /\ req[c].fate = "none"
  /\ req' = [req EXCEPT ![c] = [tool |-> tool, fate |-> fate, server |-> server]]
  /\ UNCHANGED <<phase, cfg>>

Answered == UNCHANGED <<st, sreply, http>>

NotAllowed(c, tool) ==
  ~checkAllowlist(tool, cfg.allowed) /\ Takes(c, tool, "blocked", NoServer) /\ Answered

(* The sanitizer or the path guard stops the call. *)
ArgumentsStop(c, tool) ==
  checkAllowlist(tool, cfg.allowed) /\ Takes(c, tool, "stopped", NoServer) /\ Answered

NoBackend(c, tool) ==
  /\ checkAllowlist(tool, cfg.allowed) /\ cfg.defs = <<>>
  /\ Takes(c, tool, "no_backend", NoServer) /\ Answered

NoRoute(c, tool) ==
  /\ checkAllowlist(tool, cfg.allowed) /\ cfg.defs # <<>> /\ ServerOf(tool) = NoServer
  /\ Takes(c, tool, "no_route", NoServer) /\ Answered

Forwards(c, tool, fate) ==
  /\ checkAllowlist(tool, cfg.allowed) /\ cfg.defs # <<>> /\ ServerOf(tool) # NoServer
  /\ Takes(c, tool, fate, ServerOf(tool))

(* The bridge that owns the name takes the call.  The stdio bridge may      *)
(* refuse it at once: it is stopping, the server is down, stdin is full.    *)
ToStdio(c, tool) ==
  /\ ServerOf(tool) \in Owned(cfg.defs, "stdio")
  /\ Forwards(c, tool, "stdio")
  /\ Stdio!Refuse(c) \/ (phase = "serving" /\ Stdio!Issue(c))
  /\ UNCHANGED http

(* A name no bridge owns is rejected at once, as the HTTP bridge does. *)
ToHttp(c, tool) ==
  /\ ServerOf(tool) \notin Owned(cfg.defs, "stdio")
  /\ Forwards(c, tool, "http")
  /\ Post(c, ServerOf(tool) \in Owned(cfg.defs, "http"))
  /\ UNCHANGED <<st, sreply>>

Handle(c, tool) ==
  \/ NotAllowed(c, tool) \/ ArgumentsStop(c, tool) \/ NoBackend(c, tool) \/ NoRoute(c, tool)
  \/ ToStdio(c, tool) \/ ToHttp(c, tool)
-----------------------------------------------------------------------------
(* An answer, an exit, a write that fails or the request timeout of stdio. *)
StdioSettles(c) ==
  /\ Stdio!Resolve(c) \/ Stdio!Reject({c})
  /\ UNCHANGED <<phase, cfg, req, http>>

HttpUpstream(c) == Upstream(c) /\ UNCHANGED <<phase, cfg, req, st, sreply>>
HttpTimesOut(c) == TimesOut(c) /\ UNCHANGED <<phase, cfg, req, st, sreply>>

(* shutdown() of both bridges: stdio fails every call it has, HTTP none. *)
Shutdown ==
  /\ phase = "serving" /\ phase' = "stopping"
  /\ Stdio!Reject({c \in Calls : st[c] = "waiting"})
  /\ UNCHANGED <<cfg, req, http>>

(* Both are done, one of them with a failure perhaps: allSettled. *)
BridgesDown ==
  /\ phase = "stopping" /\ phase' = "stopped"
  /\ UNCHANGED <<cfg, req, st, sreply, http>>

BackendsNext ==
  \/ Boot \/ Shutdown \/ BridgesDown
  \/ \E c \in Calls :
       \/ \E tool \in Tools : Handle(c, tool)
       \/ StdioSettles(c) \/ HttpUpstream(c) \/ HttpTimesOut(c)

BackendsSpec == BackendsInit /\ [][BackendsNext]_backendVars

(* The stdio bridge settles every call (StdioBridge!EveryCallSettles), and  *)
(* an armed timer fires.  No upstream has to do anything.                   *)
BackendsFair ==
  \A c \in Calls : WF_backendVars(StdioSettles(c)) /\ WF_backendVars(HttpTimesOut(c))

FairBackends == BackendsSpec /\ BackendsFair
-----------------------------------------------------------------------------
(* p is to be tried before q: an exact name, or the longer prefix.  A       *)
(* pattern that ends in several stars is longer than what it matches by.    *)
MoreSpecific(p, q) ==
  \/ p.stars = 0
  \/ p.stars > 0 /\ q.stars > 0 /\ (Len(p.text) >= Len(q.text) \/ p.stars > 1)

Matching(tool) == {k \in DOMAIN cfg.routes : matchesPattern(tool, cfg.routes[k].pattern)}

(* A call reaches a server only if the allowlist has its tool, and then the *)
(* declared server of a route that no other matching route is more specific *)
(* than, through the bridge of that server's transport.  A call is without  *)
(* a route only if none matches or the one that does names the empty        *)
(* server, and no call is ever forwarded to a name its bridge has not.      *)
OwnServer ==
  \A c \in Calls : LET r == req[c] IN
    /\ r.fate = "blocked" <=>
         r.fate # "none" /\ (r.tool = <<>> \/ \A p \in cfg.allowed : ~matchesPattern(r.tool, p))
    /\ r.fate \in {"stdio", "http"} =>
         /\ \E i \in DOMAIN cfg.defs : cfg.defs[i] = [name |-> r.server, transport |-> r.fate]
         /\ \E k \in Matching(r.tool) :
              /\ cfg.routes[k].server = r.server
              /\ \A j \in Matching(r.tool) :
                   MoreSpecific(cfg.routes[k].pattern, cfg.routes[j].pattern)
    /\ r.fate = "no_route" =>
         Matching(r.tool) = {} \/ \E k \in Matching(r.tool) : cfg.routes[k].server = NoServer
    /\ http[c].why # "unknown"

(* The promise of call(), whichever bridge has it. *)
state == [c \in Calls |-> IF req[c].fate = "stdio" THEN st[c] ELSE httpState[c]]
reply == [c \in Calls |-> IF req[c].fate = "stdio" THEN sreply[c] ELSE httpReply[c]]

Composite == INSTANCE Transport

(* The two bridges behind one call() keep what each promises: a promise     *)
(* settles once, and with the result of the call it was made for.           *)
CompositeIsTransport == Composite!Spec

(* Every call that reaches a server is answered, with the bridges shutting  *)
(* down or not, and with an upstream that stops at any byte.                *)
EveryForwardSettles ==
  \A c \in Calls : req[c].fate \in {"stdio", "http"} ~> state[c] \in {"resolved", "rejected"}
=============================================================================
