---------------------------- MODULE ControlPlane ----------------------------
(***************************************************************************)
(* The control plane (src/orchestrator/control-plane.ts) and the session   *)
(* registry it writes (src/orchestrator/session-registry.ts): POST and     *)
(* DELETE /sessions over HTTP, an in-memory map of limited capacity, and   *)
(* one audit entry per change.                                             *)
(*                                                                         *)
(* Every handler is synchronous, so each is one action.  A request that is *)
(* on its way is in `wire`; the status that comes back is in `reply`, if   *)
(* the client still waits for it.  It has one request outstanding.         *)
(***************************************************************************)
EXTENDS Naturals, FiniteSets

CONSTANTS
  Sessions,    \* session ids
  MaxSessions, \* capacity of the registry
  MaxRestarts  \* bound: restarts of the proxy process

ASSUME ControlPlaneAssumption == MaxSessions \in Nat /\ MaxRestarts \in Nat

VARIABLES
  registry, \* the sessions registered
  audited,  \* audited[s]: the last audit entry about s
  lost,     \* sessions whose registration went with a restart (history)
  restarts, \* number of restarts
  wire,     \* requests not yet handled: <<method, session>>
  waiting,  \* the clients that wait for an answer
  reply     \* reply[s]: status on its way to the client of s, 0 if none

planeVars    == <<registry, audited, lost, restarts>>
httpVars     == <<wire, waiting, reply>>
controlPlane == <<planeVars, httpVars>>

Methods  == {"POST", "DELETE"}
Statuses == {201, 204, 400, 401, 500}
Request  == Methods \X Sessions

PlaneInit ==
  /\ registry = {} /\ lost = {} /\ restarts = 0
  /\ audited = [s \in Sessions |-> "none"]
  /\ wire = {} /\ waiting = {} /\ reply = [s \in Sessions |-> 0]
-----------------------------------------------------------------------------
Respond(m, s, status) ==
  /\ <<m, s>> \in wire
  /\ wire' = wire \ {<<m, s>>}
  /\ reply' = IF s \in waiting THEN [reply EXCEPT ![s] = status] ELSE reply
  /\ UNCHANGED waiting

emitControlPlaneAudit(s, action) == audited' = [audited EXCEPT ![s] = action]

(* register() overwrites, and throws only when a new session finds no room. *)
HasRoom(s) == s \in registry \/ Cardinality(registry) < MaxSessions

PostSession(s) ==
  /\ HasRoom(s)
  /\ Respond("POST", s, 201)
  /\ registry' = registry \cup {s}
  /\ emitControlPlaneAudit(s, "register")
  /\ lost' = lost \ {s}
  /\ UNCHANGED restarts

PostRejected(s) ==
  /\ ~HasRoom(s)
  /\ Respond("POST", s, 400)
  /\ UNCHANGED planeVars

(* Mutant: audits a DELETE that removes nothing. *)
DeleteAudited(s) ==
  /\ Respond("DELETE", s, 204)
  /\ registry' = registry \ {s}
  /\ emitControlPlaneAudit(s, "deregister")
  /\ UNCHANGED <<lost, restarts>>

(* Always 204; audited only if a session was removed. *)
DeleteSession(s) ==
  /\ Respond("DELETE", s, 204)
  /\ registry' = registry \ {s}
  /\ IF s \in registry THEN emitControlPlaneAudit(s, "deregister") ELSE UNCHANGED audited
  /\ UNCHANGED <<lost, restarts>>

(* authMiddleware's 401 and the error handler's 500: nothing is changed. *)
Unserved(m, s, status) ==
  /\ Respond(m, s, status)
  /\ UNCHANGED planeVars

(* The proxy process dies and comes back: "No persistence: a process restart *)
(* loses registrations".                                                     *)
Restart ==
  /\ restarts < MaxRestarts /\ restarts' = restarts + 1
  /\ lost' = lost \cup registry
  /\ registry' = {}
  /\ wire' = {} /\ reply' = [s \in Sessions |-> 0]
  /\ UNCHANGED <<audited, waiting>>

Serve(s) ==
  \/ PostSession(s) \/ PostRejected(s) \/ DeleteSession(s)
  \/ \E m \in Methods, status \in {401, 500} : Unserved(m, s, status)
-----------------------------------------------------------------------------
PlaneType ==
  /\ registry \in SUBSET Sessions /\ lost \in SUBSET Sessions
  /\ restarts \in 0..MaxRestarts
  /\ audited \in [Sessions -> {"none", "register", "deregister"}]
  /\ wire \in SUBSET Request /\ waiting \in SUBSET Sessions
  /\ reply \in [Sessions -> Statuses \cup {0}]

(* The audit log tells who is registered: a session is, or was until the    *)
(* proxy restarted, exactly if its last entry is a registration.  Retries   *)
(* and no-op DELETEs leave no trace of changes that were not made.          *)
AuditTellsRegistry ==
  \A s \in Sessions : audited[s] = "register" <=> s \in registry \cup lost
=============================================================================
