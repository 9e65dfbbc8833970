------------------------------ MODULE Dispatch ------------------------------
(***************************************************************************)
(* Dispatches: processes of the apd command line (src/dispatch/cli.ts,     *)
(* index.ts), each with its control-plane client (control-plane-client.ts) *)
(* and sandbox runner (sbx-runner.ts), against one control plane and one   *)
(* host.  A dispatch is named by the session it mints.                     *)
(*                                                                         *)
(* Register, write .mcp.json, create the sandbox, open the network, run    *)
(* the agent; then, whatever failed on the way, tear down and deregister.  *)
(* Each stretch between two awaits is an action; what another dispatch,    *)
(* the proxy or a signal does in between is the subject.                   *)
(***************************************************************************)
EXTENDS ControlPlane

CONSTANTS
  NoSession,   \* "nobody"
  SandboxOf,   \* SandboxOf[c]: the sandbox name the manifest of c gives
  WorkspaceOf, \* WorkspaceOf[c]: its workspace
  Forced,      \* the dispatches run with --force
  AgentCodes,  \* exit codes of the agent
  Attempts,    \* requests a client makes before it gives up on 5xx
  Mishaps      \* subset of {"network", "sbx", "noIds", "signal"}

ASSUME DispatchAssumption ==
  /\ NoSession \notin Sessions
  /\ DOMAIN SandboxOf = Sessions /\ DOMAIN WorkspaceOf = Sessions
  /\ Forced \subseteq Sessions
  /\ AgentCodes \subseteq 0..255 /\ Attempts \in Nat \ {0}

VARIABLES
  cli,      \* cli[c]: the state of the process c, of type Cli
  sandbox,  \* sandbox[n]: the dispatch that created the sandbox named n
  policies, \* the dispatches whose network rule is in force
  config    \* config[w]: the session in w's .mcp.json

hostVars == <<sandbox, policies, config>>
vars     == <<controlPlane, cli, hostVars>>

NoCode     == 999 \* no exit code: the process runs
EXIT_CODES == {64, 65, 66, 67, 68, 69, 70}
Codes      == {0} \cup AgentCodes \cup EXIT_CODES \cup {130}
Names      == {SandboxOf[c] : c \in Sessions}
Workspaces == {WorkspaceOf[c] : c \in Sessions}
Someone    == Sessions \cup {NoSession}

Cli == [pc : {"validate", "register", "register400", "config", "create", "policy",
              "exec", "stop", "rm", "revoke", "deregister", "deregister400", "exited"},
        attempt   : 0..Attempts,           \* of the request under way
        seen      : Someone,               \* what was found in .mcp.json
        created   : BOOLEAN,               \* createdSandbox
        ids       : BOOLEAN,               \* policyIds is not empty
        identity  : Someone,               \* what the agent read in .mcp.json
        intended  : Codes,                 \* intendedExit
        leak      : BOOLEAN,               \* cleanupLeak
        signalled : BOOLEAN,               \* signalReceived
        exit      : Codes \cup {NoCode}]

Started == [pc |-> "validate", attempt |-> 0, seen |-> NoSession, created |-> FALSE,
            ids |-> FALSE, identity |-> NoSession, intended |-> 0, leak |-> FALSE,
            signalled |-> FALSE, exit |-> NoCode]

Init ==
  /\ PlaneInit
  /\ cli = [c \in Sessions |-> Started]
  /\ sandbox = [n \in Names |-> NoSession]
  /\ policies = {}
  /\ config = [w \in Workspaces |-> NoSession]

At(c, step)   == cli[c].pc = step
Becomes(c, r) == cli' = [cli EXCEPT ![c] = r]

(* The process ends; a signal received at any time hides the code that     *)
(* runDispatch returns.  created and ids are kept for the properties.       *)
Ended(r, code) ==
  [Started EXCEPT !.pc = "exited", !.created = r.created, !.ids = r.ids,
                  !.exit = IF r.signalled THEN 130 ELSE code]
-----------------------------------------------------------------------------
(* The control-plane client                                                 *)

Send(c, m) ==
  /\ wire' = wire \cup {<<m, c>>}
  /\ waiting' = waiting \cup {c}
  /\ UNCHANGED reply

Method(c) == IF At(c, "register") THEN "POST" ELSE "DELETE"

Receives(c, status) ==
  /\ c \in waiting /\ reply[c] = status
  /\ waiting' = waiting \ {c}
  /\ reply' = [reply EXCEPT ![c] = 0]
  /\ UNCHANGED wire

(* 5xx: sleep, and try again. *)
BackOff(c) ==
  /\ cli[c].attempt < Attempts
  /\ Receives(c, 500)
  /\ UNCHANGED <<planeVars, cli, hostVars>>

(* Mutant: the attempts are not counted. *)
ResendUncounted(c) ==
  /\ cli[c].attempt > 0 /\ c \notin waiting
  /\ Send(c, Method(c))
  /\ UNCHANGED <<planeVars, cli, hostVars>>

Resend(c) ==
  /\ cli[c].attempt > 0 /\ c \notin waiting
  /\ Send(c, Method(c))
  /\ cli' = [cli EXCEPT ![c].attempt = @ + 1]
  /\ UNCHANGED <<planeVars, hostVars>>

(* What makes the client throw at once: the last 5xx, a 401, or no answer,  *)
(* by a connection error or the abort after 5s.  In the last two cases the  *)
(* request may have been handled, may never be, or may be handled yet.      *)
CallFails(c) ==
  \/ cli[c].attempt = Attempts /\ Receives(c, 500)
  \/ Receives(c, 401)
  \/ /\ "network" \in Mishaps /\ c \in waiting
     /\ wire' \in {wire, wire \ {<<Method(c), c>>}}
     /\ waiting' = waiting \ {c}
     /\ reply' = [reply EXCEPT ![c] = 0]

(* After the headers of a 400 the client awaits the text of the answer, to  *)
(* show it (extractServerMessage).  The abort timer is cleared by then.     *)
ReadsBody == [register |-> "register400", deregister |-> "deregister400"]

Refused(c) ==
  /\ cli[c].pc \in DOMAIN ReadsBody
  /\ Receives(c, 400)
  /\ cli' = [cli EXCEPT ![c].pc = ReadsBody[@], ![c].attempt = 0]
  /\ UNCHANGED <<planeVars, hostVars>>
-----------------------------------------------------------------------------
(* runDispatchWithDeps, up to the agent                                     *)

(* Arguments, token, manifest, workspace and port are checked first. *)
Invalid(c) ==
  /\ At(c, "validate")
  /\ \E code \in {64, 65, 68} : Becomes(c, Ended(cli[c], code))
  /\ UNCHANGED <<controlPlane, hostVars>>

Register(c) ==
  /\ At(c, "validate")
  /\ Becomes(c, [cli[c] EXCEPT !.pc = "register", !.attempt = 1])
  /\ Send(c, "POST")
  /\ UNCHANGED <<planeVars, hostVars>>

(* Exit 66, without a look at the registry. *)
RegisterFails(c) ==
  /\ At(c, "register")
  /\ CallFails(c)
  /\ Becomes(c, Ended(cli[c], 66))
  /\ UNCHANGED <<planeVars, hostVars>>

(* Mutant: any answer below 500 will do. *)
AcceptsAny == {201, 400}
Accepts    == {201}

(* 201; writeMcpConfig then looks at the workspace. *)
Registered(c) ==
  /\ At(c, "register")
  /\ \E status \in Accepts : Receives(c, status)
  /\ Becomes(c, [cli[c] EXCEPT !.pc = "config", !.attempt = 0,
                               !.seen = config[WorkspaceOf[c]]])
  /\ UNCHANGED <<planeVars, hostVars>>

(* The end of the finally block, r being the process by then. *)
Deregister(c, r) ==
  /\ Becomes(c, [r EXCEPT !.pc = "deregister", !.attempt = 1, !.seen = NoSession])
  /\ Send(c, "DELETE")
  /\ UNCHANGED planeVars

MayWrite(c) == cli[c].seen \in {NoSession, c} \/ c \in Forced

(* Another session's .mcp.json without --force, or a file-system error. *)
ConfigFails(c) ==
  /\ At(c, "config")
  /\ \E code \in {68, 69} :
       /\ code = 69 => ~MayWrite(c)
       /\ Deregister(c, [cli[c] EXCEPT !.intended = code])
  /\ UNCHANGED hostVars

(* Other processes run between the look and the write. *)
WriteConfig(c) ==
  /\ At(c, "config") /\ MayWrite(c)
  /\ config' = [config EXCEPT ![WorkspaceOf[c]] = c]
  /\ Becomes(c, [cli[c] EXCEPT !.pc = "create", !.seen = NoSession])
  /\ UNCHANGED <<controlPlane, sandbox, policies>>

CreateSandbox(c) ==
  /\ At(c, "create")
  /\ sandbox[SandboxOf[c]] = NoSession
  /\ sandbox' = [sandbox EXCEPT ![SandboxOf[c]] = c]
  /\ Becomes(c, [cli[c] EXCEPT !.pc = "policy", !.created = TRUE])
  /\ UNCHANGED <<controlPlane, policies, config>>

(* Mutant: tears down without asking what was created. *)
TearsDownAlways(r) == TRUE
TearsDown(r) == r.created \/ r.ids

(* The finally block. *)
Cleanup(c, code) ==
  LET r == [cli[c] EXCEPT !.intended = code] IN
  IF TearsDown(r) THEN Becomes(c, [r EXCEPT !.pc = "stop"]) /\ UNCHANGED controlPlane
                  ELSE Deregister(c, r)

(* The name is taken, or sbx fails. *)
CreateFails(c) ==
  /\ At(c, "create")
  /\ sandbox[SandboxOf[c]] # NoSession \/ "sbx" \in Mishaps
  /\ Cleanup(c, 67)
  /\ UNCHANGED hostVars

(* The ids are scraped from sbx's output, which may hold none: a warning. *)
AllowNetwork(c) ==
  /\ At(c, "policy")
  /\ policies' = policies \cup {c}
  /\ \E found \in {TRUE, "noIds" \notin Mishaps} :
       Becomes(c, [cli[c] EXCEPT !.pc = "exec", !.ids = found])
  /\ UNCHANGED <<controlPlane, sandbox, config>>

PolicyFails(c) ==
  /\ At(c, "policy") /\ "sbx" \in Mishaps
  /\ Cleanup(c, 67)
  /\ UNCHANGED hostVars

(* The agent starts and reads its configuration. *)
AgentReads(c) ==
  /\ At(c, "exec") /\ cli[c].identity = NoSession
  /\ Becomes(c, [cli[c] EXCEPT !.identity = config[WorkspaceOf[c]]])
  /\ UNCHANGED <<controlPlane, hostVars>>

(* It ends by itself or by the SIGTERM an abort sends it; or sbx exec fails. *)
ExecEnds(c) ==
  /\ At(c, "exec")
  /\ \/ \E code \in AgentCodes : Cleanup(c, code)
     \/ "sbx" \in Mishaps /\ Cleanup(c, 67)
  /\ UNCHANGED hostVars
-----------------------------------------------------------------------------
(* tearDown: sbx stop, sbx rm, sbx policy rm; a failure is noted and the    *)
(* next one runs.                                                           *)

Outcomes == IF "sbx" \in Mishaps THEN BOOLEAN ELSE {TRUE}

(* Mutant: failures go unnoticed. *)
NotesNothing(r, ok) == r
Notes(r, ok) == [r EXCEPT !.leak = @ \/ ~ok]

TearDownStop(c) ==
  /\ At(c, "stop")
  /\ \E ok \in Outcomes : Becomes(c, [Notes(cli[c], ok) EXCEPT !.pc = "rm"])
  /\ UNCHANGED <<controlPlane, hostVars>>

TearDownRm(c) ==
  /\ At(c, "rm")
  /\ \E ok \in Outcomes :
       /\ sandbox' = IF ok THEN [sandbox EXCEPT ![SandboxOf[c]] = NoSession] ELSE sandbox
       /\ IF cli[c].ids
          THEN /\ Becomes(c, [Notes(cli[c], ok) EXCEPT !.pc = "revoke"])
               /\ UNCHANGED controlPlane
          ELSE Deregister(c, Notes(cli[c], ok))
  /\ UNCHANGED <<policies, config>>

TearDownPolicy(c) ==
  /\ At(c, "revoke")
  /\ \E ok \in Outcomes :
       /\ policies' = IF ok THEN policies \ {c} ELSE policies
       /\ Deregister(c, Notes(cli[c], ok))
  /\ UNCHANGED <<sandbox, config>>

Deregistered(c) ==
  /\ At(c, "deregister")
  /\ Receives(c, 204)
  /\ Becomes(c, Ended(cli[c], IF cli[c].leak THEN 70 ELSE cli[c].intended))
  /\ UNCHANGED <<planeVars, hostVars>>

DeregisterFails(c) ==
  /\ At(c, "deregister")
  /\ CallFails(c)
  /\ Becomes(c, Ended(cli[c], 70))
  /\ UNCHANGED <<planeVars, hostVars>>

(* The body of the 400 ends or breaks off, and the client throws. *)
BodyEnds(c) ==
  /\ \E call \in DOMAIN ReadsBody :
       /\ At(c, ReadsBody[call])
       /\ Becomes(c, Ended(cli[c], IF call = "register" THEN 66 ELSE 70))
  /\ UNCHANGED <<controlPlane, hostVars>>
-----------------------------------------------------------------------------
(* index.ts: SIGINT and SIGTERM                                             *)

Signal(c) ==
  /\ "signal" \in Mishaps
  /\ ~At(c, "exited") /\ ~cli[c].signalled
  /\ Becomes(c, [cli[c] EXCEPT !.signalled = TRUE])
  /\ UNCHANGED <<controlPlane, hostVars>>

(* Mutant: the backstop waits until the agent is gone. *)
BackstopLate(c) == cli[c].signalled /\ ~At(c, "exec")
Backstop(c)     == cli[c].signalled

(* A second signal, or the 5s backstop: wherever the dispatch is. *)
ForcedExit(c) ==
  /\ ~At(c, "exited") /\ Backstop(c)
  /\ Becomes(c, Ended(cli[c], 130))
  /\ waiting' = waiting \ {c} /\ reply' = [reply EXCEPT ![c] = 0]
  /\ UNCHANGED <<planeVars, wire, hostVars>>
-----------------------------------------------------------------------------
Client(c) == BackOff(c) \/ Resend(c) \/ Refused(c) \/ RegisterFails(c)
             \/ Registered(c) \/ Deregistered(c) \/ DeregisterFails(c)
Run(c) == Invalid(c) \/ Register(c) \/ ConfigFails(c) \/ WriteConfig(c)
          \/ CreateSandbox(c) \/ CreateFails(c) \/ AllowNetwork(c) \/ PolicyFails(c)
          \/ AgentReads(c) \/ ExecEnds(c)
TearDown(c) == TearDownStop(c) \/ TearDownRm(c) \/ TearDownPolicy(c)
Signals(c) == Signal(c) \/ ForcedExit(c)
Plane(c) == Serve(c) /\ UNCHANGED <<cli, hostVars>>
ProxyRestarts == Restart /\ UNCHANGED <<cli, hostVars>>

Next ==
  \/ \E c \in Sessions : Client(c) \/ BodyEnds(c) \/ Run(c) \/ TearDown(c) \/ Signals(c)
                         \/ Plane(c)
  \/ ProxyRestarts

Spec == Init /\ [][Next]_vars

(* A client acts on what it receives, on its timers and on its 5s abort,    *)
(* and the 5s backstop of a signal is a timer.  Nothing is assumed of the   *)
(* control plane, which may leave the body of a 400 unfinished, of sbx or   *)
(* of the agent.                                                            *)
Fairness == \A c \in Sessions : WF_vars(Client(c)) /\ WF_vars(ForcedExit(c))
FairSpec == Spec /\ Fairness
-----------------------------------------------------------------------------
TypeOK ==
  /\ PlaneType
  /\ cli \in [Sessions -> Cli]
  /\ sandbox \in [Names -> Someone]
  /\ policies \in SUBSET Sessions
  /\ config \in [Workspaces -> Someone]

(* "Cleanup: best-effort but loud on failure. Leaks exit non-zero (70)."    *)
(* A dispatch that ends with another code, and was not interrupted, leaves  *)
(* nothing behind but what it could not know of: a registration whose       *)
(* request failed unanswered (66), and a network rule whose id sbx did not  *)
(* print.                                                                   *)
LeaksAreLoud ==
  \A c \in Sessions : cli[c].exit \notin {NoCode, 70, 130} =>
    /\ sandbox[SandboxOf[c]] # c
    /\ c \in policies => cli[c].created /\ ~cli[c].ids
    /\ c \in registry \/ <<"POST", c>> \in wire => cli[c].exit = 66

(* From the answer to its registration until it deregisters, a dispatch is  *)
(* in the registry, unless the proxy restarted under it: its agent never    *)
(* meets a proxy that does not know its allowlist.                          *)
RunsRegistered ==
  \A c \in Sessions :
    cli[c].pc \in {"config", "create", "policy", "exec", "stop", "rm", "revoke"}
      => c \in registry \cup lost

(* Only the dispatch that created a sandbox ever removes it, although two   *)
(* dispatches of one manifest use the same name.                            *)
NobodyElsesSandbox ==
  [][\A n \in Names : sandbox'[n] # sandbox[n] /\ sandbox[n] # NoSession
       => cli[sandbox[n]].pc = "rm"]_vars

(* The client's requests do not go on for ever: with any answers, or none,  *)
(* bounded retries and the 5s abort lead register() and deregister() to an  *)
(* end or, after a 400, to the body of the answer.  That wait has no timer  *)
(* in the code and may last: only a signal is sure to end it (SignalEnds).  *)
ClientEnds ==
  \A c \in Sessions :
    /\ At(c, "register")   ~> \E step \in {"config", "register400", "exited"} : At(c, step)
    /\ At(c, "deregister") ~> \E step \in {"deregister400", "exited"} : At(c, step)

(* Ctrl-C always works: whatever the dispatch waits for, it ends, be it the *)
(* unfinished body of an answer.                                            *)
SignalEnds == \A c \in Sessions : cli[c].signalled ~> At(c, "exited")
=============================================================================
