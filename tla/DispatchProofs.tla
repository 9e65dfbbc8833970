--------------------------- MODULE DispatchProofs ---------------------------
(***************************************************************************)
(* What holds of dispatches and of the control plane for every set of      *)
(* sessions, every sharing of sandbox names and workspaces, every number   *)
(* of attempts and restarts, and whatever mishaps.                         *)
(***************************************************************************)
EXTENDS Dispatch, TLAPS

Calling == {"register", "deregister"}
Holding == {"config", "create", "policy", "exec", "stop", "rm", "revoke"}

Owns(c)    == sandbox[SandboxOf[c]] = c
OnWire(c)  == \E m \in Methods : <<m, c>> \in wire
Loud(r)    == r.pc = "exited" /\ r.exit \in {70, 130}

(* A client waits only while it calls, and while it does not wait, between  *)
(* two attempts, nothing of its own is on the wire.  A request outlives     *)
(* only the process that sent it.                                           *)
ClientOK(c) ==
  /\ cli[c].attempt > 0 <=> cli[c].pc \in Calling
  /\ cli[c].pc \in Calling /\ c \notin waiting => cli[c].attempt < Attempts
  /\ c \in waiting => cli[c].pc \in Calling
  /\ c \notin waiting => reply[c] = 0
  /\ c \notin waiting /\ cli[c].pc # "exited" => ~OnWire(c)
  /\ reply[c] # 0 => ~OnWire(c)
  /\ <<"POST", c>> \in wire => cli[c].pc \in {"register", "exited"}
  /\ <<"DELETE", c>> \in wire => cli[c].pc \in {"deregister", "exited"}

(* What the registry knows of a dispatch, place by place.                   *)
RegistryOK(c) ==
  /\ cli[c].pc = "register" /\ reply[c] = 201 => c \in registry \cup lost
  /\ cli[c].pc \in Holding => c \in registry \cup lost
  /\ cli[c].pc = "validate" => c \notin registry
  /\ cli[c].pc = "deregister" /\ reply[c] = 204 => c \notin registry
  /\ cli[c].pc = "exited" /\ cli[c].exit \notin {66, 70, 130} =>
       c \notin registry /\ <<"POST", c>> \notin wire

(* What it has on the host: a sandbox until sbx rm, a network rule until    *)
(* sbx policy rm, or a failure noted.                                       *)
HostOK(c) ==
  /\ cli[c].pc \in {"validate", "register", "register400", "config", "create"} =>
       ~cli[c].created /\ ~cli[c].ids /\ ~cli[c].leak
  /\ cli[c].pc \in {"policy", "exec", "stop", "rm", "revoke"} => cli[c].created
  /\ cli[c].pc \in {"policy", "exec", "stop", "rm"} => Owns(c)
  /\ Owns(c) => cli[c].pc \in {"policy", "exec", "stop", "rm"} \/ cli[c].leak \/ Loud(cli[c])
  /\ c \in policies =>
       \/ cli[c].pc \in {"exec", "stop", "rm", "revoke"} \/ cli[c].leak \/ Loud(cli[c])
       \/ cli[c].pc \in {"deregister", "deregister400", "exited"} /\ cli[c].created /\ ~cli[c].ids
  /\ IF cli[c].pc = "exited" THEN ~cli[c].leak ELSE cli[c].exit = NoCode

SessionOK(c) == ClientOK(c) /\ RegistryOK(c) /\ HostOK(c)

AuditInv == AuditTellsRegistry /\ registry \cap lost = {}

IInv == TypeOK /\ AuditInv /\ \A c \in Sessions : SessionOK(c)
-----------------------------------------------------------------------------
(* Frames: what a step leaves alone of a dispatch it is not about.          *)

SameHttp(d) ==
  /\ reply'[d] = reply[d] /\ (d \in waiting' <=> d \in waiting)
  /\ \A m \in Methods : <<m, d>> \in wire' <=> <<m, d>> \in wire

SamePlane(d) == (d \in registry' <=> d \in registry) /\ (d \in lost' <=> d \in lost)

SameHost(d) == (d \in policies' <=> d \in policies) /\ (Owns(d)' <=> Owns(d))

HttpType ==
  /\ wire \in SUBSET Request /\ waiting \in SUBSET Sessions
  /\ reply \in [Sessions -> Statuses \cup {0}]

HostType ==
  /\ sandbox \in [Names -> Someone] /\ policies \in SUBSET Sessions
  /\ config \in [Workspaces -> Someone]

LEMMA SameKeeps ==
  ASSUME NEW d \in Sessions, SessionOK(d), cli'[d] = cli[d], SameHttp(d), SamePlane(d), SameHost(d)
  PROVE  SessionOK(d)'
<1>1. OnWire(d)' <=> OnWire(d)
  BY DEF SameHttp, OnWire
<1>2. ClientOK(d)'
  BY <1>1 DEF SessionOK, ClientOK, SameHttp, Methods
<1>3. RegistryOK(d)'
  BY DEF SessionOK, RegistryOK, SameHttp, SamePlane, Methods
<1>4. HostOK(d)'
  BY DEF SessionOK, HostOK, SameHost, Loud
<1>. QED BY <1>2, <1>3, <1>4 DEF SessionOK

(* A step of one process. *)
LEMMA ProcessKeeps ==
  ASSUME IInv, NEW c \in Sessions, NEW r \in Cli, cli' = [cli EXCEPT ![c] = r],
         UNCHANGED planeVars, HttpType', HostType',
         \A d \in Sessions \ {c} : SameHttp(d) /\ SameHost(d), SessionOK(c)'
  PROVE  IInv'
<1>1. TypeOK'
  BY DEF IInv, TypeOK, PlaneType, HttpType, HostType, planeVars
<1>2. AuditInv'
  BY DEF IInv, AuditInv, AuditTellsRegistry, planeVars
<1>3. ASSUME NEW d \in Sessions \ {c} PROVE SessionOK(d)'
  <2>1. cli'[d] = cli[d] /\ SamePlane(d) /\ SessionOK(d)
    BY DEF IInv, TypeOK, SamePlane, planeVars
  <2>. QED BY <2>1, SameKeeps
<1>. QED BY <1>1, <1>2, <1>3 DEF IInv

LEMMA Types == IInv => HttpType /\ HostType /\ cli \in [Sessions -> Cli]
BY DEF IInv, TypeOK, PlaneType, HttpType, HostType

LEMMA HttpQuiet ==
  ASSUME IInv, UNCHANGED httpVars
  PROVE  HttpType' /\ \A d \in Sessions : SameHttp(d)
BY Types DEF HttpType, httpVars, SameHttp

LEMMA HostQuiet ==
  ASSUME IInv, UNCHANGED hostVars
  PROVE  HostType' /\ \A d \in Sessions : SameHost(d)
BY Types DEF HostType, hostVars, SameHost, Owns

LEMMA SendSays ==
  ASSUME IInv, NEW c \in Sessions, NEW m \in Methods, Send(c, m)
  PROVE  /\ HttpType' /\ \A d \in Sessions \ {c} : SameHttp(d)
         /\ c \in waiting' /\ <<m, c>> \in wire' /\ reply'[c] = reply[c]
         /\ \A n \in Methods \ {m} : <<n, c>> \in wire' <=> <<n, c>> \in wire
<1>1. <<m, c>> \in Request
  BY DEF Request
<1>. QED BY <1>1, Types DEF Send, HttpType, SameHttp, Request

LEMMA ReceivesSays ==
  ASSUME IInv, NEW c \in Sessions, NEW status, Receives(c, status)
  PROVE  /\ HttpType' /\ \A d \in Sessions \ {c} : SameHttp(d)
         /\ c \in waiting /\ reply[c] = status
         /\ c \notin waiting' /\ reply'[c] = 0 /\ wire' = wire
BY Types DEF Receives, HttpType, SameHttp

(* A client that gives up has nothing to wait for.  That its request is     *)
(* still on the wire is possible only without an answer.                    *)
LEMMA CallFailsSays ==
  ASSUME IInv, NEW c \in Sessions, cli[c].pc \in Calling, CallFails(c)
  PROVE  /\ HttpType' /\ \A d \in Sessions \ {c} : SameHttp(d)
         /\ c \notin waiting' /\ reply'[c] = 0
         /\ \A m \in Methods : <<m, c>> \in wire' => <<m, c>> \in wire
<1>1. CASE \E status \in {401, 500} : Receives(c, status)
  BY <1>1, ReceivesSays
<1>2. CASE /\ wire' \in {wire, wire \ {<<Method(c), c>>}}
           /\ waiting' = waiting \ {c} /\ reply' = [reply EXCEPT ![c] = 0]
  BY <1>2, Types DEF HttpType, SameHttp
<1>. QED BY <1>1, <1>2 DEF CallFails

(* How a process ends. *)
LEMMA EndedSays ==
  ASSUME NEW r \in Cli, NEW code \in Codes
  PROVE  /\ Ended(r, code) \in Cli /\ Ended(r, code).pc = "exited"
         /\ Ended(r, code).created = r.created /\ Ended(r, code).ids = r.ids
         /\ Ended(r, code).exit \in {code, 130} /\ Ended(r, code).attempt = 0
         /\ ~Ended(r, code).leak
<1>. DEFINE e == Ended(r, code)
            x == IF r.signalled THEN 130 ELSE code
<1>1. e = [Started EXCEPT !.pc = "exited", !.created = r.created, !.ids = r.ids, !.exit = x]
  BY DEF Ended
<1>2. x \in {code, 130} /\ x \in Codes
  BY DEF Codes
<1>3. 0 \in Codes /\ 0 \in 0..Attempts /\ NoSession \in Someone /\ r.created \in BOOLEAN /\ r.ids \in BOOLEAN
  BY DispatchAssumption DEF Codes, Someone, Cli
<1>. HIDE DEF x
<1>4. e = [pc |-> "exited", attempt |-> 0, seen |-> NoSession, created |-> r.created, ids |-> r.ids,
           identity |-> NoSession, intended |-> 0, leak |-> FALSE, signalled |-> FALSE, exit |-> x]
  BY <1>1 DEF Started
<1>5. e \in Cli
  BY <1>2, <1>3, <1>4 DEF Cli
<1>. QED BY <1>2, <1>4, <1>5

-----------------------------------------------------------------------------
(* The steps of a process that the control plane hears nothing of.          *)

(* A process r in the place of c, which calls nobody before or after. *)
LEMMA QuietKeeps ==
  ASSUME IInv, NEW c \in Sessions, NEW r \in Cli, cli' = [cli EXCEPT ![c] = r],
         UNCHANGED controlPlane, cli[c].attempt = 0, r.attempt = 0,
         \/ cli[c].pc \in Holding /\ r.pc \in Holding
         \/ cli[c].pc = "validate" /\ r.pc = "exited",
         HostType', \A d \in Sessions \ {c} : SameHost(d), HostOK(c)'
  PROVE  IInv'
<1>1. HttpType' /\ \A d \in Sessions : SameHttp(d)
  BY HttpQuiet DEF controlPlane, httpVars
<1>2. cli'[c] = r /\ SessionOK(c)
  BY DEF IInv, TypeOK
<1>3. cli[c].pc \notin Calling /\ r.pc \notin Calling
  BY DEF Calling, Holding
<1>4. c \notin waiting /\ reply[c] = 0 /\ ~OnWire(c)
  BY <1>2, <1>3 DEF SessionOK, ClientOK, Holding
<1>5. c \notin waiting' /\ reply'[c] = 0 /\ ~OnWire(c)'
  BY <1>4 DEF controlPlane, httpVars, OnWire
<1>6. ClientOK(c)'
  BY <1>2, <1>3, <1>5 DEF ClientOK, OnWire, Methods
<1>7. RegistryOK(c)'
  BY <1>2, <1>5 DEF SessionOK, RegistryOK, OnWire, Methods, Holding, controlPlane, planeVars
<1>. QED BY <1>1, <1>6, <1>7, ProcessKeeps DEF SessionOK, controlPlane

LEMMA AtRest ==
  ASSUME IInv, NEW c \in Sessions
  PROVE  /\ cli[c] \in Cli /\ SessionOK(c)
         /\ cli[c].pc \notin Calling => cli[c].attempt = 0
BY DispatchAssumption DEF IInv, TypeOK, SessionOK, ClientOK, Cli

LEMMA InvalidKeeps ==
  ASSUME IInv, NEW c \in Sessions, Invalid(c)
  PROVE  IInv'
<1>1. PICK code \in {64, 65, 68} : cli' = [cli EXCEPT ![c] = Ended(cli[c], code)]
  BY DEF Invalid, Becomes
<1>. DEFINE e == Ended(cli[c], code)
<1>2. /\ e \in Cli /\ e.pc = "exited" /\ e.exit \in {code, 130} /\ e.attempt = 0 /\ ~e.leak
      /\ e.created = cli[c].created /\ e.ids = cli[c].ids
  <2>1. code \in Codes /\ cli[c] \in Cli
    BY AtRest DEF Codes, EXIT_CODES
  <2>. QED BY <2>1, EndedSays
<1>3. cli'[c] = e
  BY <1>1, Types
<1>4. cli[c].pc = "validate" /\ cli[c].attempt = 0 /\ HostOK(c)
  BY AtRest DEF Invalid, At, Calling, SessionOK
<1>5. HostType' /\ \A d \in Sessions : SameHost(d)
  BY HostQuiet DEF Invalid
<1>6. HostOK(c)'
  BY <1>2, <1>3, <1>4, <1>5 DEF HostOK, SameHost, Loud
<1>. HIDE DEF e
<1>. QED BY <1>1, <1>2, <1>4, <1>5, <1>6, QuietKeeps DEF Invalid, e

LEMMA WriteConfigKeeps ==
  ASSUME IInv, NEW c \in Sessions, WriteConfig(c)
  PROVE  IInv'
<1>. DEFINE r == [cli[c] EXCEPT !.pc = "create", !.seen = NoSession]
<1>1. cli[c].pc = "config" /\ cli[c].attempt = 0 /\ HostOK(c) /\ cli[c] \in Cli
  BY AtRest DEF WriteConfig, At, Calling, SessionOK
<1>2. r \in Cli /\ r.pc = "create" /\ r.attempt = 0
  BY <1>1 DEF Cli, Someone
<1>3. cli' = [cli EXCEPT ![c] = r] /\ cli'[c] = r
  BY Types DEF WriteConfig, Becomes
<1>4. HostType' /\ \A d \in Sessions : SameHost(d)
  BY Types DEF WriteConfig, HostType, SameHost, Owns, Someone
<1>5. HostOK(c)'
  BY <1>1, <1>3, <1>4 DEF HostOK, SameHost, Loud, Cli
<1>. QED BY <1>1, <1>2, <1>3, <1>4, <1>5, QuietKeeps DEF WriteConfig, Holding

LEMMA CreateSandboxKeeps ==
  ASSUME IInv, NEW c \in Sessions, CreateSandbox(c)
  PROVE  IInv'
<1>. DEFINE r == [cli[c] EXCEPT !.pc = "policy", !.created = TRUE]
<1>1. cli[c].pc = "create" /\ cli[c].attempt = 0 /\ HostOK(c) /\ cli[c] \in Cli
  BY AtRest DEF CreateSandbox, At, Calling, SessionOK
<1>2. r \in Cli /\ r.pc = "policy" /\ r.attempt = 0 /\ r.created /\ r.exit = cli[c].exit
  BY <1>1 DEF Cli
<1>3. cli' = [cli EXCEPT ![c] = r] /\ cli'[c] = r
  BY Types DEF CreateSandbox, Becomes
<1>4. HostType'
  BY Types DEF CreateSandbox, HostType, Someone
<1>5. \A d \in Sessions : SandboxOf[d] \in Names
  BY DEF Names
<1>6. Owns(c)' /\ \A d \in Sessions \ {c} : SameHost(d)
  BY <1>5, Types, DispatchAssumption DEF CreateSandbox, HostType, SameHost, Owns
<1>7. HostOK(c)'
  BY <1>1, <1>2, <1>3, <1>6 DEF HostOK, Loud, CreateSandbox
<1>. QED BY <1>1, <1>2, <1>3, <1>4, <1>6, <1>7, QuietKeeps DEF CreateSandbox, Holding

LEMMA AllowNetworkKeeps ==
  ASSUME IInv, NEW c \in Sessions, AllowNetwork(c)
  PROVE  IInv'
<1>1. PICK found \in {TRUE, "noIds" \notin Mishaps} :
        cli' = [cli EXCEPT ![c] = [cli[c] EXCEPT !.pc = "exec", !.ids = found]]
  BY DEF AllowNetwork, Becomes
<1>. DEFINE r == [cli[c] EXCEPT !.pc = "exec", !.ids = found]
<1>2. cli[c].pc = "policy" /\ cli[c].attempt = 0 /\ HostOK(c) /\ cli[c] \in Cli
  BY AtRest DEF AllowNetwork, At, Calling, SessionOK
<1>3. found \in BOOLEAN
  OBVIOUS
<1>4. r \in Cli /\ r.pc = "exec" /\ r.attempt = 0 /\ r.created = cli[c].created /\ r.exit = cli[c].exit
  BY <1>2, <1>3 DEF Cli
<1>5. cli' = [cli EXCEPT ![c] = r] /\ cli'[c] = r
  BY <1>1, Types
<1>6. HostType' /\ (Owns(c)' <=> Owns(c)) /\ \A d \in Sessions \ {c} : SameHost(d)
  BY Types DEF AllowNetwork, HostType, SameHost, Owns
<1>7. HostOK(c)'
  BY <1>2, <1>4, <1>5, <1>6 DEF HostOK, Loud
<1>. QED BY <1>2, <1>4, <1>5, <1>6, <1>7, QuietKeeps DEF AllowNetwork, Holding

LEMMA AgentReadsKeeps ==
  ASSUME IInv, NEW c \in Sessions, AgentReads(c)
  PROVE  IInv'
<1>. DEFINE r == [cli[c] EXCEPT !.identity = config[WorkspaceOf[c]]]
<1>1. cli[c].pc = "exec" /\ cli[c].attempt = 0 /\ HostOK(c) /\ cli[c] \in Cli
  BY AtRest DEF AgentReads, At, Calling, SessionOK
<1>2. config[WorkspaceOf[c]] \in Someone
  BY Types DEF HostType, Workspaces
<1>3. r \in Cli /\ r.pc = "exec" /\ r.attempt = 0
  BY <1>1, <1>2 DEF Cli
<1>4. cli' = [cli EXCEPT ![c] = r] /\ cli'[c] = r
  BY Types DEF AgentReads, Becomes
<1>5. HostType' /\ \A d \in Sessions : SameHost(d)
  BY HostQuiet DEF AgentReads
<1>6. HostOK(c)'
  BY <1>1, <1>4, <1>5 DEF HostOK, SameHost, Loud, Cli
<1>. QED BY <1>1, <1>3, <1>4, <1>5, <1>6, QuietKeeps DEF AgentReads, Holding

LEMMA NotesSays ==
  ASSUME NEW r \in Cli, NEW ok \in BOOLEAN
  PROVE  /\ Notes(r, ok) \in Cli /\ Notes(r, ok) = [r EXCEPT !.leak = r.leak \/ ~ok]
         /\ Notes(r, ok).leak <=> r.leak \/ ~ok
BY DEF Notes, Cli

LEMMA TearDownStopKeeps ==
  ASSUME IInv, NEW c \in Sessions, TearDownStop(c)
  PROVE  IInv'
<1>1. PICK ok \in BOOLEAN : cli' = [cli EXCEPT ![c] = [Notes(cli[c], ok) EXCEPT !.pc = "rm"]]
  BY DEF TearDownStop, Becomes, Outcomes
<1>. DEFINE r == [Notes(cli[c], ok) EXCEPT !.pc = "rm"]
<1>2. cli[c].pc = "stop" /\ cli[c].attempt = 0 /\ HostOK(c) /\ cli[c] \in Cli
  BY AtRest DEF TearDownStop, At, Calling, SessionOK
<1>3. r \in Cli /\ r.pc = "rm" /\ r.attempt = 0 /\ r.created = cli[c].created /\ r.exit = cli[c].exit
  BY <1>2, NotesSays DEF Cli
<1>4. cli' = [cli EXCEPT ![c] = r] /\ cli'[c] = r
  BY <1>1, Types
<1>5. HostType' /\ \A d \in Sessions : SameHost(d)
  BY HostQuiet DEF TearDownStop
<1>6. HostOK(c)'
  BY <1>2, <1>3, <1>4, <1>5 DEF HostOK, SameHost, Loud
<1>. QED BY <1>2, <1>3, <1>4, <1>5, <1>6, QuietKeeps DEF TearDownStop, Holding

LEMMA SignalKeeps ==
  ASSUME IInv, NEW c \in Sessions, Signal(c)
  PROVE  IInv'
<1>. DEFINE r == [cli[c] EXCEPT !.signalled = TRUE]
<1>1. cli[c].pc # "exited" /\ SessionOK(c) /\ cli[c] \in Cli
  BY AtRest DEF Signal, At
<1>2. r \in Cli /\ cli' = [cli EXCEPT ![c] = r] /\ cli'[c] = r
  BY <1>1, Types DEF Signal, Becomes, Cli
<1>3. /\ HttpType' /\ HostType' /\ \A d \in Sessions : SameHttp(d) /\ SameHost(d)
  BY HttpQuiet, HostQuiet DEF Signal, controlPlane
<1>4. /\ r.pc = cli[c].pc /\ r.attempt = cli[c].attempt /\ r.created = cli[c].created
      /\ r.ids = cli[c].ids /\ r.leak = cli[c].leak /\ r.exit = cli[c].exit
  BY <1>1 DEF Cli
<1>5. UNCHANGED controlPlane
  BY DEF Signal
<1>6. ClientOK(c)' /\ RegistryOK(c)'
  BY <1>1, <1>2, <1>4, <1>5
     DEF SessionOK, ClientOK, RegistryOK, OnWire, controlPlane, planeVars, httpVars
<1>7. HostOK(c)'
  BY <1>1, <1>2, <1>3, <1>4 DEF SessionOK, HostOK, SameHost, Loud
<1>. QED BY <1>2, <1>3, <1>5, <1>6, <1>7, ProcessKeeps DEF SessionOK, controlPlane
-----------------------------------------------------------------------------
(* Requests sent.                                                           *)

LEMMA FirstAttempt == 1 \in 0..Attempts /\ 1 > 0
BY DispatchAssumption

LEMMA RegisterKeeps ==
  ASSUME IInv, NEW c \in Sessions, Register(c)
  PROVE  IInv'
<1>. DEFINE r == [cli[c] EXCEPT !.pc = "register", !.attempt = 1]
<1>1. cli[c].pc = "validate" /\ SessionOK(c) /\ cli[c] \in Cli
  BY AtRest DEF Register, At
<1>2. /\ r \in Cli /\ r.pc = "register" /\ r.attempt > 0 /\ r.created = cli[c].created
      /\ r.ids = cli[c].ids /\ r.leak = cli[c].leak /\ r.exit = cli[c].exit
  BY <1>1, FirstAttempt DEF Cli
<1>3. cli' = [cli EXCEPT ![c] = r] /\ cli'[c] = r
  BY Types DEF Register, Becomes
<1>4. /\ HttpType' /\ \A d \in Sessions \ {c} : SameHttp(d)
      /\ c \in waiting' /\ <<"POST", c>> \in wire' /\ reply'[c] = reply[c]
      /\ <<"DELETE", c>> \in wire' <=> <<"DELETE", c>> \in wire
  BY SendSays DEF Register, Methods
<1>5. HostType' /\ \A d \in Sessions : SameHost(d)
  BY HostQuiet DEF Register
<1>6. reply[c] = 0 /\ <<"DELETE", c>> \notin wire
  BY <1>1 DEF SessionOK, ClientOK, Calling
<1>7. ClientOK(c)'
  BY <1>2, <1>3, <1>4, <1>6 DEF ClientOK, Calling
<1>8. RegistryOK(c)'
  <2>1. reply'[c] = 0 /\ cli'[c].pc = "register"
    BY <1>2, <1>3, <1>4, <1>6
  <2>. QED BY <2>1 DEF RegistryOK, Holding
<1>9. HostOK(c)'
  BY <1>1, <1>2, <1>3, <1>5 DEF SessionOK, HostOK, SameHost, Loud
<1>. QED BY <1>2, <1>3, <1>4, <1>5, <1>7, <1>8, <1>9, ProcessKeeps DEF Register, SessionOK

(* The DELETE at the end of the finally block, r being the process by then. *)
LEMMA DeregisterKeeps ==
  ASSUME IInv, NEW c \in Sessions, NEW r \in Cli, Deregister(c, r),
         cli[c].pc \in Holding, r.exit = NoCode,
         HostType', \A d \in Sessions \ {c} : SameHost(d),
         Owns(c)' => r.leak, c \in policies' => r.leak \/ (r.created /\ ~r.ids)
  PROVE  IInv'
<1>. DEFINE x == [r EXCEPT !.pc = "deregister", !.attempt = 1, !.seen = NoSession]
<1>1. /\ x \in Cli /\ x.pc = "deregister" /\ x.attempt > 0 /\ x.created = r.created
      /\ x.ids = r.ids /\ x.leak = r.leak /\ x.exit = NoCode
  BY FirstAttempt DEF Cli, Someone
<1>2. cli' = [cli EXCEPT ![c] = x] /\ cli'[c] = x
  BY Types DEF Deregister, Becomes
<1>3. SessionOK(c)
  BY AtRest
<1>4. /\ HttpType' /\ \A d \in Sessions \ {c} : SameHttp(d)
      /\ c \in waiting' /\ reply'[c] = reply[c]
      /\ <<"POST", c>> \in wire' <=> <<"POST", c>> \in wire
  BY SendSays DEF Deregister, Methods
<1>5. reply[c] = 0 /\ <<"POST", c>> \notin wire
  BY <1>3 DEF SessionOK, ClientOK, Calling, Holding
<1>6. ClientOK(c)'
  BY <1>1, <1>2, <1>4, <1>5 DEF ClientOK, Calling
<1>7. RegistryOK(c)'
  <2>1. reply'[c] = 0 /\ cli'[c].pc = "deregister"
    BY <1>1, <1>2, <1>4, <1>5
  <2>. QED BY <2>1 DEF RegistryOK, Holding
<1>8. HostOK(c)'
  BY <1>1, <1>2 DEF HostOK, Loud
<1>. QED BY <1>1, <1>2, <1>4, <1>6, <1>7, <1>8, ProcessKeeps DEF Deregister, SessionOK

LEMMA ConfigFailsKeeps ==
  ASSUME IInv, NEW c \in Sessions, ConfigFails(c)
  PROVE  IInv'
<1>1. PICK code \in {68, 69} : Deregister(c, [cli[c] EXCEPT !.intended = code])
  BY DEF ConfigFails
<1>. DEFINE r == [cli[c] EXCEPT !.intended = code]
<1>2. cli[c].pc = "config" /\ HostOK(c) /\ cli[c] \in Cli
  BY AtRest DEF ConfigFails, At, SessionOK
<1>3. code \in Codes
  BY DEF Codes, EXIT_CODES
<1>4. r \in Cli /\ r.exit = cli[c].exit
  BY <1>2, <1>3 DEF Cli
<1>5. HostType' /\ \A d \in Sessions : SameHost(d)
  BY HostQuiet DEF ConfigFails
<1>6. ~Owns(c) /\ c \notin policies /\ cli[c].exit = NoCode
  BY <1>2 DEF HostOK, Loud
<1>. QED BY <1>1, <1>2, <1>4, <1>5, <1>6, DeregisterKeeps DEF Holding, SameHost

(* The finally block, before anything is torn down. *)
LEMMA CleanupKeeps ==
  ASSUME IInv, NEW c \in Sessions, NEW code \in Codes, Cleanup(c, code), UNCHANGED hostVars,
         cli[c].pc \in {"create", "policy", "exec"}
  PROVE  IInv'
<1>. DEFINE r == [cli[c] EXCEPT !.intended = code]
            x == [r EXCEPT !.pc = "stop"]
<1>1. HostOK(c) /\ cli[c] \in Cli /\ cli[c].attempt = 0
  BY AtRest DEF SessionOK, Calling
<1>2. /\ r \in Cli /\ r.exit = cli[c].exit /\ r.created = cli[c].created /\ r.ids = cli[c].ids
      /\ x \in Cli /\ x.pc = "stop" /\ x.attempt = 0 /\ x.exit = cli[c].exit
      /\ x.created = cli[c].created
  BY <1>1 DEF Cli
<1>3. HostType' /\ \A d \in Sessions : SameHost(d)
  BY HostQuiet
<1>4. CASE TearsDown(r)
  <2>1. cli' = [cli EXCEPT ![c] = x] /\ cli'[c] = x /\ UNCHANGED controlPlane
    BY <1>4, Types DEF Cleanup, Becomes
  <2>2. cli[c].created /\ Owns(c)
    BY <1>1, <1>2, <1>4 DEF HostOK, TearsDown
  <2>3. HostOK(c)'
    BY <1>1, <1>2, <1>3, <2>1, <2>2 DEF HostOK, SameHost, Loud
  <2>. QED BY <1>1, <1>2, <1>3, <2>1, <2>3, QuietKeeps DEF Holding
<1>5. CASE ~TearsDown(r)
  <2>1. Deregister(c, r)
    BY <1>5 DEF Cleanup
  <2>2. cli[c].pc = "create" /\ ~Owns(c) /\ c \notin policies /\ cli[c].exit = NoCode
    BY <1>1, <1>2, <1>5 DEF HostOK, TearsDown, Loud
  <2>. QED BY <1>2, <1>3, <2>1, <2>2, DeregisterKeeps DEF Holding, SameHost
<1>. QED BY <1>4, <1>5

LEMMA CleanupSteps ==
  ASSUME IInv, NEW c \in Sessions, CreateFails(c) \/ PolicyFails(c) \/ ExecEnds(c)
  PROVE  IInv'
<1>1. 67 \in Codes /\ AgentCodes \subseteq Codes
  BY DEF Codes, EXIT_CODES
<1>. QED BY <1>1, CleanupKeeps DEF CreateFails, PolicyFails, ExecEnds, At

LEMMA TearDownRmKeeps ==
  ASSUME IInv, NEW c \in Sessions, TearDownRm(c)
  PROVE  IInv'
<1>1. PICK ok \in BOOLEAN :
        /\ sandbox' = IF ok THEN [sandbox EXCEPT ![SandboxOf[c]] = NoSession] ELSE sandbox
        /\ IF cli[c].ids
           THEN /\ Becomes(c, [Notes(cli[c], ok) EXCEPT !.pc = "revoke"])
                /\ UNCHANGED controlPlane
           ELSE Deregister(c, Notes(cli[c], ok))
  BY DEF TearDownRm, Outcomes
<1>. DEFINE n == Notes(cli[c], ok)
            x == [n EXCEPT !.pc = "revoke"]
<1>2. cli[c].pc = "rm" /\ cli[c].attempt = 0 /\ HostOK(c) /\ cli[c] \in Cli
  BY AtRest DEF TearDownRm, At, Calling, SessionOK
<1>3. Owns(c) /\ cli[c].created /\ cli[c].exit = NoCode
  BY <1>2 DEF HostOK
<1>4. n \in Cli /\ n.created = cli[c].created /\ n.ids = cli[c].ids /\ n.exit = cli[c].exit /\ (~ok => n.leak)
  BY <1>2, NotesSays DEF Cli
<1>5. SandboxOf[c] \in Names /\ \A d \in Sessions : SandboxOf[d] \in Names
  BY DEF Names
<1>6. HostType' /\ \A d \in Sessions \ {c} : SameHost(d)
  BY <1>1, <1>3, <1>5, Types, DispatchAssumption DEF TearDownRm, HostType, SameHost, Owns, Someone
<1>7. Owns(c)' => ~ok
  BY <1>1, <1>5, Types, DispatchAssumption DEF HostType, Owns
<1>8. CASE cli[c].ids
  <2>1. cli' = [cli EXCEPT ![c] = x] /\ cli'[c] = x /\ UNCHANGED controlPlane
    BY <1>1, <1>8, Types DEF Becomes
  <2>2. /\ x \in Cli /\ x.pc = "revoke" /\ x.attempt = 0 /\ x.created = cli[c].created
        /\ x.exit = cli[c].exit /\ (~ok => x.leak)
    BY <1>2, <1>4, NotesSays DEF Cli
  <2>3. HostOK(c)'
    BY <1>3, <1>7, <2>1, <2>2 DEF HostOK, Loud, TearDownRm
  <2>. QED BY <1>2, <1>6, <2>1, <2>2, <2>3, QuietKeeps DEF Holding
<1>9. CASE ~cli[c].ids
  BY <1>1, <1>2, <1>3, <1>4, <1>6, <1>7, <1>9, DeregisterKeeps DEF Holding, TearDownRm
<1>. QED BY <1>8, <1>9

LEMMA TearDownPolicyKeeps ==
  ASSUME IInv, NEW c \in Sessions, TearDownPolicy(c)
  PROVE  IInv'
<1>1. PICK ok \in BOOLEAN :
        /\ policies' = IF ok THEN policies \ {c} ELSE policies
        /\ Deregister(c, Notes(cli[c], ok))
  BY DEF TearDownPolicy, Outcomes
<1>. DEFINE n == Notes(cli[c], ok)
<1>2. cli[c].pc = "revoke" /\ HostOK(c) /\ cli[c] \in Cli
  BY AtRest DEF TearDownPolicy, At, SessionOK
<1>3. Owns(c) => cli[c].leak
  BY <1>2 DEF HostOK, Loud
<1>4. n \in Cli /\ n.exit = NoCode /\ (cli[c].leak \/ ~ok => n.leak)
  BY <1>2, NotesSays DEF Cli, HostOK
<1>5. HostType' /\ \A d \in Sessions \ {c} : SameHost(d)
  BY <1>1, Types DEF TearDownPolicy, HostType, SameHost, Owns
<1>6. (Owns(c)' <=> Owns(c)) /\ (c \in policies' => ~ok)
  BY <1>1 DEF TearDownPolicy, Owns
<1>. QED BY <1>1, <1>2, <1>3, <1>4, <1>5, <1>6, DeregisterKeeps DEF Holding

LEMMA ResendKeeps ==
  ASSUME IInv, NEW c \in Sessions, Resend(c)
  PROVE  IInv'
<1>. DEFINE r == [cli[c] EXCEPT !.attempt = cli[c].attempt + 1]
<1>1. cli[c].attempt > 0 /\ c \notin waiting /\ SessionOK(c) /\ cli[c] \in Cli
  BY AtRest DEF Resend
<1>2. cli[c].pc \in Calling /\ cli[c].attempt < Attempts /\ reply[c] = 0 /\ ~OnWire(c)
  BY <1>1 DEF SessionOK, ClientOK, Calling
<1>3. cli[c].attempt \in 0..Attempts
  BY <1>1 DEF Cli
<1>4. /\ r \in Cli /\ r.pc = cli[c].pc /\ r.attempt > 0 /\ r.created = cli[c].created
      /\ r.ids = cli[c].ids /\ r.leak = cli[c].leak /\ r.exit = cli[c].exit
  <2>1. cli[c].attempt + 1 \in 0..Attempts /\ cli[c].attempt + 1 > 0
    BY <1>2, <1>3, DispatchAssumption
  <2>. QED BY <1>1, <2>1 DEF Cli
<1>5. cli' = [cli EXCEPT ![c] = r] /\ cli'[c] = r
  BY Types DEF Resend
<1>6. Method(c) \in Methods /\ (Method(c) = "POST" <=> cli[c].pc = "register")
  BY DEF Method, Methods, At
<1>7. /\ HttpType' /\ \A d \in Sessions \ {c} : SameHttp(d)
      /\ c \in waiting' /\ reply'[c] = reply[c]
      /\ \A n \in Methods \ {Method(c)} : <<n, c>> \notin wire'
  BY <1>2, <1>6, SendSays DEF Resend, OnWire
<1>8. HostType' /\ \A d \in Sessions : SameHost(d)
  BY HostQuiet DEF Resend
<1>9. ClientOK(c)'
  BY <1>2, <1>4, <1>5, <1>6, <1>7 DEF ClientOK, Calling, Methods
<1>10. RegistryOK(c)'
  BY <1>2, <1>4, <1>5, <1>7 DEF RegistryOK, Holding, Calling
<1>11. HostOK(c)'
  BY <1>1, <1>4, <1>5, <1>8 DEF SessionOK, HostOK, SameHost, Loud
<1>. QED BY <1>4, <1>5, <1>7, <1>8, <1>9, <1>10, <1>11, ProcessKeeps DEF Resend, SessionOK
-----------------------------------------------------------------------------
(* Answers received, and calls given up.                                    *)

LEMMA BackOffKeeps ==
  ASSUME IInv, NEW c \in Sessions, BackOff(c)
  PROVE  IInv'
<1>1. /\ HttpType' /\ \A d \in Sessions \ {c} : SameHttp(d)
      /\ c \in waiting /\ reply[c] = 500 /\ c \notin waiting' /\ reply'[c] = 0 /\ wire' = wire
  BY ReceivesSays DEF BackOff
<1>2. HostType' /\ \A d \in Sessions : SameHost(d)
  BY HostQuiet DEF BackOff
<1>3. cli[c] \in Cli /\ SessionOK(c) /\ cli' = [cli EXCEPT ![c] = cli[c]] /\ cli'[c] = cli[c]
  BY AtRest, Types DEF BackOff
<1>4. cli[c].attempt < Attempts /\ ~OnWire(c) /\ ~OnWire(c)'
  BY <1>1, <1>3 DEF BackOff, SessionOK, ClientOK, OnWire
<1>5. ClientOK(c)'
  BY <1>1, <1>3, <1>4 DEF SessionOK, ClientOK
<1>6. RegistryOK(c)'
  BY <1>1, <1>3 DEF SessionOK, RegistryOK, BackOff, planeVars
<1>7. HostOK(c)'
  BY <1>2, <1>3 DEF SessionOK, HostOK, SameHost, Loud
<1>8. SessionOK(c)'
  BY <1>5, <1>6, <1>7 DEF SessionOK
<1>9. UNCHANGED planeVars
  BY DEF BackOff
<1>10. HttpType' /\ HostType' /\ \A d \in Sessions \ {c} : SameHttp(d) /\ SameHost(d)
  BY <1>1, <1>2
<1>. QED BY <1>3, <1>8, <1>9, <1>10, ProcessKeeps

LEMMA RegisteredKeeps ==
  ASSUME IInv, NEW c \in Sessions, Registered(c)
  PROVE  IInv'
<1>. DEFINE r == [cli[c] EXCEPT !.pc = "config", !.attempt = 0, !.seen = config[WorkspaceOf[c]]]
<1>1. /\ HttpType' /\ \A d \in Sessions \ {c} : SameHttp(d)
      /\ c \in waiting /\ reply[c] = 201 /\ c \notin waiting' /\ reply'[c] = 0 /\ wire' = wire
  BY ReceivesSays DEF Registered, Accepts
<1>2. HostType' /\ \A d \in Sessions : SameHost(d)
  BY HostQuiet DEF Registered
<1>3. cli[c].pc = "register" /\ SessionOK(c) /\ cli[c] \in Cli
  BY AtRest DEF Registered, At
<1>4. config[WorkspaceOf[c]] \in Someone /\ 0 \in 0..Attempts
  BY Types, DispatchAssumption DEF HostType, Workspaces
<1>5. /\ r \in Cli /\ r.pc = "config" /\ ~(r.attempt > 0) /\ r.created = cli[c].created
      /\ r.ids = cli[c].ids /\ r.leak = cli[c].leak /\ r.exit = cli[c].exit
  <2>1. r \in Cli
    BY <1>3, <1>4 DEF Cli
  <2>2. /\ r.pc = "config" /\ r.attempt = 0 /\ r.created = cli[c].created
        /\ r.ids = cli[c].ids /\ r.leak = cli[c].leak /\ r.exit = cli[c].exit
    BY <1>3 DEF Cli
  <2>. QED BY <2>1, <2>2
<1>6. cli' = [cli EXCEPT ![c] = r] /\ cli'[c] = r
  BY Types DEF Registered, Becomes
<1>7. ~OnWire(c) /\ ~OnWire(c)' /\ c \in registry \cup lost
  BY <1>1, <1>3 DEF SessionOK, ClientOK, RegistryOK, OnWire
<1>8. ClientOK(c)'
  BY <1>1, <1>5, <1>6, <1>7 DEF ClientOK, OnWire, Methods, Calling
<1>9. RegistryOK(c)'
  BY <1>1, <1>5, <1>6, <1>7 DEF RegistryOK, Registered, planeVars
<1>10. HostOK(c)'
  BY <1>2, <1>3, <1>5, <1>6 DEF SessionOK, HostOK, SameHost, Loud
<1>. QED BY <1>1, <1>2, <1>5, <1>6, <1>8, <1>9, <1>10, ProcessKeeps DEF Registered, SessionOK

(* A process ends with a code that hides nothing it knows of. *)
LEMMA ExitKeeps ==
  ASSUME IInv, NEW c \in Sessions, NEW code \in Codes,
         cli' = [cli EXCEPT ![c] = Ended(cli[c], code)], UNCHANGED planeVars, UNCHANGED hostVars,
         HttpType', \A d \in Sessions \ {c} : SameHttp(d), c \notin waiting', reply'[c] = 0,
         code \notin {66, 70, 130} => c \notin registry /\ <<"POST", c>> \notin wire',
         code \notin {70, 130} =>
           ~Owns(c) /\ (c \in policies => cli[c].created /\ ~cli[c].ids)
  PROVE  IInv'
<1>. DEFINE e == Ended(cli[c], code)
<1>1. /\ e \in Cli /\ e.pc = "exited" /\ e.exit \in {code, 130} /\ e.attempt = 0 /\ ~e.leak
      /\ e.created = cli[c].created /\ e.ids = cli[c].ids
  BY AtRest, EndedSays
<1>2. cli'[c] = e
  BY Types
<1>3. HostType' /\ \A d \in Sessions : SameHost(d)
  BY HostQuiet
<1>. HIDE DEF e
<1>4. ClientOK(c)'
  BY <1>1, <1>2 DEF ClientOK, Calling
<1>5. RegistryOK(c)'
  BY <1>1, <1>2 DEF RegistryOK, Holding, planeVars
<1>6. HostOK(c)'
  BY <1>1, <1>2, <1>3 DEF HostOK, SameHost, Loud
<1>. QED BY <1>1, <1>3, <1>4, <1>5, <1>6, ProcessKeeps DEF e, SessionOK

(* A refused client waits for nothing but the body of its answer. *)
LEMMA RefusedKeeps ==
  ASSUME IInv, NEW c \in Sessions, Refused(c)
  PROVE  IInv'
<1>. DEFINE pc == ReadsBody[cli[c].pc]
            r  == [cli[c] EXCEPT !.pc = pc, !.attempt = 0]
<1>1. cli[c].pc \in Calling /\ SessionOK(c) /\ cli[c] \in Cli
  BY AtRest DEF Refused, ReadsBody, Calling
<1>2. /\ HttpType' /\ \A d \in Sessions \ {c} : SameHttp(d)
      /\ c \in waiting /\ reply[c] = 400 /\ c \notin waiting' /\ reply'[c] = 0 /\ wire' = wire
  BY ReceivesSays DEF Refused
<1>3. HostType' /\ \A d \in Sessions : SameHost(d)
  BY HostQuiet DEF Refused
<1>4. /\ cli[c].pc = "register" => pc = "register400"
      /\ cli[c].pc = "deregister" => pc = "deregister400"
  BY DEF ReadsBody
<1>5. pc \in {"register400", "deregister400"}
  BY <1>1, <1>4 DEF Calling
<1>6. cli' = [cli EXCEPT ![c] = r]
  BY <1>1, Types DEF Refused
<1>. HIDE DEF pc
<1>7. 0 \in 0..Attempts
  BY DispatchAssumption
<1>8. r \in Cli
  BY <1>1, <1>5, <1>7 DEF Cli
<1>9. /\ r.pc = pc /\ r.attempt = 0 /\ r.created = cli[c].created
      /\ r.ids = cli[c].ids /\ r.leak = cli[c].leak /\ r.exit = cli[c].exit
  BY <1>1 DEF Cli
<1>10. cli'[c] = r
  BY <1>6, Types
<1>. HIDE DEF r
<1>11. ~OnWire(c) /\ ~OnWire(c)'
  <2>1. ~OnWire(c)
    BY <1>1, <1>2 DEF SessionOK, ClientOK
  <2>. QED BY <1>2, <2>1 DEF OnWire
<1>12. ClientOK(c)'
  BY <1>2, <1>5, <1>9, <1>10, <1>11 DEF ClientOK, OnWire, Methods, Calling
<1>13. RegistryOK(c)'
  BY <1>2, <1>5, <1>9, <1>10 DEF RegistryOK, Holding
<1>14. HostOK(c)'
  BY <1>1, <1>3, <1>4, <1>9, <1>10 DEF SessionOK, HostOK, SameHost, Loud, Calling
<1>. QED BY <1>2, <1>3, <1>6, <1>8, <1>12, <1>13, <1>14, ProcessKeeps DEF Refused, SessionOK

(* It then throws as any other call that fails. *)
LEMMA BodyEndsKeeps ==
  ASSUME IInv, NEW c \in Sessions, BodyEnds(c)
  PROVE  IInv'
<1>1. PICK call \in {"register", "deregister"} :
        /\ cli[c].pc = ReadsBody[call]
        /\ cli' = [cli EXCEPT ![c] = Ended(cli[c], IF call = "register" THEN 66 ELSE 70)]
  BY DEF BodyEnds, ReadsBody, At, Becomes
<1>2. /\ call = "register" => cli[c].pc = "register400"
      /\ call = "deregister" => cli[c].pc = "deregister400"
  BY <1>1 DEF ReadsBody
<1>3. ClientOK(c) /\ HostOK(c) /\ UNCHANGED controlPlane /\ UNCHANGED hostVars
  BY AtRest DEF SessionOK, BodyEnds
<1>4. c \notin waiting /\ reply[c] = 0
  BY <1>2, <1>3 DEF ClientOK, Calling
<1>5. /\ HttpType' /\ \A d \in Sessions \ {c} : SameHttp(d)
      /\ c \notin waiting' /\ reply'[c] = 0
  BY <1>3, <1>4, HttpQuiet DEF controlPlane, httpVars
<1>6. CASE call = "register"
  <2>1. ~Owns(c) /\ c \notin policies
    BY <1>2, <1>3, <1>6 DEF HostOK, Loud
  <2>2. 66 \in Codes
    BY DEF Codes, EXIT_CODES
  <2>. QED BY <1>1, <1>3, <1>5, <1>6, <2>1, <2>2, ExitKeeps DEF controlPlane
<1>7. CASE call = "deregister"
  <2>1. 70 \in Codes
    BY DEF Codes, EXIT_CODES
  <2>. QED BY <1>1, <1>3, <1>5, <1>7, <2>1, ExitKeeps DEF controlPlane
<1>. QED BY <1>6, <1>7

LEMMA RegisterFailsKeeps ==
  ASSUME IInv, NEW c \in Sessions, RegisterFails(c)
  PROVE  IInv'
<1>1. cli[c].pc = "register" /\ HostOK(c)
  BY AtRest DEF RegisterFails, At, SessionOK
<1>2. /\ HttpType' /\ \A d \in Sessions \ {c} : SameHttp(d)
      /\ c \notin waiting' /\ reply'[c] = 0
  BY <1>1, CallFailsSays DEF RegisterFails, Calling
<1>3. ~Owns(c) /\ c \notin policies
  BY <1>1 DEF HostOK, Loud
<1>4. 66 \in Codes
  BY DEF Codes, EXIT_CODES
<1>. QED BY <1>2, <1>3, <1>4, ExitKeeps DEF RegisterFails, Becomes

LEMMA DeregisterFailsKeeps ==
  ASSUME IInv, NEW c \in Sessions, DeregisterFails(c)
  PROVE  IInv'
<1>1. cli[c].pc = "deregister"
  BY DEF DeregisterFails, At
<1>2. /\ HttpType' /\ \A d \in Sessions \ {c} : SameHttp(d)
      /\ c \notin waiting' /\ reply'[c] = 0
  BY <1>1, CallFailsSays DEF DeregisterFails, Calling
<1>3. 70 \in Codes
  BY DEF Codes, EXIT_CODES
<1>. QED BY <1>2, <1>3, ExitKeeps DEF DeregisterFails, Becomes

LEMMA DeregisteredKeeps ==
  ASSUME IInv, NEW c \in Sessions, Deregistered(c)
  PROVE  IInv'
<1>. DEFINE code == IF cli[c].leak THEN 70 ELSE cli[c].intended
<1>1. cli[c].pc = "deregister" /\ SessionOK(c) /\ cli[c] \in Cli
  BY AtRest DEF Deregistered, At
<1>2. /\ HttpType' /\ \A d \in Sessions \ {c} : SameHttp(d)
      /\ reply[c] = 204 /\ c \notin waiting' /\ reply'[c] = 0 /\ wire' = wire
  BY ReceivesSays DEF Deregistered
<1>3. c \notin registry /\ <<"POST", c>> \notin wire
  BY <1>1, <1>2 DEF SessionOK, ClientOK, RegistryOK
<1>4. code \in Codes
  BY <1>1 DEF Cli, Codes, EXIT_CODES
<1>5. ~cli[c].leak => ~Owns(c) /\ (c \in policies => cli[c].created /\ ~cli[c].ids)
  BY <1>1 DEF SessionOK, HostOK, Loud
<1>6. cli' = [cli EXCEPT ![c] = Ended(cli[c], code)]
  BY DEF Deregistered, Becomes
<1>7. code # 70 => ~cli[c].leak
  OBVIOUS
<1>. HIDE DEF code
<1>8. code \notin {66, 70, 130} => c \notin registry /\ <<"POST", c>> \notin wire'
  BY <1>2, <1>3
<1>9. code \notin {70, 130} => ~Owns(c) /\ (c \in policies => cli[c].created /\ ~cli[c].ids)
  BY <1>5, <1>7
<1>10. UNCHANGED planeVars /\ UNCHANGED hostVars
  BY DEF Deregistered
<1>. QED BY <1>2, <1>4, <1>6, <1>8, <1>9, <1>10, ExitKeeps

LEMMA ForcedExitKeeps ==
  ASSUME IInv, NEW c \in Sessions, ForcedExit(c)
  PROVE  IInv'
<1>1. /\ HttpType' /\ \A d \in Sessions \ {c} : SameHttp(d)
      /\ c \notin waiting' /\ reply'[c] = 0
  BY Types DEF ForcedExit, HttpType, SameHttp
<1>2. 130 \in Codes
  BY DEF Codes
<1>. QED BY <1>1, <1>2, ExitKeeps DEF ForcedExit, Becomes
-----------------------------------------------------------------------------
(* The control plane.                                                       *)

(* A request was handled: its sender, if it waits, has nothing else on the  *)
(* wire; if it does not, it has exited.                                     *)
LEMMA RespondKeepsHttp ==
  ASSUME IInv, NEW c \in Sessions, NEW m \in Methods, NEW status \in Statuses, Respond(m, c, status)
  PROVE  HttpType' /\ \A d \in Sessions \ {c} : SameHttp(d)
BY Types DEF Respond, HttpType, SameHttp

LEMMA RespondSays ==
  ASSUME IInv, NEW c \in Sessions, NEW m \in Methods, NEW status \in Statuses,
         Respond(m, c, status), cli' = cli
  PROVE  /\ <<m, c>> \in wire /\ reply'[c] \in {0, status}
         /\ m = "POST" => cli[c].pc \in {"exited", "register"}
         /\ m = "DELETE" => cli[c].pc \in {"exited", "deregister"}
         /\ ClientOK(c)'
<1>1. ClientOK(c) /\ HttpType
  BY AtRest, Types DEF SessionOK
<1>2. <<m, c>> \in wire /\ wire' = wire \ {<<m, c>>} /\ waiting' = waiting
  BY DEF Respond
<1>3. /\ m = "POST" => cli[c].pc \in {"exited", "register"}
      /\ m = "DELETE" => cli[c].pc \in {"exited", "deregister"}
  BY <1>1, <1>2 DEF ClientOK, Methods
<1>4. status # 0
  BY DEF Statuses
<1>5. CASE c \in waiting
  <2>1. reply'[c] = status /\ cli[c].pc \in Calling
    BY <1>1, <1>5 DEF Respond, HttpType, ClientOK
  <2>2. ~OnWire(c)'
    BY <1>1, <1>2, <1>3, <2>1 DEF ClientOK, OnWire, Methods, Calling
  <2>3. ClientOK(c)'
    BY <1>1, <1>2, <1>5, <2>1, <2>2 DEF ClientOK, OnWire, Methods
  <2>. QED BY <1>2, <1>3, <2>1, <2>3
<1>6. CASE c \notin waiting
  <2>1. reply' = reply /\ reply[c] = 0 /\ cli[c].pc = "exited"
    BY <1>1, <1>2, <1>6 DEF Respond, ClientOK, OnWire
  <2>2. ClientOK(c)'
    BY <1>1, <1>2, <1>6, <2>1 DEF ClientOK, Calling
  <2>. QED BY <1>2, <1>3, <2>1, <2>2
<1>. QED BY <1>5, <1>6

(* What the handlers do to the registry, for its typing and the audit log. *)
LEMMA PlaneStep ==
  ASSUME IInv, NEW c \in Sessions, Plane(c)
  PROVE  /\ registry' \in SUBSET Sessions /\ lost' \in SUBSET Sessions /\ restarts' = restarts
         /\ audited' \in [Sessions -> {"none", "register", "deregister"}]
         /\ AuditInv'
         /\ \A d \in Sessions \ {c} : SamePlane(d)
<1>1. /\ registry \in SUBSET Sessions /\ lost \in SUBSET Sessions
      /\ audited \in [Sessions -> {"none", "register", "deregister"}] /\ AuditInv
  BY DEF IInv, TypeOK, PlaneType
<1>2. CASE PostSession(c)
  BY <1>1, <1>2 DEF PostSession, emitControlPlaneAudit, AuditInv, AuditTellsRegistry, SamePlane
<1>3. CASE DeleteSession(c)
  BY <1>1, <1>3 DEF DeleteSession, emitControlPlaneAudit, AuditInv, AuditTellsRegistry, SamePlane
<1>4. CASE UNCHANGED planeVars
  BY <1>1, <1>4 DEF planeVars, AuditInv, AuditTellsRegistry, SamePlane
<1>. QED BY <1>2, <1>3, <1>4 DEF Plane, Serve, PostRejected, Unserved

LEMMA PlaneKeeps ==
  ASSUME IInv, NEW c \in Sessions, Plane(c)
  PROVE  IInv'
<1>1. cli' = cli /\ UNCHANGED hostVars /\ SessionOK(c)
  BY AtRest DEF Plane
<1>2. HostType' /\ \A d \in Sessions : SameHost(d)
  BY <1>1, HostQuiet
<1>3. HostOK(c)'
  BY <1>1, <1>2 DEF SessionOK, HostOK, SameHost, Loud
<1>4. HttpType' /\ (\A d \in Sessions \ {c} : SameHttp(d)) /\ ClientOK(c)' /\ RegistryOK(c)'
  <2>1. CASE PostSession(c)
    <3>1. Respond("POST", c, 201) /\ "POST" \in Methods /\ 201 \in Statuses
      BY <2>1 DEF PostSession, Methods, Statuses
    <3>2. /\ <<"POST", c>> \in wire /\ reply'[c] \in {0, 201}
          /\ cli[c].pc \in {"exited", "register"} /\ ClientOK(c)'
      BY <1>1, <3>1, RespondSays
    <3>3. c \in registry' /\ (cli[c].pc = "exited" => cli[c].exit \in {66, 70, 130})
      BY <1>1, <2>1, <3>2 DEF PostSession, SessionOK, RegistryOK
    <3>4. RegistryOK(c)'
      BY <1>1, <3>2, <3>3 DEF RegistryOK, Holding
    <3>. QED BY <3>1, <3>2, <3>4, RespondKeepsHttp
  <2>2. CASE DeleteSession(c)
    <3>1. Respond("DELETE", c, 204) /\ "DELETE" \in Methods /\ 204 \in Statuses
      BY <2>2 DEF DeleteSession, Methods, Statuses
    <3>2. /\ <<"DELETE", c>> \in wire /\ reply'[c] \in {0, 204}
          /\ cli[c].pc \in {"exited", "deregister"} /\ ClientOK(c)'
      BY <1>1, <3>1, RespondSays
    <3>5. wire' \subseteq wire
      BY <3>1 DEF Respond
    <3>3. c \notin registry'
      BY <2>2 DEF DeleteSession
    <3>4. RegistryOK(c)'
      BY <1>1, <3>2, <3>3, <3>5 DEF SessionOK, RegistryOK, Holding
    <3>. QED BY <3>1, <3>2, <3>4, RespondKeepsHttp
  <2>3. ASSUME NEW m \in Methods, NEW status \in {400, 401, 500}, Respond(m, c, status), UNCHANGED planeVars
        PROVE  HttpType' /\ (\A d \in Sessions \ {c} : SameHttp(d)) /\ ClientOK(c)' /\ RegistryOK(c)'
    <3>1. status \in Statuses
      BY DEF Statuses
    <3>2. <<m, c>> \in wire /\ reply'[c] \in {0, status} /\ ClientOK(c)'
      BY <1>1, <2>3, <3>1, RespondSays
    <3>5. wire' \subseteq wire
      BY <2>3 DEF Respond
    <3>3. reply'[c] \notin {201, 204}
      BY <3>2
    <3>4. RegistryOK(c)'
      BY <1>1, <2>3, <3>2, <3>3, <3>5 DEF SessionOK, RegistryOK, planeVars
    <3>. QED BY <2>3, <3>1, <3>2, <3>4, RespondKeepsHttp
  <2>4. CASE PostRejected(c)
    <3>1. "POST" \in Methods
      BY DEF Methods
    <3>. QED BY <2>3, <2>4, <3>1 DEF PostRejected
  <2>5. CASE \E m \in Methods, status \in {401, 500} : Unserved(m, c, status)
    BY <2>3, <2>5 DEF Unserved
  <2>. QED BY <2>1, <2>2, <2>4, <2>5 DEF Plane, Serve
<1>5. ASSUME NEW d \in Sessions \ {c} PROVE SessionOK(d)'
  <2>1. SessionOK(d)
    BY AtRest
  <2>. QED BY <1>1, <1>2, <1>4, <2>1, PlaneStep, SameKeeps
<1>6. TypeOK'
  BY <1>1, <1>2, <1>4, PlaneStep DEF IInv, TypeOK, PlaneType, HttpType, HostType
<1>. QED BY <1>3, <1>4, <1>5, <1>6, PlaneStep DEF IInv, SessionOK

LEMMA RestartKeeps ==
  ASSUME IInv, ProxyRestarts
  PROVE  IInv'
<1>1. /\ registry' = {} /\ lost' = lost \cup registry /\ wire' = {} /\ waiting' = waiting
      /\ cli' = cli /\ audited' = audited /\ UNCHANGED hostVars /\ reply' = [d \in Sessions |-> 0]
      /\ restarts < MaxRestarts /\ restarts' = restarts + 1
  BY DEF ProxyRestarts, Restart
<1>2. HostType' /\ \A d \in Sessions : SameHost(d)
  BY <1>1, HostQuiet
<1>3. TypeOK'
  <2>1. restarts' \in 0..MaxRestarts
    BY <1>1, ControlPlaneAssumption DEF IInv, TypeOK, PlaneType
  <2>. QED BY <1>1, <1>2, <2>1 DEF IInv, TypeOK, PlaneType, HostType
<1>4. AuditInv'
  BY <1>1 DEF IInv, AuditInv, AuditTellsRegistry
<1>5. ASSUME NEW d \in Sessions PROVE SessionOK(d)'
  <2>1. SessionOK(d) /\ ~OnWire(d)' /\ reply'[d] = 0 /\ <<"POST", d>> \notin wire' /\ <<"DELETE", d>> \notin wire'
    BY <1>1, AtRest DEF OnWire
  <2>2. ClientOK(d)'
    BY <1>1, <2>1 DEF SessionOK, ClientOK
  <2>3. RegistryOK(d)'
    BY <1>1, <2>1 DEF SessionOK, RegistryOK
  <2>4. HostOK(d)'
    BY <1>1, <1>2, <2>1 DEF SessionOK, HostOK, SameHost, Loud
  <2>. QED BY <2>2, <2>3, <2>4 DEF SessionOK
<1>. QED BY <1>3, <1>4, <1>5 DEF IInv
-----------------------------------------------------------------------------
LEMMA DispatchStarts == Init => IInv
<1>. SUFFICES ASSUME Init PROVE IInv
  OBVIOUS
<1>1. /\ cli = [c \in Sessions |-> Started] /\ wire = {} /\ waiting = {} /\ registry = {}
      /\ lost = {} /\ policies = {} /\ audited = [s \in Sessions |-> "none"]
      /\ reply = [s \in Sessions |-> 0] /\ sandbox = [n \in Names |-> NoSession]
      /\ config = [w \in Workspaces |-> NoSession] /\ restarts = 0
  BY DEF Init, PlaneInit
<1>2. /\ Started \in Cli /\ Started.pc = "validate" /\ Started.exit = NoCode /\ ~(Started.attempt > 0)
      /\ ~Started.created /\ ~Started.ids /\ ~Started.leak
  <2>1. 0 \in 0..Attempts /\ 0 \in Codes /\ NoSession \in Someone
    BY DispatchAssumption DEF Codes, Someone
  <2>2. Started \in Cli
    BY <2>1 DEF Started, Cli
  <2>. QED BY <2>2 DEF Started
<1>3. TypeOK
  <2>1. restarts \in 0..MaxRestarts
    BY <1>1, ControlPlaneAssumption
  <2>2. NoSession \in Someone
    BY DEF Someone
  <2>. QED BY <1>1, <1>2, <2>1, <2>2 DEF TypeOK, PlaneType
<1>4. AuditInv
  BY <1>1 DEF AuditInv, AuditTellsRegistry
<1>5. ASSUME NEW c \in Sessions PROVE SessionOK(c)
  <2>1. cli[c] = Started /\ reply[c] = 0 /\ SandboxOf[c] \in Names
    BY <1>1 DEF Names
  <2>2. ~Owns(c)
    BY <1>1, <2>1, DispatchAssumption DEF Owns
  <2>3. ClientOK(c)
    BY <1>1, <1>2, <2>1 DEF ClientOK, OnWire, Calling
  <2>4. RegistryOK(c)
    BY <1>1, <1>2, <2>1 DEF RegistryOK, Holding
  <2>5. HostOK(c)
    BY <1>1, <1>2, <2>1, <2>2 DEF HostOK
  <2>. QED BY <2>3, <2>4, <2>5 DEF SessionOK
<1>. QED BY <1>3, <1>4, <1>5 DEF IInv

LEMMA StutterKeeps == ASSUME IInv, UNCHANGED vars PROVE IInv'
<1>1. /\ HttpType' /\ HostType' /\ cli' = cli /\ UNCHANGED planeVars
      /\ \A d \in Sessions : SameHttp(d) /\ SameHost(d) /\ SamePlane(d)
  BY HttpQuiet, HostQuiet DEF vars, controlPlane, planeVars, SamePlane
<1>2. TypeOK' /\ AuditInv'
  BY <1>1 DEF IInv, TypeOK, PlaneType, HttpType, HostType, planeVars, AuditInv, AuditTellsRegistry
<1>3. ASSUME NEW d \in Sessions PROVE SessionOK(d)'
  BY <1>1, AtRest, SameKeeps
<1>. QED BY <1>2, <1>3 DEF IInv

LEMMA DispatchKeeps == IInv /\ [Next]_vars => IInv'
<1>. SUFFICES ASSUME IInv, [Next]_vars PROVE IInv'
  OBVIOUS
<1>1. ASSUME NEW c \in Sessions, Client(c) PROVE IInv'
  BY <1>1, BackOffKeeps, ResendKeeps, RefusedKeeps, RegisterFailsKeeps, RegisteredKeeps, DeregisteredKeeps,
     DeregisterFailsKeeps DEF Client
<1>2. ASSUME NEW c \in Sessions, Run(c) PROVE IInv'
  BY <1>2, InvalidKeeps, RegisterKeeps, ConfigFailsKeeps, WriteConfigKeeps, CreateSandboxKeeps,
     CleanupSteps, AllowNetworkKeeps, AgentReadsKeeps DEF Run
<1>3. ASSUME NEW c \in Sessions, TearDown(c) PROVE IInv'
  BY <1>3, TearDownStopKeeps, TearDownRmKeeps, TearDownPolicyKeeps DEF TearDown
<1>4. ASSUME NEW c \in Sessions, Signals(c) PROVE IInv'
  BY <1>4, SignalKeeps, ForcedExitKeeps DEF Signals
<1>. QED BY <1>1, <1>2, <1>3, <1>4, BodyEndsKeeps, PlaneKeeps, RestartKeeps, StutterKeeps DEF Next

THEOREM DispatchInvariant == Spec => []IInv
BY DispatchStarts, DispatchKeeps, PTL DEF Spec
-----------------------------------------------------------------------------
(* Every variable of the dispatches, the control plane and the network      *)
(* stays in its type: the attempts of cp-client.ts never pass               *)
(* CP_MAX_ATTEMPTS, and only the codes of exit-codes.ts, the agent's and    *)
(* the backstop's 130 leave a process.                                      *)
THEOREM DispatchTypes == Spec => []TypeOK
<1>1. IInv => TypeOK
  BY DEF IInv
<1>. QED BY <1>1, DispatchInvariant, PTL

(* The control plane's log and its registry agree, whatever is lost,        *)
(* repeated or overtaken between a client and the handlers of               *)
(* control-plane/server.ts, and over restarts of the proxy.                 *)
THEOREM AuditIsTrue == Spec => []AuditTellsRegistry
<1>1. IInv => AuditTellsRegistry
  BY DEF IInv, AuditInv
<1>. QED BY <1>1, DispatchInvariant, PTL

(* From the answer 201 to the DELETE, a dispatch of runDispatch is          *)
(* registered, unless the proxy restarted under it.                         *)
THEOREM RunsAreRegistered == Spec => []RunsRegistered
<1>1. IInv => RunsRegistered
  BY DEF IInv, SessionOK, RegistryOK, RunsRegistered, Holding
<1>. QED BY <1>1, DispatchInvariant, PTL

(* What a dispatch of runDispatch leaves behind, it reports: any exit but   *)
(* 70 and 130 means that nothing of it is left on the host or, but for 66,  *)
(* in the registry.                                                         *)
THEOREM LeaksExitLoudly == Spec => []LeaksAreLoud
<1>1. ASSUME IInv, NEW c \in Sessions, cli[c].exit \notin {NoCode, 70, 130}
      PROVE  /\ ~Owns(c)
             /\ c \in policies => cli[c].created /\ ~cli[c].ids
             /\ c \in registry \/ <<"POST", c>> \in wire => cli[c].exit = 66
  <2>1. cli[c].pc = "exited" /\ ClientOK(c) /\ RegistryOK(c) /\ HostOK(c) /\ ~Loud(cli[c])
    BY <1>1, AtRest DEF SessionOK, HostOK, Loud
  <2>2. ~cli[c].leak
    BY <2>1 DEF HostOK
  <2>. QED BY <1>1, <2>1, <2>2 DEF RegistryOK, HostOK
<1>2. IInv => LeaksAreLoud
  BY <1>1 DEF LeaksAreLoud, Owns
<1>. QED BY <1>2, DispatchInvariant, PTL

(* Only the process that created a sandbox takes it away: neither a         *)
(* dispatch with the same sandbox name, nor a failed sbx create, nor a      *)
(* signal does (docker-sandbox.ts).                                         *)
THEOREM SandboxesStay == Spec => NobodyElsesSandbox
<1>. DEFINE Stays == \A n \in Names : sandbox'[n] # sandbox[n] /\ sandbox[n] # NoSession
                                       => cli[sandbox[n]].pc = "rm"
<1>1. ASSUME IInv, NEW c \in Sessions, CreateSandbox(c) PROVE Stays
  BY <1>1, Types DEF CreateSandbox, HostType
<1>2. ASSUME IInv, NEW c \in Sessions, TearDownRm(c) PROVE Stays
  <2>1. cli[c].pc = "rm" /\ sandbox[SandboxOf[c]] = c
    BY <1>2, AtRest DEF TearDownRm, At, SessionOK, HostOK, Owns
  <2>2. \A n \in Names \ {SandboxOf[c]} : sandbox'[n] = sandbox[n]
    BY <1>2, Types DEF TearDownRm, HostType
  <2>. QED BY <2>1, <2>2
<1>3. ASSUME IInv, NEW c \in Sessions, Client(c) \/ BodyEnds(c) \/ Signals(c) \/ Plane(c)
      PROVE  sandbox' = sandbox
  BY <1>3 DEF Client, BackOff, Resend, Refused, BodyEnds, RegisterFails, Registered, Deregistered, DeregisterFails,
     Signals, Signal, ForcedExit, Plane, hostVars
<1>4. ASSUME IInv, NEW c \in Sessions, Run(c), ~CreateSandbox(c) PROVE sandbox' = sandbox
  BY <1>4 DEF Run, Invalid, Register, ConfigFails, WriteConfig, CreateFails, AllowNetwork, PolicyFails,
     AgentReads, ExecEnds, hostVars
<1>5. ASSUME IInv, NEW c \in Sessions, TearDownStop(c) \/ TearDownPolicy(c) PROVE sandbox' = sandbox
  BY <1>5 DEF TearDownStop, TearDownPolicy, hostVars
<1>6. ASSUME ProxyRestarts \/ UNCHANGED vars PROVE sandbox' = sandbox
  BY <1>6 DEF ProxyRestarts, vars, hostVars
<1>7. IInv /\ [Next]_vars => Stays
  BY <1>1, <1>2, <1>3, <1>4, <1>5, <1>6 DEF Next, TearDown
<1>. QED BY <1>7, DispatchInvariant, PTL DEF Spec, NobodyElsesSandbox
=============================================================================
