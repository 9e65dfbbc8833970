--------------------------- MODULE BackendsProofs ---------------------------
(***************************************************************************)
(* What holds of the HTTP bridge and of the composite transport for every  *)
(* set of calls, every cap and every configuration; then where a tool call *)
(* goes, for every table of routes, every allowlist and every              *)
(* configuration, and the sorting of routes this rests on.                 *)
(***************************************************************************)
EXTENDS Backends, SequenceTheorems, FiniteSetTheorems, WellFoundedInduction, TLAPS

(* The conjuncts of ExchangeEnds, and that nothing is decided of an         *)
(* exchange before it ends, nor is its result ever another's.               *)
Sound(c, x) ==
  /\ x.timer <=> x.stage \in Waiting
  /\ x.open  <=> x.stage \in Waiting \/ x.why = "status"
  /\ x.stage = "resolved" <=> x.result = c
  /\ x.result \in {c, NoCall}
  /\ x.why = "cap" <=> OverCap(x.got)
  /\ x.stage \in {"idle"} \cup Waiting => x.why = "none"

HttpInv == HttpType /\ \A c \in Calls : Sound(c, http[c])

(* What every step of the bridge comes to: one exchange changes, and is     *)
(* sound again.                                                             *)
Exchanges(c) ==
  \E x \in Exchange :
    Sound(c, x) /\ x.stage # "idle" /\ http' = [http EXCEPT ![c] = x]

(* A new bridge has no exchange. *)
LEMMA HttpStarts == HttpInit => HttpInv
BY HttpAssumption
   DEF HttpInit, HttpInv, HttpType, Sound, OverCap, Exchange, Waiting, Envelopes

(* Rejecting an exchange that is not over its cap keeps it sound. *)
LEMMA RejectsSound ==
  ASSUME NEW c \in Calls, NEW x \in Exchange, Sound(c, x), x.stage # "resolved",
         NEW why \in {"unknown", "failed", "status", "body", "timeout"} \cup Envelopes,
         NEW open \in BOOLEAN, open <=> why = "status", ~OverCap(x.got)
  PROVE  /\ Rejected(x, why, open) \in Exchange /\ Sound(c, Rejected(x, why, open))
         /\ Rejected(x, why, open).stage # "idle"
<1>1. Rejected(x, why, open) \in Exchange
  BY DEF Rejected, Exchange, Envelopes
<1>2. Sound(c, Rejected(x, why, open)) /\ Rejected(x, why, open).stage # "idle"
  BY DEF Rejected, Exchange, Sound, Envelopes, Waiting
<1>. QED BY <1>1, <1>2

LEMMA PostSound ==
  ASSUME HttpInv, NEW c \in Calls, NEW known \in BOOLEAN, Post(c, known)
  PROVE  Exchanges(c)
<1>. DEFINE x == http[c]
<1>1. x \in Exchange /\ Sound(c, x) /\ x.stage = "idle" /\ ~OverCap(x.got)
  BY DEF HttpInv, HttpType, Post, Sound
<1>2. CASE known
  <2>. DEFINE y == [x EXCEPT !.stage = "fetching", !.timer = TRUE, !.open = TRUE]
  <2>1. y \in Exchange /\ Sound(c, y) /\ y.stage # "idle"
    BY <1>1 DEF Exchange, Sound, Waiting
  <2>2. http' = [http EXCEPT ![c] = y]
    BY <1>2 DEF Post
  <2>. QED BY <2>1, <2>2 DEF Exchanges
<1>3. CASE ~known
  <2>1. http' = [http EXCEPT ![c] = Rejected(x, "unknown", FALSE)]
    BY <1>3 DEF Post
  <2>. QED BY <1>1, <2>1, RejectsSound DEF Exchanges
<1>. QED BY <1>2, <1>3

(* Whatever the upstream does to an exchange. *)
LEMMA UpstreamSound ==
  ASSUME HttpInv, NEW c \in Calls, Upstream(c)
  PROVE  Exchanges(c) /\ http[c].stage \in Waiting
<1>. DEFINE x == http[c]
<1>1. x \in Exchange /\ Sound(c, x) /\ x.stage \in Waiting /\ ~OverCap(x.got)
  BY DEF HttpInv, HttpType, Upstream, Sound, FetchFails, Refuses, Accepts, BodyFails, Chunk,
         BodyEnds, Waiting
<1>2. x.stage # "resolved"
  BY <1>1 DEF Waiting
<1>3. CASE FetchFails(c)
  <2>1. http' = [http EXCEPT ![c] = Rejected(x, "failed", FALSE)]
    BY <1>3 DEF FetchFails
  <2>. QED BY <1>1, <1>2, <2>1, RejectsSound DEF Exchanges
<1>4. CASE Refuses(c)
  <2>1. http' = [http EXCEPT ![c] = Rejected(x, "status", TRUE)]
    BY <1>4 DEF Refuses
  <2>. QED BY <1>1, <1>2, <2>1, RejectsSound DEF Exchanges
<1>5. CASE BodyFails(c)
  <2>1. http' = [http EXCEPT ![c] = Rejected(x, "body", FALSE)]
    BY <1>5 DEF BodyFails
  <2>. QED BY <1>1, <1>2, <2>1, RejectsSound DEF Exchanges
<1>6. CASE Accepts(c)
  <2>. DEFINE y == [x EXCEPT !.stage = "reading"]
  <2>1. y \in Exchange /\ Sound(c, y) /\ y.stage # "idle"
    BY <1>1 DEF Exchange, Sound, Waiting
  <2>2. http' = [http EXCEPT ![c] = y]
    BY <1>6 DEF Accepts
  <2>. QED BY <1>1, <2>1, <2>2 DEF Exchanges
<1>7. ASSUME NEW n \in 1..MaxBody, Chunk(c, n) PROVE Exchanges(c)
  <2>1. x.got + n \in 0..MaxBody
    BY <1>1, <1>7, HttpAssumption DEF Chunk, Exchange
  <2>2. CASE OverCap(x.got + n)
    <3>. DEFINE y == [Rejected(x, "cap", FALSE) EXCEPT !.got = x.got + n]
    <3>1. y \in Exchange /\ Sound(c, y) /\ y.stage # "idle"
      BY <1>1, <1>2, <2>1, <2>2 DEF Exchange, Rejected, Sound, Waiting
    <3>2. http' = [http EXCEPT ![c] = y]
      BY <1>7, <2>2 DEF Chunk
    <3>. QED BY <3>1, <3>2 DEF Exchanges
  <2>3. CASE ~OverCap(x.got + n)
    <3>. DEFINE y == [x EXCEPT !.got = x.got + n]
    <3>1. y \in Exchange /\ Sound(c, y) /\ y.stage # "idle"
      BY <1>1, <2>1, <2>3 DEF Exchange, Sound, Waiting
    <3>2. http' = [http EXCEPT ![c] = y]
      BY <1>7, <2>3 DEF Chunk
    <3>. QED BY <3>1, <3>2 DEF Exchanges
  <2>. QED BY <2>2, <2>3
<1>8. ASSUME NEW env \in Envelopes, BodyEnds(c, env) PROVE Exchanges(c)
  <2>1. CASE env = "result"
    <3>. DEFINE y == [x EXCEPT !.stage = "resolved", !.why = "result", !.timer = FALSE,
                               !.open = FALSE, !.result = c]
    <3>1. y \in Exchange /\ Sound(c, y) /\ y.stage # "idle"
      BY <1>1 DEF Exchange, Sound, Waiting, Envelopes
    <3>2. http' = [http EXCEPT ![c] = y]
      BY <1>8, <2>1 DEF BodyEnds, Resolves
    <3>. QED BY <3>1, <3>2 DEF Exchanges
  <2>2. CASE env # "result"
    <3>1. http' = [http EXCEPT ![c] = Rejected(x, env, FALSE)]
      BY <1>8, <2>2 DEF BodyEnds, Resolves
    <3>2. env # "status"
      BY DEF Envelopes
    <3>. QED BY <1>1, <1>2, <3>1, <3>2, RejectsSound DEF Exchanges
  <2>. QED BY <2>1, <2>2
<1>. QED BY <1>1, <1>3, <1>4, <1>5, <1>6, <1>7, <1>8 DEF Upstream

LEMMA TimesOutSound ==
  ASSUME HttpInv, NEW c \in Calls, TimesOut(c)
  PROVE  Exchanges(c) /\ http[c].stage \in Waiting
<1>. DEFINE x == http[c]
<1>1. x \in Exchange /\ Sound(c, x) /\ x.stage \in Waiting /\ ~OverCap(x.got)
  BY DEF HttpInv, HttpType, TimesOut, Sound, Waiting
<1>2. http' = [http EXCEPT ![c] = Rejected(x, "timeout", FALSE)]
  BY DEF TimesOut
<1>3. x.stage # "resolved"
  BY <1>1 DEF Waiting
<1>. QED BY <1>1, <1>2, <1>3, RejectsSound DEF Exchanges

(* The other exchanges are what they were. *)
LEMMA ExchangesKeep ==
  ASSUME HttpInv, NEW c \in Calls, Exchanges(c)
  PROVE  HttpInv'
<1> PICK x \in Exchange : Sound(c, x) /\ http' = [http EXCEPT ![c] = x]
  BY DEF Exchanges
<1>1. HttpType'
  BY DEF HttpInv, HttpType
<1>2. \A d \in Calls : Sound(d, http'[d])
  BY DEF HttpInv, HttpType
<1>. QED BY <1>1, <1>2 DEF HttpInv, Sound
-----------------------------------------------------------------------------
(* The calls of the stdio bridge are at rest unless they were sent there,   *)
(* and so are the exchanges of the HTTP bridge.                             *)
States == {"idle", "waiting", "resolved", "rejected"}

StdioType == st \in [Calls -> States] /\ sreply \in [Calls -> Calls \cup {NoCall}]
ReqType   == req = [c \in Calls |-> req[c]] /\ \A c \in Calls : req[c].fate \in Fates

Apart ==
  \A c \in Calls :
    /\ req[c].fate # "stdio" => st[c] = "idle" /\ sreply[c] = NoCall
    /\ req[c].fate # "http" => http[c].stage = "idle"

BackendsInv == HttpInv /\ StdioType /\ ReqType /\ Apart

LEMMA BackendsStart == BackendsInit => BackendsInv
<1> SUFFICES ASSUME BackendsInit PROVE BackendsInv
  OBVIOUS
<1>1. HttpInv
  BY HttpStarts DEF BackendsInit
<1>2. StdioType /\ ReqType /\ Apart
  BY DEF BackendsInit, Stdio!Init, HttpInit, StdioType, ReqType, Apart, States, Fates
<1>. QED BY <1>1, <1>2 DEF BackendsInv

(* A request that is taken up was nowhere before, and stays where it goes.  *)
LEMMA TakesOnce ==
  ASSUME BackendsInv, NEW c \in Calls, NEW tool, NEW fate \in Fates, NEW server,
         Takes(c, tool, fate, server)
  PROVE  /\ ReqType'
         /\ \A d \in Calls \ {c} : req'[d] = req[d]
         /\ req[c].fate = "none" /\ req'[c].fate = fate
         /\ st[c] = "idle" /\ sreply[c] = NoCall /\ http[c].stage = "idle"
BY DEF BackendsInv, ReqType, Apart, Takes, Fates

(* What handling a request comes to: it is answered at once, or it goes to  *)
(* one of the bridges.                                                      *)
Moves(c) ==
  /\ \A d \in Calls \ {c} : req'[d] = req[d]
  /\ req[c].fate = "none"
  /\ \/ req'[c].fate \notin {"stdio", "http"} /\ UNCHANGED <<st, sreply, http>>
     \/ req'[c].fate = "stdio" /\ (Stdio!Refuse(c) \/ Stdio!Issue(c)) /\ UNCHANGED http
     \/ /\ req'[c].fate = "http" /\ UNCHANGED <<st, sreply>>
        /\ \E known \in BOOLEAN : Post(c, known)

LEMMA HandleMoves ==
  ASSUME BackendsInv, NEW c \in Calls, NEW tool \in Tools, Handle(c, tool)
  PROVE  ReqType' /\ Moves(c)
<1>1. CASE NotAllowed(c, tool) \/ ArgumentsStop(c, tool) \/ NoBackend(c, tool)
           \/ NoRoute(c, tool)
  <2> PICK fate \in {"blocked", "stopped", "no_backend", "no_route"} :
        Takes(c, tool, fate, NoServer) /\ UNCHANGED <<st, sreply, http>>
    BY <1>1 DEF NotAllowed, ArgumentsStop, NoBackend, NoRoute, Answered
  <2>. QED BY TakesOnce DEF Moves, Fates
<1>2. CASE ToStdio(c, tool)
  <2>1. Takes(c, tool, "stdio", ServerOf(tool))
    BY <1>2 DEF ToStdio, Forwards
  <2>. QED BY <1>2, <2>1, TakesOnce DEF Moves, Fates, ToStdio
<1>3. CASE ToHttp(c, tool)
  <2>1. Takes(c, tool, "http", ServerOf(tool))
    BY <1>3 DEF ToHttp, Forwards
  <2>2. \E known \in BOOLEAN : Post(c, known)
    <3>1. (ServerOf(tool) \in Owned(cfg.defs, "http")) \in BOOLEAN
      OBVIOUS
    <3>. QED BY <1>3, <3>1 DEF ToHttp
  <2>. QED BY <1>3, <2>1, <2>2, TakesOnce DEF Moves, Fates, ToHttp
<1>. QED BY <1>1, <1>2, <1>3 DEF Handle

(* The invariant when a request is handled. *)
LEMMA MovesKeep ==
  ASSUME BackendsInv, ReqType', NEW c \in Calls, Moves(c)
  PROVE  BackendsInv'
<1>1. CASE req'[c].fate \notin {"stdio", "http"} /\ UNCHANGED <<st, sreply, http>>
  BY <1>1 DEF BackendsInv, HttpInv, HttpType, Sound, StdioType, Apart, Moves
<1>2. CASE /\ req'[c].fate = "stdio" /\ UNCHANGED http
           /\ Stdio!Refuse(c) \/ Stdio!Issue(c)
  <2>1. HttpInv'
    BY <1>2 DEF BackendsInv, HttpInv, HttpType, Sound
  <2>2. StdioType' /\ Apart'
    BY <1>2 DEF BackendsInv, StdioType, Apart, Moves, States, Stdio!Refuse, Stdio!Issue
  <2>. QED BY <2>1, <2>2 DEF BackendsInv
<1>3. CASE /\ req'[c].fate = "http" /\ UNCHANGED <<st, sreply>>
           /\ \E known \in BOOLEAN : Post(c, known)
  <2>1. Exchanges(c)
    BY <1>3, PostSound DEF BackendsInv
  <2>2. HttpInv'
    BY <2>1, ExchangesKeep DEF BackendsInv
  <2>3. StdioType' /\ Apart'
    BY <1>3, <2>1 DEF BackendsInv, HttpInv, HttpType, StdioType, Apart, Moves, Exchanges
  <2>. QED BY <2>2, <2>3 DEF BackendsInv
<1>. QED BY <1>1, <1>2, <1>3 DEF Moves

(* The HTTP bridge goes on with an exchange it has. *)
LEMMA HttpGoesOn ==
  ASSUME BackendsInv, NEW c \in Calls, HttpUpstream(c) \/ HttpTimesOut(c)
  PROVE  /\ Exchanges(c) /\ http[c].stage \in Waiting /\ req[c].fate = "http"
         /\ UNCHANGED <<phase, cfg, req, st, sreply>>
<1>1. Exchanges(c) /\ http[c].stage \in Waiting
  BY UpstreamSound, TimesOutSound DEF BackendsInv, HttpUpstream, HttpTimesOut
<1>. QED BY <1>1 DEF BackendsInv, Apart, HttpUpstream, HttpTimesOut, Waiting

(* So does the stdio bridge: it resolves one call, or fails some. *)
StdioGoesOn ==
  /\ \/ \E c \in Calls : Stdio!Resolve(c)
     \/ \E S \in SUBSET Calls : Stdio!Reject(S)
  /\ UNCHANGED <<req, http>>

LEMMA BackendsStep ==
  ASSUME BackendsInv, [BackendsNext]_backendVars
  PROVE  \/ UNCHANGED <<req, st, sreply, http>>
         \/ StdioGoesOn
         \/ \E c \in Calls : ReqType' /\ Moves(c)
         \/ \E c \in Calls : HttpUpstream(c) \/ HttpTimesOut(c)
<1>1. CASE Boot \/ BridgesDown \/ UNCHANGED backendVars
  BY <1>1 DEF Boot, BridgesDown, backendVars
<1>2. CASE Shutdown
  <2>1. {c \in Calls : st[c] = "waiting"} \in SUBSET Calls
    OBVIOUS
  <2>. QED BY <1>2, <2>1 DEF Shutdown, StdioGoesOn
<1>3. ASSUME NEW c \in Calls, StdioSettles(c) PROVE StdioGoesOn
  <2>1. {c} \in SUBSET Calls
    OBVIOUS
  <2>. QED BY <1>3, <2>1 DEF StdioSettles, StdioGoesOn
<1>. QED BY <1>1, <1>2, <1>3, HandleMoves DEF BackendsNext

LEMMA BackendsKeep ==
  ASSUME BackendsInv, [BackendsNext]_backendVars
  PROVE  BackendsInv'
<1>1. CASE UNCHANGED <<req, st, sreply, http>>
  BY <1>1 DEF BackendsInv, HttpInv, HttpType, Sound, StdioType, ReqType, Apart
<1>2. CASE StdioGoesOn
  <2>1. HttpInv' /\ ReqType'
    BY <1>2 DEF StdioGoesOn, BackendsInv, HttpInv, HttpType, Sound, ReqType
  <2>2. ASSUME NEW c \in Calls, Stdio!Resolve(c) PROVE (StdioType /\ Apart)'
    BY <1>2, <2>2 DEF StdioGoesOn, BackendsInv, StdioType, Apart, States, Stdio!Resolve
  <2>3. ASSUME NEW S \in SUBSET Calls, Stdio!Reject(S) PROVE (StdioType /\ Apart)'
    BY <1>2, <2>3 DEF StdioGoesOn, BackendsInv, StdioType, Apart, States, Stdio!Reject
  <2>4. (StdioType /\ Apart)'
    BY <1>2, <2>2, <2>3 DEF StdioGoesOn
  <2>. QED BY <2>1, <2>4 DEF BackendsInv
<1>3. ASSUME NEW c \in Calls, HttpUpstream(c) \/ HttpTimesOut(c) PROVE BackendsInv'
  <2>1. /\ Exchanges(c) /\ req[c].fate = "http" /\ UNCHANGED <<req, st, sreply>>
    BY <1>3, HttpGoesOn
  <2>2. HttpInv'
    BY <2>1, ExchangesKeep DEF BackendsInv
  <2>3. (StdioType /\ ReqType /\ Apart)'
    BY <2>1 DEF BackendsInv, HttpInv, HttpType, StdioType, ReqType, Apart, Exchanges
  <2>. QED BY <2>2, <2>3 DEF BackendsInv
<1>. QED BY <1>1, <1>2, <1>3, MovesKeep, BackendsStep

LEMMA BackendsInvariant == BackendsSpec => []BackendsInv
BY BackendsStart, BackendsKeep, PTL DEF BackendsSpec

(* Every exchange of the HTTP bridge ends as ExchangeEnds says, whatever    *)
(* the upstream sends and however many calls there are.                     *)
THEOREM ExchangesEnd == BackendsSpec => []ExchangeEnds
<1>1. BackendsInv => ExchangeEnds
  BY HttpAssumption
     DEF BackendsInv, HttpInv, HttpType, Exchange, Sound, OverCap, ExchangeEnds
<1>. QED BY <1>1, BackendsInvariant, PTL
-----------------------------------------------------------------------------
(* The composite promise of each call, by the bridge that has it. *)
LEMMA PromiseOf ==
  ASSUME BackendsInv, NEW c \in Calls
  PROVE  /\ req[c].fate \notin {"stdio", "http"} => state[c] = "idle" /\ reply[c] = NoCall
         /\ req[c].fate = "stdio" => state[c] = st[c] /\ reply[c] = sreply[c]
         /\ req[c].fate = "http" =>
              /\ state[c] = IF http[c].stage \in Waiting THEN "waiting" ELSE http[c].stage
              /\ reply[c] = IF http[c].stage = "resolved" THEN c ELSE NoCall
BY HttpAssumption
   DEF BackendsInv, HttpInv, Sound, Apart, Waiting, state, reply, httpState, httpReply

(* A request that is taken up issues its call, or refuses it, or has none.  *)
LEMMA MovesCompose ==
  ASSUME BackendsInv, BackendsInv', NEW c \in Calls, Moves(c)
  PROVE  Composite!Issue(c) \/ Composite!Refuse(c) \/ UNCHANGED <<state, reply>>
<1>1. \A d \in Calls \ {c} : state'[d] = state[d] /\ reply'[d] = reply[d]
  BY DEF Moves, state, reply, httpState, httpReply, Stdio!Refuse, Stdio!Issue, Post,
     BackendsInv, HttpInv, HttpType, StdioType
<1>2. state[c] = "idle" /\ reply[c] = NoCall
  BY PromiseOf DEF Moves
<1>3. reply'[c] = NoCall /\ state'[c] \in {"idle", "waiting", "rejected"}
  <2>1. CASE req'[c].fate \notin {"stdio", "http"} /\ UNCHANGED <<st, sreply, http>>
    BY <1>2, <2>1 DEF Moves, state, reply, httpState, httpReply
  <2>2. CASE /\ req'[c].fate = "stdio" /\ UNCHANGED http
             /\ Stdio!Refuse(c) \/ Stdio!Issue(c)
    BY <2>2 DEF Moves, state, reply, Stdio!Refuse, Stdio!Issue, BackendsInv, StdioType, Apart
  <2>3. CASE /\ req'[c].fate = "http" /\ UNCHANGED <<st, sreply>>
             /\ \E known \in BOOLEAN : Post(c, known)
    <3>1. /\ http'[c].stage \in {"fetching", "rejected"}
          /\ http'[c].result = http[c].result
      BY <2>3 DEF Post, Rejected, BackendsInv, HttpInv, HttpType, Exchange
    <3>. QED BY <1>2, <2>3, <3>1 DEF Moves, state, reply, httpState, httpReply, Waiting
  <2>. QED BY <2>1, <2>2, <2>3 DEF Moves
<1>4. reply' = reply
  BY <1>1, <1>2, <1>3 DEF reply
<1>5. CASE state'[c] = "idle"
  BY <1>1, <1>2, <1>4, <1>5 DEF state
<1>6. CASE state'[c] = "waiting"
  <2>1. state' = [state EXCEPT ![c] = "waiting"]
    BY <1>1, <1>6 DEF state
  <2>. QED BY <1>2, <1>4, <2>1 DEF Composite!Issue
<1>7. CASE state'[c] = "rejected"
  <2>1. state' = [state EXCEPT ![c] = "rejected"]
    BY <1>1, <1>7 DEF state
  <2>. QED BY <1>2, <1>4, <2>1 DEF Composite!Refuse
<1>. QED BY <1>3, <1>5, <1>6, <1>7

(* An exchange goes on, or its promise is settled. *)
LEMMA HttpComposes ==
  ASSUME BackendsInv, BackendsInv', NEW c \in Calls, HttpUpstream(c) \/ HttpTimesOut(c)
  PROVE  Composite!Resolve(c) \/ Composite!Reject({c}) \/ UNCHANGED <<state, reply>>
<1>1. /\ Exchanges(c) /\ http[c].stage \in Waiting /\ req[c].fate = "http"
      /\ UNCHANGED <<req, st, sreply>>
  BY HttpGoesOn
<1>2. \A d \in Calls \ {c} : state'[d] = state[d] /\ reply'[d] = reply[d]
  BY <1>1 DEF Exchanges, state, reply, httpState, httpReply, BackendsInv, HttpInv, HttpType
<1>3. state[c] = "waiting" /\ reply[c] = NoCall
  BY <1>1, PromiseOf DEF Waiting
<1>4. PICK x \in Exchange : /\ Sound(c, x) /\ x.stage # "idle"
                            /\ http' = [http EXCEPT ![c] = x]
  BY <1>1 DEF Exchanges
<1>5. /\ state'[c] = IF x.stage \in Waiting THEN "waiting" ELSE x.stage
      /\ reply'[c] = IF x.stage = "resolved" THEN c ELSE NoCall
  BY <1>1, <1>4, HttpAssumption
     DEF state, reply, httpState, httpReply, BackendsInv, HttpInv, HttpType, Sound
<1>6. CASE x.stage \in Waiting
  BY <1>2, <1>3, <1>5, <1>6 DEF state, reply, Waiting
<1>7. CASE x.stage = "resolved"
  <2>1. state' = [state EXCEPT ![c] = "resolved"] /\ reply' = [reply EXCEPT ![c] = c]
    BY <1>2, <1>5, <1>7 DEF state, reply, Waiting
  <2>. QED BY <1>3, <2>1 DEF Composite!Resolve
<1>8. CASE x.stage = "rejected"
  <2>1. /\ state' = [d \in Calls |-> IF d \in {c} THEN "rejected" ELSE state[d]]
        /\ reply' = reply
    BY <1>2, <1>3, <1>5, <1>8 DEF state, reply, Waiting
  <2>. QED BY <1>3, <2>1 DEF Composite!Reject
<1>. QED BY <1>4, <1>6, <1>7, <1>8 DEF Exchange

(* What the stdio bridge settles, the composite settles. *)
LEMMA StdioComposes ==
  ASSUME BackendsInv, BackendsInv', StdioGoesOn
  PROVE  \/ \E c \in Calls : Composite!Resolve(c)
         \/ \E S \in SUBSET Calls : Composite!Reject(S)
<1>1. ASSUME NEW c \in Calls, Stdio!Resolve(c) PROVE Composite!Resolve(c)
  <2>1. req[c].fate = "stdio"
    BY <1>1 DEF BackendsInv, Apart, Stdio!Resolve
  <2>2. state[c] = "waiting"
    BY <1>1, <2>1 DEF state, Stdio!Resolve
  <2>3. state' = [state EXCEPT ![c] = "resolved"] /\ reply' = [reply EXCEPT ![c] = c]
    BY <1>1, <2>1
       DEF StdioGoesOn, state, reply, httpState, httpReply, Stdio!Resolve, BackendsInv, StdioType
  <2>. QED BY <2>2, <2>3 DEF Composite!Resolve
<1>2. ASSUME NEW S \in SUBSET Calls, Stdio!Reject(S) PROVE Composite!Reject(S)
  <2>1. \A c \in S : req[c].fate = "stdio"
    BY <1>2 DEF BackendsInv, Apart, Stdio!Reject
  <2>2. \A c \in S : state[c] = "waiting"
    BY <1>2, <2>1 DEF state, Stdio!Reject
  <2>3. \A c \in Calls : state'[c] = IF c \in S THEN "rejected" ELSE state[c]
    BY <1>2, <2>1 DEF StdioGoesOn, state, httpState, Stdio!Reject
  <2>4. state' = [c \in Calls |-> IF c \in S THEN "rejected" ELSE state[c]] /\ reply' = reply
    BY <1>2, <2>3 DEF StdioGoesOn, state, reply, httpReply, Stdio!Reject
  <2>. QED BY <2>2, <2>4 DEF Composite!Reject
<1>. QED BY <1>1, <1>2 DEF StdioGoesOn

(* The two bridges behind one call() are again what McpTransport promises,  *)
(* for any number of calls and whatever the configuration: a promise is     *)
(* settled once, and resolved with the result of its own call only.         *)
THEOREM CompositeImplements == BackendsSpec => CompositeIsTransport
<1>1. BackendsInit => Composite!Init
  <2> SUFFICES ASSUME BackendsInit PROVE Composite!Init
    OBVIOUS
  <2>1. \A c \in Calls : state[c] = "idle" /\ reply[c] = NoCall
    BY DEF BackendsInit, HttpInit, state, reply, httpState, httpReply, Waiting
  <2>. QED BY <2>1 DEF Composite!Init, state, reply
<1>2. BackendsInv /\ BackendsInv' /\ [BackendsNext]_backendVars
        => [Composite!Next]_(Composite!vars)
  <2> SUFFICES ASSUME BackendsInv, BackendsInv', [BackendsNext]_backendVars
               PROVE  [Composite!Next]_(Composite!vars)
    OBVIOUS
  <2>1. CASE UNCHANGED <<req, st, sreply, http>>
    BY <2>1 DEF Composite!vars, state, reply, httpState, httpReply
  <2>2. CASE StdioGoesOn
    BY <2>2, StdioComposes DEF Composite!Next
  <2>3. ASSUME NEW c \in Calls, Moves(c) PROVE [Composite!Next]_(Composite!vars)
    BY <2>3, MovesCompose DEF Composite!Next, Composite!vars
  <2>4. ASSUME NEW c \in Calls, HttpUpstream(c) \/ HttpTimesOut(c)
        PROVE  [Composite!Next]_(Composite!vars)
    <3>1. {c} \in SUBSET Calls
      OBVIOUS
    <3>. QED BY <2>4, <3>1, HttpComposes DEF Composite!Next, Composite!vars
  <2>. QED BY <2>1, <2>2, <2>3, <2>4, BackendsStep
<1>. QED BY <1>1, <1>2, BackendsInvariant, PTL
     DEF BackendsSpec, CompositeIsTransport, Composite!Spec
-----------------------------------------------------------------------------
(* Where a tool call goes. *)
Routes == Seq(ServerRoute)
-----------------------------------------------------------------------------
(* The order of the routes.                                                 *)

LEMMA RouteType ==
  ASSUME NEW routes \in Routes, NEW i \in DOMAIN routes
  PROVE  /\ routes[i].pattern.stars \in Nat /\ Len(routes[i].pattern.text) \in Nat
         /\ routes[i].server \in STRING /\ i \in Nat
         /\ PatternLength(routes[i].pattern) \in Nat
<1>1. routes[i] \in ServerRoute /\ i \in Nat
  BY DEF Routes
<1>2. routes[i].pattern \in ToolPattern /\ routes[i].server \in STRING
  BY <1>1 DEF ServerRoute
<1>3. routes[i].pattern.stars \in Nat /\ routes[i].pattern.text \in Seq(STRING)
  BY <1>2 DEF ToolPattern
<1>. QED BY <1>1, <1>2, <1>3 DEF PatternLength

(* The comparison of sortRoutes is a strict total order. *)
LEMMA PrecedesOrders ==
  ASSUME NEW routes \in Routes, NEW i \in DOMAIN routes, NEW j \in DOMAIN routes
  PROVE  /\ ~Precedes(routes, i, i)
         /\ i # j => Precedes(routes, i, j) \/ Precedes(routes, j, i)
         /\ \A k \in DOMAIN routes :
              Precedes(routes, i, j) /\ Precedes(routes, j, k) => Precedes(routes, i, k)
BY RouteType DEF Precedes

Before(routes, i) == {j \in DOMAIN routes : Precedes(routes, j, i)}

LEMMA RoutesFinite ==
  ASSUME NEW routes \in Routes
  PROVE  /\ DOMAIN routes = 1..Len(routes) /\ Len(routes) \in Nat
         /\ IsFiniteSet(DOMAIN routes) /\ Cardinality(DOMAIN routes) = Len(routes)
<1>1. DOMAIN routes = 1..Len(routes) /\ Len(routes) \in Nat
  BY DEF Routes
<1>2. ASSUME NEW n \in Nat PROVE IsFiniteSet(1..n) /\ Cardinality(1..n) = n
  <2>1. IsFiniteSet(1..n) /\ Cardinality(1..n) = IF 1 > n THEN 0 ELSE n - 1 + 1
    BY FS_Interval
  <2>. QED BY <2>1
<1>. QED BY <1>1, <1>2

(* A route that precedes another has the lower rank. *)
LEMMA RankIncreases ==
  ASSUME NEW routes \in Routes, NEW i \in DOMAIN routes, NEW j \in DOMAIN routes,
         Precedes(routes, i, j)
  PROVE  Rank(routes, i) < Rank(routes, j)
<1>1. Before(routes, i) \cup {i} \in SUBSET Before(routes, j) /\ i \notin Before(routes, i)
  BY PrecedesOrders DEF Before
<1>2. Before(routes, i) \in SUBSET DOMAIN routes /\ Before(routes, j) \in SUBSET DOMAIN routes
  BY DEF Before
<1>3. IsFiniteSet(Before(routes, i)) /\ IsFiniteSet(Before(routes, j))
  BY <1>2, RoutesFinite, FS_Subset
<1>4. /\ Cardinality(Before(routes, i) \cup {i}) = Cardinality(Before(routes, i)) + 1
      /\ Cardinality(Before(routes, i)) \in Nat /\ Cardinality(Before(routes, j)) \in Nat
  BY <1>1, <1>3, FS_AddElement, FS_CardinalityType
<1>5. Cardinality(Before(routes, i) \cup {i}) <= Cardinality(Before(routes, j))
  BY <1>1, <1>3, FS_Subset
<1>. QED BY <1>4, <1>5 DEF Rank, Before

LEMMA RankType ==
  ASSUME NEW routes \in Routes, NEW i \in DOMAIN routes
  PROVE  Rank(routes, i) \in 0..(Len(routes) - 1)
<1>1. Before(routes, i) \in SUBSET (DOMAIN routes \ {i})
  BY PrecedesOrders DEF Before
<1>2. IsFiniteSet(DOMAIN routes \ {i}) /\ Cardinality(DOMAIN routes \ {i}) = Len(routes) - 1
  BY RoutesFinite, FS_RemoveElement
<1>3. /\ Cardinality(Before(routes, i)) <= Cardinality(DOMAIN routes \ {i})
      /\ IsFiniteSet(Before(routes, i))
  BY <1>1, <1>2, FS_Subset
<1>4. Cardinality(Before(routes, i)) \in Nat
  BY <1>3, FS_CardinalityType
<1>. QED BY <1>2, <1>3, <1>4, RoutesFinite DEF Rank, Before

(* Ranks tell routes apart, so every rank is taken. *)
LEMMA RankInjective ==
  ASSUME NEW routes \in Routes, NEW i \in DOMAIN routes, NEW j \in DOMAIN routes,
         Rank(routes, i) = Rank(routes, j)
  PROVE  i = j
<1>1. Rank(routes, i) \in Nat
  BY RankType
<1>2. ~Precedes(routes, i, j) /\ ~Precedes(routes, j, i)
  BY <1>1, RankIncreases
<1>. QED BY <1>2, PrecedesOrders

LEMMA RankOnto ==
  ASSUME NEW routes \in Routes, NEW k \in DOMAIN routes
  PROVE  \E i \in DOMAIN routes : Rank(routes, i) = k - 1
<1>. DEFINE n    == Len(routes)
            R    == 0..(n - 1)
            rank == [i \in DOMAIN routes |-> Rank(routes, i)]
<1>1. n \in Nat /\ n > 0 /\ k \in 1..n
  BY RoutesFinite
<1>2. IsFiniteSet(R) /\ Cardinality(R) = n
  <2>1. 0 \in Int /\ n - 1 \in Int /\ ~(0 > n - 1) /\ (n - 1) - 0 + 1 = n
    BY <1>1
  <2>. HIDE DEF n
  <2>. QED BY <2>1, FS_Interval
<1>3. rank \in [DOMAIN routes -> R]
  BY RankType
<1>4. \A i, j \in DOMAIN routes : rank[i] = rank[j] => i = j
  BY RankInjective
<1>. HIDE DEF rank, R
<1>5. rank \in Injection(DOMAIN routes, R)
  BY <1>3, <1>4 DEF Injection, IsInjective
<1>6. rank \in Surjection(DOMAIN routes, R)
  BY <1>2, <1>5, FS_Injection, RoutesFinite
<1>7. k - 1 \in R
  BY <1>1 DEF R
<1>8. \E i \in DOMAIN routes : rank[i] = k - 1
  BY <1>6, <1>7 DEF Surjection
<1>. QED BY <1>8 DEF rank

(* The sorted table has every route at the place of its rank. *)
LEMMA SortRoutes ==
  ASSUME NEW routes \in Routes
  PROVE  /\ DOMAIN sortRoutes(routes) = DOMAIN routes
         /\ sortRoutes(routes) \in Routes /\ Len(sortRoutes(routes)) = Len(routes)
         /\ \A k \in DOMAIN routes : \E i \in DOMAIN routes :
              Rank(routes, i) = k - 1 /\ sortRoutes(routes)[k] = routes[i]
         /\ \A i \in DOMAIN routes : sortRoutes(routes)[Rank(routes, i) + 1] = routes[i]
<1>. DEFINE At(k)  == CHOOSE i \in DOMAIN routes : Rank(routes, i) = k - 1
            sorted == sortRoutes(routes)
<1>1. \A k \in DOMAIN routes : At(k) \in DOMAIN routes /\ Rank(routes, At(k)) = k - 1
  BY RankOnto
<1>2. DOMAIN sorted = DOMAIN routes /\ \A k \in DOMAIN routes : sorted[k] = routes[At(k)]
  BY DEF sortRoutes
<1>. HIDE DEF At, sorted
<1>3. \A k \in DOMAIN routes : \E i \in DOMAIN routes :
        Rank(routes, i) = k - 1 /\ sorted[k] = routes[i]
  BY <1>1, <1>2
<1>4. sorted \in [1..Len(routes) -> ServerRoute]
  <2>1. \A k \in DOMAIN routes : sorted[k] \in ServerRoute
    BY <1>3 DEF Routes
  <2>2. sorted = [k \in DOMAIN routes |-> sorted[k]]
    BY DEF sorted, sortRoutes
  <2>. QED BY <2>1, <2>2, RoutesFinite
<1>5. sorted \in Routes /\ Len(sorted) = Len(routes)
  BY <1>4, RoutesFinite DEF Routes
<1>6. ASSUME NEW i \in DOMAIN routes PROVE sorted[Rank(routes, i) + 1] = routes[i]
  <2>1. Rank(routes, i) \in Nat /\ Rank(routes, i) + 1 \in DOMAIN routes
    BY RankType, RoutesFinite
  <2>2. PICK j \in DOMAIN routes : /\ Rank(routes, j) = (Rank(routes, i) + 1) - 1
                                   /\ sorted[Rank(routes, i) + 1] = routes[j]
    BY <1>3, <2>1
  <2>3. j = i
    BY <2>1, <2>2, RankInjective
  <2>. QED BY <2>2, <2>3
<1>. QED BY <1>2, <1>3, <1>5, <1>6 DEF sorted
-----------------------------------------------------------------------------
(* The first match in the sorted table precedes every other.                *)
MatchesOf(tool, routes) == {k \in DOMAIN routes : matchesPattern(tool, routes[k].pattern)}

LEMMA LeastOf ==
  ASSUME NEW S \in SUBSET Nat, S # {}
  PROVE  Min(S) \in S /\ \A y \in S : Min(S) <= y
<1>. DEFINE R == OpToRel(<, Nat)
<1>1. IsWellFoundedOn(R, Nat)
  BY NatLessThanWellFounded
<1>2. \A x, y \in Nat : x < y => <<x, y>> \in R
  BY DEF OpToRel
<1>. HIDE DEF R
<1>3. PICK x \in S : \A y \in S : ~(<<y, x>> \in R)
  BY <1>1, WFMin
<1>4. ASSUME NEW y \in S PROVE x <= y
  <2>1. x \in Nat /\ y \in Nat /\ ~(<<y, x>> \in R)
    BY <1>3
  <2>2. ~(y < x)
    BY <1>2, <2>1
  <2>. QED BY <2>1, <2>2
<1>. QED BY <1>4 DEF Min

(* What resolveRoute finds: the server of the first match, if any. *)
LEMMA FirstMatch ==
  ASSUME NEW tool, NEW sorted \in Routes
  PROVE  IF MatchesOf(tool, sorted) = {} THEN resolveRoute(tool, sorted) = NoServer
         ELSE \E i \in MatchesOf(tool, sorted) :
                /\ resolveRoute(tool, sorted) = sorted[i].server
                /\ \A j \in MatchesOf(tool, sorted) : i <= j
<1>. DEFINE M == MatchesOf(tool, sorted)
            I == {i \in 1..Len(sorted) : matchesPattern(tool, sorted[i].pattern)}
<1>1. I = M /\ I \in SUBSET (Nat \ {0})
  BY RoutesFinite DEF MatchesOf
<1>2. resolveRoute(tool, sorted) =
        LET i == IF I # {} THEN Min(I) ELSE 0 IN IF i = 0 THEN NoServer ELSE sorted[i].server
  BY DEF resolveRoute, SelectInSeq
<1>. HIDE DEF M, I
<1>3. CASE I = {}
  BY <1>1, <1>2, <1>3 DEF M
<1>4. CASE I # {}
  <2>1. Min(I) \in I /\ \A y \in I : Min(I) <= y
    BY <1>1, <1>4, LeastOf
  <2>. QED BY <1>1, <1>2, <1>4, <2>1 DEF M
<1>. QED BY <1>3, <1>4

(* A tool is routed by the match that precedes all other matches. *)
LEMMA RoutedByFirst ==
  ASSUME NEW tool, NEW routes \in Routes, MatchesOf(tool, routes) # {}
  PROVE  \E k \in MatchesOf(tool, routes) :
           /\ resolveRoute(tool, sortRoutes(routes)) = routes[k].server
           /\ \A j \in MatchesOf(tool, routes) \ {k} : Precedes(routes, k, j)
<1>. DEFINE sorted == sortRoutes(routes)
<1>1. /\ DOMAIN sorted = DOMAIN routes /\ sorted \in Routes
      /\ \A k \in DOMAIN routes : \E i \in DOMAIN routes :
           Rank(routes, i) = k - 1 /\ sorted[k] = routes[i]
      /\ \A i \in DOMAIN routes : sorted[Rank(routes, i) + 1] = routes[i]
  BY SortRoutes
<1>. HIDE DEF sorted
<1>2. ASSUME NEW j \in MatchesOf(tool, routes)
      PROVE  Rank(routes, j) + 1 \in MatchesOf(tool, sorted) /\ Rank(routes, j) \in Nat
  <2>1. j \in DOMAIN routes /\ matchesPattern(tool, routes[j].pattern)
    BY DEF MatchesOf
  <2>2. Rank(routes, j) \in Nat /\ Rank(routes, j) + 1 \in DOMAIN routes
    BY <2>1, RankType, RoutesFinite
  <2>. QED BY <1>1, <2>1, <2>2 DEF MatchesOf
<1>3. PICK m \in MatchesOf(tool, sorted) :
        /\ resolveRoute(tool, sorted) = sorted[m].server
        /\ \A j \in MatchesOf(tool, sorted) : m <= j
  BY <1>1, <1>2, FirstMatch
<1>4. PICK k \in DOMAIN routes : Rank(routes, k) = m - 1 /\ sorted[m] = routes[k]
  BY <1>1 DEF MatchesOf
<1>5. k \in MatchesOf(tool, routes)
  BY <1>4 DEF MatchesOf
<1>6. ASSUME NEW j \in MatchesOf(tool, routes) \ {k} PROVE Precedes(routes, k, j)
  <2>1. j \in DOMAIN routes /\ m \in Nat
    <3>1. m \in DOMAIN routes /\ j \in DOMAIN routes
      BY <1>1, <1>3 DEF MatchesOf
    <3>. QED BY <3>1, RoutesFinite
  <2>2. m <= Rank(routes, j) + 1 /\ Rank(routes, j) \in Nat
    BY <1>2, <1>3
  <2>3. ~(Rank(routes, j) < Rank(routes, k))
    BY <1>4, <2>1, <2>2
  <2>4. ~Precedes(routes, j, k)
    BY <2>1, <2>3, RankIncreases
  <2>. QED BY <2>1, <2>4, PrecedesOrders
<1>. QED BY <1>3, <1>4, <1>5, <1>6 DEF sorted

(* Without a match there is no server. *)
LEMMA RoutedOrNot ==
  ASSUME NEW tool, NEW routes \in Routes, resolveRoute(tool, sortRoutes(routes)) # NoServer
  PROVE  MatchesOf(tool, routes) # {}
<1>. SUFFICES ASSUME MatchesOf(tool, routes) = {} PROVE FALSE
  OBVIOUS
<1>1. sortRoutes(routes) \in Routes /\ MatchesOf(tool, sortRoutes(routes)) = {}
  BY SortRoutes DEF MatchesOf
<1>. QED BY <1>1, FirstMatch

(* What comes first in the sorted table is the more specific pattern. *)
LEMMA FirstIsSpecific ==
  ASSUME NEW routes \in Routes, NEW k \in DOMAIN routes, NEW j \in DOMAIN routes,
         k = j \/ Precedes(routes, k, j)
  PROVE  MoreSpecific(routes[k].pattern, routes[j].pattern)
<1>. DEFINE p == routes[k].pattern
            q == routes[j].pattern
<1>1. /\ p.stars \in Nat /\ Len(p.text) \in Nat /\ k \in Nat
      /\ q.stars \in Nat /\ Len(q.text) \in Nat /\ j \in Nat
  BY RouteType
<1>2. \/ k = j
      \/ p.stars = 0 /\ q.stars > 0
      \/ (p.stars = 0) = (q.stars = 0) /\ Len(p.text) + p.stars >= Len(q.text) + q.stars
  <2>1. PatternLength(p) = Len(p.text) + p.stars /\ PatternLength(q) = Len(q.text) + q.stars
    BY DEF PatternLength
  <2>2. \/ k = j
        \/ p.stars = 0 /\ q.stars > 0
        \/ /\ (p.stars = 0) = (q.stars = 0)
           /\ PatternLength(p) > PatternLength(q) \/ PatternLength(p) = PatternLength(q)
    BY DEF Precedes
  <2>. HIDE DEF p, q
  <2>. QED BY <1>1, <2>1, <2>2
<1>. HIDE DEF p, q
<1>3. MoreSpecific(p, q)
  <2>1. CASE k = j
    <3>1. p = q
      BY <2>1 DEF p, q
    <3>. QED BY <1>1, <3>1 DEF MoreSpecific
  <2>2. CASE p.stars = 0 /\ q.stars > 0
    BY <2>2 DEF MoreSpecific
  <2>3. CASE (p.stars = 0) = (q.stars = 0) /\ Len(p.text) + p.stars >= Len(q.text) + q.stars
    <3>1. CASE p.stars = 0
      BY <3>1 DEF MoreSpecific
    <3>2. CASE p.stars = 1
      <4>1. q.stars > 0 /\ Len(p.text) >= Len(q.text)
        BY <1>1, <2>3, <3>2
      <4>. QED BY <3>2, <4>1 DEF MoreSpecific
    <3>3. CASE p.stars > 1
      BY <1>1, <2>3, <3>3 DEF MoreSpecific
    <3>. QED BY <1>1, <3>1, <3>2, <3>3
  <2>. QED BY <1>2, <2>1, <2>2, <2>3
<1>. QED BY <1>3 DEF p, q
-----------------------------------------------------------------------------
(* The invariant: what is known of a request once it has been taken up, by  *)
(* the configuration the process serves.                                    *)

Served == phase \in {"serving", "stopping", "stopped"}

CfgOK ==
  /\ cfg \in [defs : Seq(ServerDef), routes : Routes, allowed : SUBSET ToolPattern]
  /\ Served => validateServerConfig(cfg.defs, cfg.routes)

WentRight(r) ==
  /\ r.fate # "none" => (r.fate = "blocked" <=> ~checkAllowlist(r.tool, cfg.allowed))
  /\ r.fate \in {"stdio", "http"} =>
       r.server = ServerOf(r.tool) /\ r.server # NoServer /\ r.server \in Owned(cfg.defs, r.fate)
  /\ r.fate = "no_route" => ServerOf(r.tool) = NoServer

RoutingInv ==
  CfgOK /\ \A c \in Calls : WentRight(req[c]) /\ http[c].why # "unknown"

LEMMA RoutingStarts == BackendsInit => RoutingInv
<1> SUFFICES ASSUME BackendsInit PROVE RoutingInv
  OBVIOUS
<1>1. CfgOK
  BY BackendsAssumption DEF BackendsInit, CfgOK, Served, Routes
<1>2. \A c \in Calls : req[c].fate = "none" /\ http[c].why = "none"
  BY DEF BackendsInit, HttpInit
<1>. QED BY <1>1, <1>2 DEF RoutingInv, WentRight

(* A server a tool is routed to is declared, with one transport or the      *)
(* other.                                                                   *)
LEMMA RoutedToDeclared ==
  ASSUME CfgOK, Served, NEW tool, ServerOf(tool) # NoServer
  PROVE  ServerOf(tool) \in Owned(cfg.defs, "stdio") \cup Owned(cfg.defs, "http")
<1>1. cfg.routes \in Routes /\ cfg.defs \in Seq(ServerDef)
  BY DEF CfgOK
<1>2. PICK k \in DOMAIN cfg.routes : ServerOf(tool) = cfg.routes[k].server
  <2>1. MatchesOf(tool, cfg.routes) # {}
    BY <1>1, RoutedOrNot DEF ServerOf
  <2>. QED BY <1>1, <2>1, RoutedByFirst DEF ServerOf, MatchesOf
<1>3. ServerOf(tool) \in Names(cfg.defs)
  BY <1>2 DEF CfgOK, validateServerConfig
<1>4. PICK i \in DOMAIN cfg.defs : cfg.defs[i].name = ServerOf(tool)
  BY <1>3 DEF Names
<1>5. cfg.defs[i].transport \in {"stdio", "http"}
  <2>1. cfg.defs[i] \in ServerDef
    BY <1>1
  <2>. QED BY <2>1 DEF ServerDef
<1>. QED BY <1>4, <1>5 DEF Owned

(* Handling a request decides its fate by the tables, and the HTTP bridge   *)
(* gets no call for a server that is not its own.                           *)
LEMMA HandleRoutes ==
  ASSUME BackendsInv, RoutingInv, NEW c \in Calls, NEW tool \in Tools, Handle(c, tool)
  PROVE  /\ WentRight(req'[c]) /\ \A d \in Calls \ {c} : req'[d] = req[d]
         /\ UNCHANGED <<phase, cfg>>
         /\ http' = http \/ Post(c, TRUE)
<1>. DEFINE s == ServerOf(tool)
<1>0. PICK fate, server : fate \in Fates /\ Takes(c, tool, fate, server)
  BY DEF Handle, NotAllowed, ArgumentsStop, NoBackend, NoRoute, ToStdio, ToHttp, Forwards, Fates
<1>1. Served /\ CfgOK /\ UNCHANGED <<phase, cfg>> /\ \A d \in Calls \ {c} : req'[d] = req[d]
  BY <1>0, TakesOnce DEF Takes, Served, RoutingInv
<1>2. ASSUME NEW f, NEW n, Takes(c, tool, f, n)
      PROVE  req'[c] = [tool |-> tool, fate |-> f, server |-> n]
  BY <1>2 DEF Takes, BackendsInv, ReqType
<1>3. CASE NotAllowed(c, tool)
  <2>1. Takes(c, tool, "blocked", NoServer) /\ ~checkAllowlist(tool, cfg.allowed) /\ http' = http
    BY <1>3 DEF NotAllowed, Answered
  <2>2. req'[c] = [tool |-> tool, fate |-> "blocked", server |-> NoServer]
    BY <1>2, <2>1
  <2>. QED BY <1>1, <2>1, <2>2 DEF WentRight
<1>4. CASE ArgumentsStop(c, tool)
  <2>1. Takes(c, tool, "stopped", NoServer) /\ checkAllowlist(tool, cfg.allowed) /\ http' = http
    BY <1>4 DEF ArgumentsStop, Answered
  <2>2. req'[c] = [tool |-> tool, fate |-> "stopped", server |-> NoServer]
    BY <1>2, <2>1
  <2>. QED BY <1>1, <2>1, <2>2 DEF WentRight
<1>5. CASE NoBackend(c, tool)
  <2>1. Takes(c, tool, "no_backend", NoServer) /\ checkAllowlist(tool, cfg.allowed) /\ http' = http
    BY <1>5 DEF NoBackend, Answered
  <2>2. req'[c] = [tool |-> tool, fate |-> "no_backend", server |-> NoServer]
    BY <1>2, <2>1
  <2>. QED BY <1>1, <2>1, <2>2 DEF WentRight
<1>6. CASE NoRoute(c, tool)
  <2>1. Takes(c, tool, "no_route", NoServer) /\ checkAllowlist(tool, cfg.allowed) /\ s = NoServer /\ http' = http
    BY <1>6 DEF NoRoute, Answered
  <2>2. req'[c] = [tool |-> tool, fate |-> "no_route", server |-> NoServer]
    BY <1>2, <2>1
  <2>. QED BY <1>1, <2>1, <2>2 DEF WentRight
<1>7. CASE ToStdio(c, tool)
  <2>1. /\ req'[c] = [tool |-> tool, fate |-> "stdio", server |-> s]
        /\ checkAllowlist(tool, cfg.allowed) /\ s # NoServer /\ s \in Owned(cfg.defs, "stdio")
        /\ http' = http
    BY <1>2, <1>7 DEF ToStdio, Forwards
  <2>. QED BY <1>1, <2>1 DEF WentRight
<1>8. CASE ToHttp(c, tool)
  <2>1. /\ req'[c] = [tool |-> tool, fate |-> "http", server |-> s]
        /\ checkAllowlist(tool, cfg.allowed) /\ s # NoServer /\ s \notin Owned(cfg.defs, "stdio")
        /\ Post(c, s \in Owned(cfg.defs, "http"))
    BY <1>2, <1>8 DEF ToHttp, Forwards
  <2>2. s \in Owned(cfg.defs, "http")
    BY <1>1, <2>1, RoutedToDeclared
  <2>3. Post(c, TRUE)
    BY <2>1, <2>2 DEF Post
  <2>4. WentRight(req'[c])
    BY <2>1, <2>2 DEF WentRight
  <2>. QED BY <1>1, <2>3, <2>4
<1>9. \/ NotAllowed(c, tool) \/ ArgumentsStop(c, tool) \/ NoBackend(c, tool)
      \/ NoRoute(c, tool) \/ ToStdio(c, tool) \/ ToHttp(c, tool)
  BY DEF Handle
<1>. QED BY <1>3, <1>4, <1>5, <1>6, <1>7, <1>8, <1>9

(* No step of an exchange makes its server unknown. *)
LEMMA StaysKnown ==
  ASSUME HttpInv, NEW c \in Calls, Post(c, TRUE) \/ Upstream(c) \/ TimesOut(c),
         \A d \in Calls : http[d].why # "unknown"
  PROVE  \A d \in Calls : http'[d].why # "unknown"
<1>1. http \in [Calls -> Exchange]
  BY DEF HttpInv, HttpType
<1>2. ASSUME NEW x, x.why # "unknown", http' = [http EXCEPT ![c] = x]
      PROVE  \A d \in Calls : http'[d].why # "unknown"
  BY <1>1, <1>2
<1>3. ASSUME NEW why, why # "unknown", NEW open
      PROVE  Rejected(http[c], why, open).why # "unknown"
  BY <1>1, <1>3 DEF Rejected, Exchange
<1>4. CASE Post(c, TRUE) \/ Accepts(c)
  <2>1. PICK x : x = http[c] /\ x \in Exchange /\ x.why # "unknown"
    BY <1>1
  <2>2. CASE Post(c, TRUE)
    <3>1. http' = [http EXCEPT ![c] = [x EXCEPT !.stage = "fetching", !.timer = TRUE, !.open = TRUE]]
      BY <2>1, <2>2 DEF Post
    <3>2. [x EXCEPT !.stage = "fetching", !.timer = TRUE, !.open = TRUE].why = x.why
      BY <2>1 DEF Exchange
    <3>. QED BY <1>2, <2>1, <3>1, <3>2
  <2>3. CASE Accepts(c)
    <3>1. http' = [http EXCEPT ![c] = [x EXCEPT !.stage = "reading"]]
      BY <2>1, <2>3 DEF Accepts
    <3>2. [x EXCEPT !.stage = "reading"].why = x.why
      BY <2>1 DEF Exchange
    <3>. QED BY <1>2, <2>1, <3>1, <3>2
  <2>. QED BY <1>4, <2>2, <2>3
<1>5. CASE FetchFails(c) \/ Refuses(c) \/ BodyFails(c) \/ TimesOut(c)
  <2>1. \E why \in {"failed", "status", "body", "timeout"}, open \in BOOLEAN :
          http' = [http EXCEPT ![c] = Rejected(http[c], why, open)]
    BY <1>5 DEF FetchFails, Refuses, BodyFails, TimesOut
  <2>. QED BY <1>2, <1>3, <2>1
<1>6. ASSUME NEW n \in 1..MaxBody, Chunk(c, n) PROVE \A d \in Calls : http'[d].why # "unknown"
  BY <1>1, <1>6 DEF Chunk, Rejected, Exchange
<1>7. ASSUME NEW env \in Envelopes, BodyEnds(c, env)
      PROVE  \A d \in Calls : http'[d].why # "unknown"
  BY <1>1, <1>7 DEF BodyEnds, Rejected, Exchange, Envelopes
<1>. QED BY <1>4, <1>5, <1>6, <1>7 DEF Upstream

LEMMA RoutingKeeps ==
  ASSUME BackendsInv, RoutingInv, [BackendsNext]_backendVars
  PROVE  RoutingInv'
<1>1. ASSUME NEW c \in Calls, NEW tool \in Tools, Handle(c, tool) PROVE RoutingInv'
  <2>1. /\ WentRight(req'[c]) /\ \A d \in Calls \ {c} : req'[d] = req[d]
        /\ UNCHANGED <<phase, cfg>>
    BY <1>1, HandleRoutes
  <2>2. \A d \in Calls : http'[d].why # "unknown"
    BY <1>1, HandleRoutes, StaysKnown DEF BackendsInv, RoutingInv
  <2>. QED BY <2>1, <2>2 DEF RoutingInv, CfgOK, Served, WentRight, ServerOf
<1>2. ASSUME NEW c \in Calls, HttpUpstream(c) \/ HttpTimesOut(c) PROVE RoutingInv'
  <2>1. \A d \in Calls : http'[d].why # "unknown"
    BY <1>2, StaysKnown DEF BackendsInv, RoutingInv, HttpUpstream, HttpTimesOut
  <2>2. UNCHANGED <<phase, cfg, req>>
    BY <1>2 DEF HttpUpstream, HttpTimesOut
  <2>. QED BY <2>1, <2>2 DEF RoutingInv, CfgOK, Served, WentRight, ServerOf
<1>3. CASE Boot
  BY <1>3 DEF Boot, RoutingInv, CfgOK, Served, WentRight, ServerOf
<1>4. CASE Shutdown \/ BridgesDown
  BY <1>4 DEF Shutdown, BridgesDown, RoutingInv, CfgOK, Served, WentRight, ServerOf
<1>5. ASSUME UNCHANGED <<phase, cfg, req, http>> PROVE RoutingInv'
  BY <1>5 DEF RoutingInv, CfgOK, Served, WentRight, ServerOf
<1>6. ASSUME NEW c \in Calls, StdioSettles(c) PROVE RoutingInv'
  BY <1>5, <1>6 DEF StdioSettles
<1>7. CASE UNCHANGED backendVars
  BY <1>5, <1>7 DEF backendVars
<1>. QED BY <1>1, <1>2, <1>3, <1>4, <1>6, <1>7 DEF BackendsNext

LEMMA RoutingInvariant == BackendsSpec => []RoutingInv
BY RoutingStarts, RoutingKeeps, BackendsInvariant, PTL DEF BackendsSpec
-----------------------------------------------------------------------------
(* Where the invariant has a request go is its own server. *)
LEMMA RightIsOwn ==
  ASSUME CfgOK, NEW r, WentRight(r), r.fate \in {"stdio", "http"}
  PROVE  /\ \E i \in DOMAIN cfg.defs : cfg.defs[i] = [name |-> r.server, transport |-> r.fate]
         /\ \E k \in Matching(r.tool) :
              /\ cfg.routes[k].server = r.server
              /\ \A j \in Matching(r.tool) :
                   MoreSpecific(cfg.routes[k].pattern, cfg.routes[j].pattern)
<1>1. r.server = ServerOf(r.tool) /\ r.server # NoServer /\ r.server \in Owned(cfg.defs, r.fate)
      /\ cfg.routes \in Routes /\ cfg.defs \in Seq(ServerDef)
  BY DEF WentRight, CfgOK
<1>2. PICK i \in DOMAIN cfg.defs : cfg.defs[i].name = r.server /\ cfg.defs[i].transport = r.fate
  BY <1>1 DEF Owned
<1>3. cfg.defs[i] = [name |-> r.server, transport |-> r.fate]
  <2>1. cfg.defs[i] \in ServerDef
    BY <1>1
  <2>. QED BY <1>2, <2>1 DEF ServerDef
<1>4. PICK k \in MatchesOf(r.tool, cfg.routes) :
        /\ ServerOf(r.tool) = cfg.routes[k].server
        /\ \A j \in MatchesOf(r.tool, cfg.routes) \ {k} : Precedes(cfg.routes, k, j)
  BY <1>1, RoutedOrNot, RoutedByFirst DEF ServerOf
<1>5. \A j \in MatchesOf(r.tool, cfg.routes) :
        MoreSpecific(cfg.routes[k].pattern, cfg.routes[j].pattern)
  BY <1>1, <1>4, FirstIsSpecific DEF MatchesOf
<1>6. MatchesOf(r.tool, cfg.routes) = Matching(r.tool)
  BY DEF MatchesOf, Matching
<1>. QED BY <1>1, <1>3, <1>4, <1>5, <1>6

(* A call reaches only the server of the most specific route of its tool,   *)
(* through that server's bridge (checkAllowlist, sortRoutes, resolveRoute   *)
(* and the composite's call), for every table of routes and every allowlist.*)
THEOREM CallsReachTheirServer == BackendsSpec => []OwnServer
<1>1. ASSUME RoutingInv, BackendsInv, NEW c \in Calls
      PROVE  /\ req[c].fate = "blocked" <=>
                  /\ req[c].fate # "none"
                  /\ req[c].tool = <<>> \/ \A p \in cfg.allowed : ~matchesPattern(req[c].tool, p)
             /\ req[c].fate = "no_route" =>
                  \/ Matching(req[c].tool) = {}
                  \/ \E k \in Matching(req[c].tool) : cfg.routes[k].server = NoServer
             /\ http[c].why # "unknown"
  <2>1. CfgOK /\ WentRight(req[c]) /\ http[c].why # "unknown" /\ cfg.routes \in Routes
    BY <1>1 DEF RoutingInv, CfgOK
  <2>2. ASSUME req[c].fate = "no_route", Matching(req[c].tool) # {}
        PROVE  \E k \in Matching(req[c].tool) : cfg.routes[k].server = NoServer
    <3>1. ServerOf(req[c].tool) = NoServer
      BY <2>1, <2>2 DEF WentRight
    <3>2. Matching(req[c].tool) = MatchesOf(req[c].tool, cfg.routes)
      BY DEF Matching, MatchesOf
    <3>. QED BY <2>1, <2>2, <3>1, <3>2, RoutedByFirst DEF ServerOf
  <2>. QED BY <2>1, <2>2 DEF WentRight, checkAllowlist
<1>2. RoutingInv /\ BackendsInv => OwnServer
  BY <1>1, RightIsOwn DEF OwnServer, RoutingInv
<1>. QED BY <1>2, RoutingInvariant, BackendsInvariant, PTL
=============================================================================
