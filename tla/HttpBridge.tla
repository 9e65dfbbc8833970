----------------------------- MODULE HttpBridge -----------------------------
(***************************************************************************)
(* The HTTP bridge (src/mcp-proxy/http-bridge.ts): a call is one HTTP      *)
(* exchange, under one abort timer from the request to the last byte of    *)
(* the body, which is read against a cap.                                  *)
(*                                                                         *)
(* The upstream may refuse, stall, break off or send anything at any       *)
(* moment.  The id of a request is not modelled: the code checks none, an  *)
(* answer belongs to the exchange it arrives in.                           *)
(***************************************************************************)
EXTENDS Naturals

CONSTANTS
  Calls,  \* the invocations of call()
  NoCall, \* "no result"
  Cap,    \* maxResponseBytes; 0 means no cap
  MaxBody \* bound: bytes an upstream sends in one body

ASSUME HttpAssumption ==
  /\ NoCall \notin Calls
  /\ Cap \in Nat /\ MaxBody \in Nat

VARIABLE http \* http[c]: the exchange of call c, of type Exchange

Waiting == {"fetching", "reading"}

(* What a body that was read to its end is: a JSON-RPC envelope with a      *)
(* result, with an error, with neither, or no envelope at all.              *)
Envelopes == {"result", "error", "neither", "other"}

Exchange ==
  [stage  : {"idle", "resolved", "rejected"} \cup Waiting,
   why    : {"none", "unknown", "failed", "status", "cap", "body", "timeout"} \cup Envelopes,
   timer  : BOOLEAN,            \* the abort timer is armed
   open   : BOOLEAN,            \* the response is still arriving
   got    : 0..MaxBody,         \* bytes of the body read
   result : Calls \cup {NoCall}] \* the exchange whose result the promise has

HttpInit ==
  http = [c \in Calls |-> [stage |-> "idle", why |-> "none", timer |-> FALSE,
                           open |-> FALSE, got |-> 0, result |-> NoCall]]
-----------------------------------------------------------------------------
(* The promise is rejected; `finally` clears the timer. *)
Rejected(x, why, open) ==
  [x EXCEPT !.stage = "rejected", !.why = why, !.timer = FALSE, !.open = open]

(* call(): the request is sent, if the server is one of this bridge. *)
Post(c, known) ==
  /\ http[c].stage = "idle"
  /\ http' = [http EXCEPT ![c] =
       IF known THEN [@ EXCEPT !.stage = "fetching", !.timer = TRUE, !.open = TRUE]
                ELSE Rejected(@, "unknown", FALSE)]

(* fetch() rejects: no connection, a redirect. *)
FetchFails(c) ==
  /\ http[c].stage = "fetching"
  /\ http' = [http EXCEPT ![c] = Rejected(@, "failed", FALSE)]

(* A status other than 2xx: nobody reads the body or cancels it. *)
Refuses(c) ==
  /\ http[c].stage = "fetching"
  /\ http' = [http EXCEPT ![c] = Rejected(@, "status", TRUE)]

(* Mutant: the abort timer covers the request alone. *)
AcceptsUntimed(c) ==
  /\ http[c].stage = "fetching"
  /\ http' = [http EXCEPT ![c].stage = "reading", ![c].timer = FALSE]

Accepts(c) ==
  /\ http[c].stage = "fetching"
  /\ http' = [http EXCEPT ![c].stage = "reading"]

(* Mutant: bytes beyond the cap are counted at the end of the body only. *)
NeverOver(got) == FALSE
OverCap(got)   == Cap > 0 /\ got > Cap

(* readBodyWithCap: a chunk; the one that passes the cap ends the reading.  *)
Chunk(c, n) ==
  LET got == http[c].got + n IN
  /\ http[c].stage = "reading" /\ got <= MaxBody
  /\ http' = [http EXCEPT ![c] =
       IF OverCap(got) THEN [Rejected(@, "cap", FALSE) EXCEPT !.got = got]
                       ELSE [@ EXCEPT !.got = got]]

BodyFails(c) ==
  /\ http[c].stage = "reading"
  /\ http' = [http EXCEPT ![c] = Rejected(@, "body", FALSE)]

(* Mutant: an envelope without a result resolves. *)
ResolvesAny(env) == env \in {"result", "neither"}
Resolves(env)    == env = "result"

BodyEnds(c, env) ==
  /\ http[c].stage = "reading"
  /\ http' = [http EXCEPT ![c] =
       IF Resolves(env)
       THEN [@ EXCEPT !.stage = "resolved", !.why = env, !.timer = FALSE, !.open = FALSE,
                      !.result = IF env = "result" THEN c ELSE NoCall]
       ELSE Rejected(@, env, FALSE)]

(* controller.abort(): fetch or the read rejects with an AbortError. *)
TimesOut(c) ==
  /\ http[c].stage \in Waiting /\ http[c].timer
  /\ http' = [http EXCEPT ![c] = Rejected(@, "timeout", FALSE)]
-----------------------------------------------------------------------------
Upstream(c) ==
  \/ FetchFails(c) \/ Refuses(c) \/ Accepts(c) \/ BodyFails(c)
  \/ \E n \in 1..MaxBody : Chunk(c, n)
  \/ \E env \in Envelopes : BodyEnds(c, env)

HttpNext == \E c \in Calls :
  \/ \E known \in BOOLEAN : Post(c, known)
  \/ Upstream(c)
  \/ TimesOut(c)

HttpSpec == HttpInit /\ [][HttpNext]_http
-----------------------------------------------------------------------------
HttpType == http \in [Calls -> Exchange]

(* One timer covers an exchange from the request to the last byte, and is   *)
(* gone when the promise is settled; then nothing arrives any more either,  *)
(* save the unread body of a status other than 2xx.  A promise resolves     *)
(* with a result only, never with one beyond the cap, and a call fails for  *)
(* its size only if more than the cap was sent.                             *)
ExchangeEnds ==
  \A c \in Calls : LET x == http[c] IN
    /\ x.timer <=> x.stage \in Waiting
    /\ x.open  <=> x.stage \in Waiting \/ x.why = "status"
    /\ x.stage = "resolved" <=> x.result = c
    /\ x.why = "cap" <=> Cap > 0 /\ x.got > Cap

httpState == [c \in Calls |-> IF http[c].stage \in Waiting THEN "waiting" ELSE http[c].stage]
httpReply == [c \in Calls |-> http[c].result]

HttpTransport == INSTANCE Transport WITH state <- httpState, reply <- httpReply
=============================================================================
