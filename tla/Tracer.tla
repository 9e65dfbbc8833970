------------------------------- MODULE Tracer -------------------------------
(***************************************************************************)
(* The tracer (src/observability/langfuse.ts): one trace per tools/call,   *)
(* with a child span and a tag per status, ended with an outcome, and the  *)
(* shutdown that pushes what is queued in phases of a second each.         *)
(*                                                                         *)
(* The SDK is external: any of its calls may throw, its uploads take place *)
(* at any time, and its promises may never settle.                         *)
(***************************************************************************)
EXTENDS Sequences

CONSTANT Requests

VARIABLES
  tracer,   \* "noop", "live", "bare" (no otelSpan) or "hollow" (no provider)
  trace,    \* trace[r]: of type Trace
  phase,    \* the phase of the tracer's shutdown
  exported, \* the traces that reached Langfuse
  sdkFailed \* sdk.shutdown() rejected or was given up on

tracerVars == <<tracer, trace, phase, exported, sdkFailed>>

(* "queued": ended before the SDK was shut down, "late": after. *)
NoTrace == [st |-> "none", tags |-> <<>>, attr |-> <<>>, spans |-> <<>>]

Tracers == {"noop", "live", "bare", "hollow"}
Sends   == tracer \in {"live", "bare"}

TracerInit ==
  /\ tracer = "noop" /\ phase = "up"
  /\ trace = [r \in Requests |-> NoTrace]
  /\ exported = {} /\ sdkFailed = FALSE

(* createTracer, or the no-op tracer where it is disabled or throws.  The   *)
(* credential probe decides nothing.                                        *)
createTracer(t) == tracer' = t /\ UNCHANGED <<trace, phase, exported, sdkFailed>>

Put(r, t) == trace' = [trace EXCEPT ![r] = t] /\ UNCHANGED <<tracer, phase, exported, sdkFailed>>

(* The handle is the no-op one if the SDK throws, even half-way. *)
startTrace(r, throws) ==
  Put(r, [NoTrace EXCEPT !.st = IF tracer = "noop" \/ throws THEN "noop" ELSE "open"])

Status(s)  == <<"status", s>>
Outcome(s) == <<"outcome", s>>

span(r, s, throws) ==
  Put(r, IF trace[r].st = "open" /\ ~throws
         THEN [trace[r] EXCEPT !.tags = Append(@, Status(s)), !.spans = Append(@, s)]
         ELSE trace[r])

(* Mutant: a second end() is let through. *)
EndsAgain(r) == trace[r].st \in {"open", "queued", "late"}
MayEnd(r)    == trace[r].st = "open"

EndFaults == {"none", "update", "setAttribute", "end"}

(* update, tags with the outcome, setAttribute, rootObs.end: what was done  *)
(* before one of them throws stays done.                                    *)
end(r, s, fault) ==
  LET t      == trace[r]
      tagged == IF fault = "update" \/ (tracer = "bare") THEN t
                ELSE [t EXCEPT !.tags = Append(@, Outcome(s))]
      set    == IF fault \in {"update", "setAttribute"} THEN tagged
                ELSE [tagged EXCEPT !.attr = IF tracer = "bare" THEN @ ELSE tagged.tags]
      ended  == IF fault # "none" THEN set
                ELSE [set EXCEPT !.st = IF phase \in {"up", "flush"} THEN "queued" ELSE "late"]
  IN Put(r, IF MayEnd(r) THEN ended ELSE t)
-----------------------------------------------------------------------------
Queued == {r \in Requests : trace[r].st = "queued"}

(* The span processor uploads a batch now and then. *)
Uploads ==
  /\ Sends /\ phase \in {"up", "flush"} /\ Queued # {}
  /\ exported' = exported \cup Queued
  /\ UNCHANGED <<tracer, trace, phase, sdkFailed>>

Moves(from, to) == phase = from /\ phase' = to /\ UNCHANGED <<tracer, trace>>

(* shutdown(): client.flush(), then sdk.shutdown(), then client.shutdown(), *)
(* each given up on after a second.                                         *)
StopTracer == Moves("up", IF tracer = "noop" THEN "down" ELSE "flush") /\ UNCHANGED <<exported, sdkFailed>>
Flushed    == Moves("flush", "sdk") /\ UNCHANGED <<exported, sdkFailed>>

(* Mutant: client.flush() is awaited, however long it takes. *)
FlushWaits    == FALSE
FlushTimesOut == Moves("flush", "sdk") /\ UNCHANGED <<exported, sdkFailed>>

SdkStops ==
  /\ Moves("sdk", "close")
  /\ exported' = IF Sends THEN exported \cup Queued ELSE exported
  /\ UNCHANGED sdkFailed

SdkFails   == Moves("sdk", "close") /\ sdkFailed' = TRUE /\ UNCHANGED exported
ClientEnds == Moves("close", "down") /\ UNCHANGED <<exported, sdkFailed>>
=============================================================================
