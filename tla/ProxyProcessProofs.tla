------------------------- MODULE ProxyProcessProofs -------------------------
(***************************************************************************)
(* What holds of the request pipeline and of the shutdown of the proxy     *)
(* process for every set of requests and every number of signals.          *)
(***************************************************************************)
EXTENDS ProxyProcess, SequenceTheorems, TLAPS

(* What is known of a request, stage by stage; what is said of one that is  *)
(* done is what OneStory says.                                              *)
Told(q) ==
  q.reply \notin {"none", "parse", "method"} =>
    /\ q.entries # <<>>
    /\ q.reply = "result"   => q.entries = <<"allowed">> /\ q.via # "none"
    /\ q.reply = "rejected" => LastOf(q.entries) # "allowed" /\ q.via # "none"
    /\ q.reply = "refused"  => LastOf(q.entries) \in {"blocked", "flagged"} /\ q.via = "none"
    /\ q.reply = "internal" => LastOf(q.entries) = "error" \/ q.via = "none"
    /\ q.trace \in Statuses => \E i \in DOMAIN q.entries : q.trace = q.entries[i]

(* Nothing has been said of a request that is new or at a bridge. *)
Untold(q) == q.entries = <<>> /\ q.reply = "none"

RequestOK(q) ==
  /\ q \in Request /\ Len(q.entries) <= 2
  /\ q.stage = "none" => Untold(q) /\ q.via = "none" /\ ~q.connected /\ q.trace = "none"
  /\ q.stage = "call" => Untold(q) /\ q.via \in Bridges /\ q.trace \in {"none", "open"}
  /\ q.stage = "done" => Told(q) /\ ~q.connected

PipelineInv ==
  /\ req \in [Requests -> Request] /\ \A r \in Requests : RequestOK(req[r])
  /\ pushes \in SUBSET Events

(* What a handler may say of a request that is at the bridge via.           *)
Outcomes(via) ==
  IF via = "none" THEN {Verdicts[v] : v \in DOMAIN Verdicts}
                  ELSE {Results[k] : k \in DOMAIN Results} \cup {Failures[k] : k \in DOMAIN Failures}

LEMMA OneAudit ==
  ASSUME NEW s
  PROVE  /\ Len(<<s>>) = 1 /\ <<s>> # <<>> /\ <<s>>[1] = s /\ LastOf(<<s>>) = s
         /\ <<>> \o <<s>> = <<s>>
BY DEF LastOf

LEMMA TwoAudits ==
  ASSUME NEW s, NEW t
  PROVE  /\ Len(<<s, t>>) = 2 /\ <<s, t>> # <<>> /\ <<s, t>>[1] = s /\ LastOf(<<s, t>>) = t
         /\ <<>> \o <<s, t>> = <<s, t>>
BY DEF LastOf

(* What one step of a handler audits. *)
Audits == {<<>>, <<"allowed">>, <<"blocked">>, <<"flagged">>, <<"error">>, <<"allowed", "error">>}

LEMMA AuditsTyped == \A s \in Audits : s \in Seq(Statuses) /\ Len(s) <= 2 /\ Len(s) \in Nat
<1>1. /\ <<>> \in Seq(Statuses) /\ <<"allowed">> \in Seq(Statuses) /\ <<"blocked">> \in Seq(Statuses)
      /\ <<"flagged">> \in Seq(Statuses) /\ <<"error">> \in Seq(Statuses)
      /\ <<"allowed", "error">> \in Seq(Statuses)
  BY DEF Statuses
<1>2. ASSUME NEW s \in Audits PROVE Len(s) \in {0, 1, 2}
  BY <1>2 DEF Audits
<1>3. \A s \in Audits : s \in Seq(Statuses)
  BY <1>1, Zenon DEF Audits
<1>4. \A s \in Audits : Len(s) <= 2 /\ Len(s) \in Nat
  BY <1>2
<1>. QED BY <1>3, <1>4

(* A trace ends with an entry's status, or is left open. *)
LEMMA EndsWithAudit ==
  ASSUME NEW audits \in Audits, audits # <<>>, NEW trace \in EndsWith(audits)
  PROVE  /\ trace \in Statuses \cup {"open"}
         /\ trace \in Statuses => \E i \in DOMAIN audits : trace = audits[i]
<1>1. \A i \in DOMAIN audits : audits[i] \in Statuses
  BY AuditsTyped
<1>2. 1 \in DOMAIN audits
  BY AuditsTyped
<1>. QED BY <1>1, <1>2 DEF EndsWith, Statuses

(* Each outcome the code gives, from any trace it may have been given, is   *)
(* one story.                                                               *)
LEMMA OutcomesTold ==
  ASSUME NEW q \in Request, Untold(q), q.trace \in {"none", "open"},
         NEW o \in Outcomes(q.via), NEW trace \in Ended(q.trace, o.audits),
         o.audits = <<>> => q.trace = "none"
  PROVE  /\ RequestOK(Answered(q, o, trace)) /\ Answered(q, o, trace).stage = "done"
         /\ Len(o.audits) <= 2 /\ Len(o.audits) \in Nat
<1>. DEFINE a == Answered(q, o, trace)
<1>1. /\ o.audits \in Audits
      /\ o.reply \in Replies
  BY DEF Outcomes, Verdicts, Results, Failures, Replies, Audits
<1>2. /\ o.audits = <<>> => o.reply \in {"parse", "method"}
      /\ o.reply = "result" => o.audits = <<"allowed">> /\ q.via # "none"
      /\ o.reply = "rejected" => o.audits \in {<<"flagged">>, <<"error">>, <<"blocked">>} /\ q.via # "none"
      /\ o.reply = "refused" => o.audits \in {<<"flagged">>, <<"blocked">>} /\ q.via = "none"
      /\ o.reply = "internal" => o.audits \in {<<"error">>, <<"allowed", "error">>} \/ q.via = "none"
  BY OneAudit, TwoAudits DEF Outcomes, Verdicts, Results, Failures
<1>3. o.audits \in Seq(Statuses) /\ Len(o.audits) <= 2 /\ Len(o.audits) \in Nat
  BY <1>1, AuditsTyped DEF Audits
<1>4. q.entries \o o.audits = o.audits
  BY <1>3, ConcatEmptySeq DEF Untold
<1>5. /\ a.stage = "done" /\ a.connected = FALSE /\ a.entries = o.audits /\ a.trace = trace
      /\ a.reply = o.reply /\ a.via = q.via
  BY <1>4 DEF Answered, Request
<1>6. /\ trace \in Statuses \cup {"none", "open"}
      /\ trace \in Statuses => \E i \in DOMAIN o.audits : trace = o.audits[i]
  BY <1>1, EndsWithAudit DEF Ended, Statuses
<1>7. a \in Request
  BY <1>1, <1>3, <1>5, <1>6 DEF Answered, Request, Statuses, Replies
<1>8. Told(a)
  BY <1>1, <1>2, <1>5, <1>6, OneAudit, TwoAudits DEF Told, Statuses, Audits
<1>. QED BY <1>3, <1>5, <1>7, <1>8 DEF RequestOK
-----------------------------------------------------------------------------
(* The steps of the pipeline.                                               *)

(* What an answer comes to: one request is done, and its events are pushed. *)
Says(r) ==
  /\ req' = [req EXCEPT ![r] = req'[r]]
  /\ req'[r].stage = "done" /\ ~req'[r].connected
  /\ pushes \subseteq pushes' /\ \A e \in pushes' \ pushes : e[1] = r

LEMMA PipelineStarts == ProxyInit => PipelineInv
<1> SUFFICES ASSUME ProxyInit PROVE PipelineInv
  OBVIOUS
<1>1. <<>> \in Seq(Statuses) /\ Len(<<>>) = 0
  OBVIOUS
<1>. QED BY <1>1 DEF ProxyInit, PipelineInv, RequestOK, Untold, Request, Replies

(* The other requests are what they were. *)
LEMMA RequestsKeep ==
  ASSUME PipelineInv, NEW r \in Requests, NEW q, RequestOK(q),
         req' = [req EXCEPT ![r] = q], pushes' \in SUBSET Events
  PROVE  PipelineInv'
<1>1. \A d \in Requests : req'[d] = IF d = r THEN q ELSE req[d]
  BY DEF PipelineInv
<1>2. \A d \in Requests : RequestOK(req'[d])
  BY <1>1 DEF PipelineInv
<1>3. req' \in [Requests -> Request]
  BY <1>1, <1>2 DEF PipelineInv, RequestOK
<1>. QED BY <1>2, <1>3 DEF PipelineInv

LEMMA PushedTyped ==
  ASSUME NEW r \in Requests, NEW audits, Len(audits) <= 2, Len(audits) \in Nat
  PROVE  Pushed(r, audits) \in SUBSET Events /\ \A e \in Pushed(r, audits) : e[1] = r
<1>1. 1..Len(audits) \subseteq 1..2
  OBVIOUS
<1>. QED BY <1>1 DEF Pushed, Events

LEMMA AnswerSays ==
  ASSUME PipelineInv, NEW r \in Requests, NEW q \in Request, Untold(q), q.trace \in {"none", "open"},
         NEW o \in Outcomes(q.via), o.audits = <<>> => q.trace = "none", Answer(r, q, o)
  PROVE  PipelineInv' /\ Says(r)
<1>1. PICK trace \in Ended(q.trace, o.audits) : req' = [req EXCEPT ![r] = Answered(q, o, trace)]
  BY DEF Answer
<1>2. /\ RequestOK(Answered(q, o, trace)) /\ Answered(q, o, trace).stage = "done"
      /\ Len(o.audits) <= 2 /\ Len(o.audits) \in Nat
  BY OutcomesTold
<1>3. pushes' \in SUBSET Events /\ pushes \subseteq pushes' /\ \A e \in pushes' \ pushes : e[1] = r
  BY <1>2, PushedTyped DEF Answer, PipelineInv
<1>4. req'[r] = Answered(q, o, trace)
  BY <1>1 DEF PipelineInv
<1>. QED BY <1>1, <1>2, <1>3, <1>4, RequestsKeep DEF Says, RequestOK

LEMMA HandleSays ==
  ASSUME PipelineInv, NEW r \in Requests, Handle(r)
  PROVE  PipelineInv' /\ Says(r)
<1>1. PICK v \in DOMAIN Verdicts, trace \in Traced :
        Answer(r, [req[r] EXCEPT !.trace = IF Verdicts[v].audits = <<>> THEN "none" ELSE trace],
               Verdicts[v])
  BY DEF Handle
<1>. DEFINE q == [req[r] EXCEPT !.trace = IF Verdicts[v].audits = <<>> THEN "none" ELSE trace]
<1>2. trace \in {"none", "open"}
  BY DEF Traced
<1>3. /\ q \in Request /\ Untold(q) /\ q.trace \in {"none", "open"} /\ q.via = "none"
      /\ Verdicts[v].audits = <<>> => q.trace = "none"
  BY <1>2 DEF PipelineInv, RequestOK, Untold, Handle, Request
<1>4. Verdicts[v] \in Outcomes(q.via)
  BY <1>3 DEF Outcomes
<1>. QED BY <1>1, <1>3, <1>4, AnswerSays

LEMMA SettlesSays ==
  ASSUME PipelineInv, NEW r \in Requests, Settles(r)
  PROVE  PipelineInv' /\ Says(r)
<1>1. PICK o \in Outcomes(req[r].via) : Answer(r, req[r], o) /\ o.audits # <<>>
  <2>1. req[r].via # "none"
    BY DEF Settles, PipelineInv, RequestOK, Bridges
  <2>2. ASSUME NEW k \in DOMAIN Results PROVE Results[k] \in Outcomes(req[r].via) /\ Results[k].audits # <<>>
    BY <2>1, <2>2, OneAudit, TwoAudits DEF Outcomes, Results
  <2>3. ASSUME NEW k \in DOMAIN Failures PROVE Failures[k] \in Outcomes(req[r].via) /\ Failures[k].audits # <<>>
    BY <2>1, <2>3, OneAudit DEF Outcomes, Failures
  <2>. QED BY <2>2, <2>3 DEF Settles
<1>2. req[r] \in Request /\ Untold(req[r]) /\ req[r].trace \in {"none", "open"}
  BY DEF Settles, PipelineInv, RequestOK
<1>. QED BY <1>1, <1>2, AnswerSays

LEMMA ForwardKeeps ==
  ASSUME PipelineInv, NEW r \in Requests, NEW via \in Bridges, Forward(r, via)
  PROVE  PipelineInv'
<1>1. PICK trace \in Traced :
        req' = [req EXCEPT ![r] = [@ EXCEPT !.stage = "call", !.via = via,
                                            !.connected = TRUE, !.trace = trace]]
  BY DEF Forward
<1>. DEFINE q == [req[r] EXCEPT !.stage = "call", !.via = via, !.connected = TRUE, !.trace = trace]
<1>2. trace \in {"none", "open"}
  BY DEF Traced
<1>3. RequestOK(q)
  BY <1>2 DEF PipelineInv, RequestOK, Untold, Forward, Request
<1>4. pushes' \in SUBSET Events
  BY DEF Forward, PipelineInv
<1>. QED BY <1>1, <1>3, <1>4, RequestsKeep

LEMMA DisconnectKeeps ==
  ASSUME PipelineInv, NEW r \in Requests, Disconnect(r)
  PROVE  PipelineInv'
<1>. DEFINE q == [req[r] EXCEPT !.connected = FALSE]
<1>1. RequestOK(q)
  BY DEF PipelineInv, RequestOK, Untold, Told, Disconnect, Request
<1>2. req' = [req EXCEPT ![r] = q] /\ pushes' \in SUBSET Events
  BY DEF Disconnect, PipelineInv
<1>. QED BY <1>1, <1>2, RequestsKeep
-----------------------------------------------------------------------------
(* The process.                                                             *)

(* Once the tasks have begun, only calls at the HTTP bridge whose clients   *)
(* are gone are left, and the one flush waits for all events but theirs.    *)
Drains ==
  /\ \A r \in Requests : req[r].stage = "call" => r \in cut /\ req[r].via = "http" /\ ~req[r].connected
  /\ signals = 1 => \A waits \in flushes : \A e \in pushes \ waits : e[1] \in cut

ProcessInv ==
  /\ phase \in {"serving", "closing", "stopping", "exited"}
  /\ stopped \in BOOLEAN /\ child \in BOOLEAN
  /\ flushes \in SUBSET SUBSET Events /\ cut \in SUBSET Requests
  /\ signals \in 0..MaxSignals /\ code \in {0, 1, NoCode}
  /\ phase = "serving" <=> signals = 0
  /\ phase \in {"serving", "closing"} => flushes = {} /\ ~stopped
  /\ phase # "exited" => code = NoCode
  /\ phase = "stopping" \/ code = 0 => Drains
  /\ code = 0 /\ signals = 1 => \A e \in pushes : e[1] \in cut

IInv == PipelineInv /\ ProcessInv

LEMMA ProcessStarts == Init => IInv
<1> SUFFICES ASSUME Init PROVE IInv
  OBVIOUS
<1>1. PipelineInv
  BY PipelineStarts DEF Init
<1>2. ProcessInv
  <2>1. code = NoCode /\ code # 0
    BY DEF Init, NoCode
  <2>2. signals \in 0..MaxSignals
    BY ProcessAssumption DEF Init
  <2>. QED BY <2>1, <2>2 DEF Init, ProcessInv
<1>. QED BY <1>1, <1>2 DEF IInv

(* A request that is answered brings the end nearer. *)
LEMMA SaysKeeps ==
  ASSUME IInv, PipelineInv', NEW r \in Requests, Says(r), UNCHANGED processVars, phase # "exited",
         Serving \/ req[r].stage = "call"
  PROVE  IInv'
<1>1. \A d \in Requests : req'[d] = IF d = r THEN req'[r] ELSE req[d]
  BY DEF Says, IInv, PipelineInv
<1>2. ASSUME phase = "stopping" PROVE Drains'
  <2>1. Drains /\ req[r].stage = "call" /\ r \in cut
    BY <1>2 DEF IInv, ProcessInv, Drains, Serving
  <2>. QED BY <1>1, <2>1 DEF Drains, Says, processVars
<1>3. code # 0
  BY DEF IInv, ProcessInv, NoCode
<1>4. ProcessInv'
  BY <1>2, <1>3 DEF IInv, ProcessInv, processVars
<1>. QED BY <1>4 DEF IInv

LEMMA RequestSteps ==
  ASSUME IInv, NEW r \in Requests,
         \/ Handles(r) \/ Settled(r) \/ Disconnects(r)
         \/ \E via \in Bridges : Forwards(r, via)
  PROVE  IInv'
<1>1. CASE Handles(r)
  BY <1>1, HandleSays, SaysKeeps DEF Handles, Serving, IInv
<1>2. CASE Settled(r)
  BY <1>2, SettlesSays, SaysKeeps DEF Settled, Settles, IInv
<1>3. CASE Disconnects(r)
  <2>1. PipelineInv'
    BY <1>3, DisconnectKeeps DEF Disconnects, IInv
  <2>2. /\ phase # "exited" /\ UNCHANGED <<processVars, pushes>>
        /\ \A d \in Requests : req'[d].stage = req[d].stage /\ req'[d].via = req[d].via
                               /\ (req'[d].connected => req[d].connected)
    BY <1>3 DEF Disconnects, Disconnect, IInv, PipelineInv, Request
  <2>3. ProcessInv'
    BY <2>2 DEF IInv, ProcessInv, Drains, processVars, NoCode
  <2>. QED BY <2>1, <2>3 DEF IInv
<1>4. ASSUME NEW via \in Bridges, Forwards(r, via) PROVE IInv'
  <2>1. PipelineInv'
    BY <1>4, ForwardKeeps DEF Forwards, IInv
  <2>2. ProcessInv'
    BY <1>4 DEF Forwards, Serving, IInv, ProcessInv, NoCode
  <2>. QED BY <2>1, <2>2 DEF IInv
<1>. QED BY <1>1, <1>2, <1>3, <1>4

LEMMA OtherSteps ==
  ASSUME IInv, (\E e \in Events : PushSettled(e)) \/ ChildExits \/ UNCHANGED vars
  PROVE  IInv'
<1>1. PipelineInv'
  BY DEF IInv, PipelineInv, PushSettled, PushEnds, ChildExits, vars, proxyVars
<1>2. /\ UNCHANGED <<req, phase, stopped, flushes, cut, signals, code>>
      /\ pushes' \subseteq pushes /\ child' \in BOOLEAN
  BY DEF PushSettled, PushEnds, ChildExits, vars, proxyVars, processVars, IInv, ProcessInv
<1>3. ProcessInv'
  BY <1>2 DEF IInv, ProcessInv, Drains
<1>. QED BY <1>1, <1>3 DEF IInv

LEMMA SignalSteps ==
  ASSUME IInv, Signal \/ SignalAgain
  PROVE  IInv'
<1>1. PipelineInv'
  BY DEF IInv, PipelineInv, Signal, SignalAgain, proxyVars
<1>2. CASE Signal
  <2>1. signals \in Nat /\ signals' = signals + 1 /\ signals' \in 0..MaxSignals
    BY <1>2, ProcessAssumption DEF Signal, IInv, ProcessInv
  <2>2. code = NoCode /\ code' = code /\ code # 0
    BY <1>2 DEF Signal, IInv, ProcessInv, NoCode
  <2>. QED BY <1>1, <1>2, <2>1, <2>2 DEF Signal, IInv, ProcessInv
<1>3. CASE SignalAgain
  <2>1. signals \in Nat /\ signals' = signals + 1 /\ signals' \in 0..MaxSignals
    BY <1>3, ProcessAssumption DEF SignalAgain, IInv, ProcessInv
  <2>2. flushes' \in SUBSET SUBSET Events
    BY <1>3 DEF SignalAgain, IInv, ProcessInv, PipelineInv, Pending
  <2>3. phase = "closing" => flushes' = {}
    BY <1>3 DEF SignalAgain, IInv, ProcessInv
  <2>4. phase = "stopping" => Drains'
    BY <1>3, <2>1 DEF SignalAgain, IInv, ProcessInv, Drains, proxyVars
  <2>. QED BY <1>1, <1>3, <2>1, <2>2, <2>3, <2>4
           DEF SignalAgain, IInv, ProcessInv, NoCode
<1>. QED BY <1>2, <1>3

(* The tasks answer what waits at the stdio bridge, and what is left is at  *)
(* the HTTP bridge.                                                         *)
LEMMA TasksStep ==
  ASSUME IInv, RunTasks
  PROVE  IInv'
<1>. DEFINE busy == {r \in Requests : req[r].stage = "call"}
            late == {r \in busy : req[r].via = "stdio"}
            o    == Failures.other
<1>1. PICK trace \in [late -> Statuses \cup {"none", "open"}] :
        /\ \A r \in late : trace[r] \in Ended(req[r].trace, o.audits)
        /\ req' = [r \in Requests |-> IF r \in late THEN Answered(req[r], o, trace[r]) ELSE req[r]]
  BY DEF RunTasks
<1>2. o.audits = <<"error">> /\ o.audits # <<>>
  BY OneAudit DEF Failures
<1>3. ASSUME NEW r \in late
      PROVE  /\ RequestOK(Answered(req[r], o, trace[r])) /\ Answered(req[r], o, trace[r]).stage = "done"
             /\ Len(o.audits) <= 2 /\ Len(o.audits) \in Nat
  <2>1. req[r] \in Request /\ Untold(req[r]) /\ req[r].trace \in {"none", "open"} /\ req[r].via # "none"
    BY DEF IInv, PipelineInv, RequestOK, Bridges
  <2>2. o \in Outcomes(req[r].via)
    BY <2>1 DEF Outcomes, Failures
  <2>3. trace[r] \in Ended(req[r].trace, o.audits)
    BY <1>1
  <2>. QED BY <1>2, <2>1, <2>2, <2>3, OutcomesTold
<1>4. \A r \in Requests : RequestOK(req'[r]) /\ (req'[r].stage = "call" => r \in busy \ late /\ req'[r] = req[r])
  BY <1>1, <1>3 DEF IInv, PipelineInv
<1>5. PipelineInv'
  <2>1. req' \in [Requests -> Request]
    BY <1>1, <1>4 DEF RequestOK
  <2>2. \A r \in late : Pushed(r, o.audits) \in SUBSET Events
    BY <1>3, PushedTyped
  <2>3. pushes' \in SUBSET Events
    BY <2>2 DEF RunTasks, IInv, PipelineInv
  <2>. QED BY <1>4, <2>1, <2>3 DEF PipelineInv
<1>6. Pending = pushes
  BY DEF RunTasks, IInv, ProcessInv, Pending
<1>7. flushes' \in SUBSET SUBSET Events
  BY <1>6 DEF RunTasks, Flushes, IInv, PipelineInv
<1>8. Drains'
  <2>1. \A r \in Requests : req'[r].stage = "call" =>
          r \in cut' /\ req'[r].via = "http" /\ ~req'[r].connected
    BY <1>4 DEF RunTasks, Drained, IInv, PipelineInv, RequestOK, Bridges
  <2>2. ASSUME signals' = 1, NEW waits \in flushes', NEW e \in pushes' \ waits PROVE e[1] \in cut'
    <3>1. waits = pushes
      BY <1>6, <2>2 DEF RunTasks, Flushes
    <3>2. PICK r \in late : e \in Pushed(r, o.audits)
      BY <2>2, <3>1 DEF RunTasks
    <3>3. e[1] = r
      BY <1>3, <3>2, PushedTyped
    <3>. QED BY <3>3 DEF RunTasks
  <2>. QED BY <2>1, <2>2 DEF Drains
<1>9. code = NoCode /\ code' = code /\ code # 0
  BY DEF RunTasks, IInv, ProcessInv, NoCode
<1>10. ProcessInv'
  BY <1>7, <1>8, <1>9 DEF RunTasks, IInv, ProcessInv
<1>. QED BY <1>5, <1>10 DEF IInv

LEMMA ExitSteps ==
  ASSUME IInv, ExitClean \/ ForceExit
  PROVE  IInv'
<1>1. PipelineInv'
  BY DEF IInv, PipelineInv, ExitClean, ForceExit, proxyVars
<1>2. CASE ExitClean
  <2>1. Drains /\ Drains'
    BY <1>2 DEF ExitClean, IInv, ProcessInv, Drains, proxyVars
  <2>2. signals = 1 => \A e \in pushes : e[1] \in cut
    <3>1. PICK waits \in flushes : waits \cap pushes = {}
      BY <1>2 DEF ExitClean, Ready
    <3>. QED BY <2>1, <3>1 DEF Drains
  <2>3. ProcessInv'
    BY <1>2, <2>1, <2>2 DEF ExitClean, IInv, ProcessInv, proxyVars
  <2>. QED BY <1>1, <2>3 DEF IInv
<1>3. CASE ForceExit
  <2>1. ProcessInv'
    BY <1>3 DEF ForceExit, TimerRuns, IInv, ProcessInv
  <2>. QED BY <1>1, <2>1 DEF IInv
<1>. QED BY <1>2, <1>3

LEMMA ProcessKeeps ==
  ASSUME IInv, [Next]_vars
  PROVE  IInv'
BY RequestSteps, OtherSteps, SignalSteps, TasksStep, ExitSteps DEF Next

LEMMA ProcessInvariant == Spec => []IInv
BY ProcessStarts, ProcessKeeps, PTL DEF Spec
-----------------------------------------------------------------------------
(* The variables have their types, for every set of requests.               *)
THEOREM ProcessTypes == Spec => []TypeOK
<1>1. IInv => TypeOK
  BY DEF IInv, PipelineInv, RequestOK, ProcessInv, TypeOK, ProxyType
<1>. QED BY <1>1, ProcessInvariant, PTL

(* The audit log, the trace and the client tell one story of every request  *)
(* of server.ts, however many there are and whatever fails in the tracer;   *)
(* which of two entries a trace tells of is then left open.                 *)
THEOREM OneStoryTold == Spec => []OneStory
<1>1. ASSUME IInv PROVE OneStory
  <2>1. ASSUME NEW r \in Requests, req[r].reply \notin {"none", "parse", "method"} PROVE Told(req[r])
    BY <1>1, <2>1 DEF IInv, PipelineInv, RequestOK, Untold, Request
  <2>. QED BY <2>1 DEF Told, OneStory
<1>. QED BY <1>1, ProcessInvariant, PTL

(* A clean exit finds every request audited but calls at the HTTP bridge    *)
(* whose clients are gone, after any number of signals.                     *)
THEOREM CleanExitKeepsEntries == Spec => []EntriesNotLost
<1>1. IInv => EntriesNotLost
  BY DEF IInv, ProcessInv, Drains, EntriesNotLost
<1>. QED BY <1>1, ProcessInvariant, PTL

(* A clean exit after one signal has pushed the events of every request     *)
(* that was over when the shutdown tasks began.                             *)
THEOREM CleanExitFlushes == Spec => []EventsFlushed
<1>1. IInv => EventsFlushed
  BY DEF IInv, ProcessInv, EventsFlushed
<1>. QED BY <1>1, ProcessInvariant, PTL

(* No call is forwarded to a bridge that has been shut down.  This is the   *)
(* hypothesis ~LateCalls of the theorem ShutdownLeaves of StdioBridge.      *)
THEOREM ServerClosedFirst == Spec => NoLateCalls
<1>1. IInv /\ [Next]_vars =>
        [stopped => \A r \in Requests : req[r].stage = "none" => req'[r].stage # "call"]_vars
  <2> SUFFICES ASSUME IInv, Next, stopped, NEW r \in Requests, req[r].stage = "none"
               PROVE  req'[r].stage # "call"
    OBVIOUS
  <2>1. ~Serving
    BY DEF IInv, ProcessInv, Serving
  <2>2. ASSUME NEW d \in Requests, Settles(d) PROVE req'[r].stage # "call"
    <3>1. Says(d)
      BY <2>2, SettlesSays DEF IInv
    <3>2. req'[r] = req[r] \/ d = r
      BY <3>1 DEF Says, IInv, PipelineInv
    <3>. QED BY <2>2, <3>1, <3>2 DEF Says
  <2>3. ASSUME NEW d \in Requests, Disconnect(d) PROVE req'[r].stage # "call"
    BY <2>3 DEF Disconnect, IInv, PipelineInv
  <2>4. ~RunTasks
    BY DEF RunTasks, IInv, ProcessInv
  <2>. QED BY <2>1, <2>2, <2>3, <2>4
           DEF Next, Handles, Forwards, Settled, Disconnects, PushSettled, PushEnds, ChildExits,
               Signal, SignalAgain, ExitClean, ForceExit, proxyVars
<1>. QED BY <1>1, ProcessInvariant, PTL DEF Spec, NoLateCalls
=============================================================================
