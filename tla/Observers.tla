----------------------------- MODULE Observers ------------------------------
(***************************************************************************)
(* What the observers of the proxy are left with: the audit log (AuditLog) *)
(* and the traces (Tracer), fed by the handlers of server.ts, each of      *)
(* which logs, spans and ends without anything in between, while the       *)
(* process (index.ts) starts, stops and exits around them.                 *)
(*                                                                         *)
(* Which requests get which entries is module Proxy's; here a request has  *)
(* one entry, or two if its answer could not be printed.                   *)
(***************************************************************************)
EXTENDS AuditLog, Tracer, FiniteSets, Functions

CONSTANTS
  Statuses,  \* of an entry
  MaxMishaps \* bound: failures of the disk and of the SDK

ASSUME ObserversAssumption == MaxMishaps \in Nat

VARIABLES
  proc,   \* "boot", "serving", "stopping", "exited"
  stage,  \* stage[r]: "new", "call", "done"
  told,   \* told[r]: the statuses audited for r (history)
  cur,    \* what the running handler still does: <<step, r, status>>, in order
  mishaps, faulty \* their number; the requests in whose trace the SDK failed

procVars == <<proc, stage, told, cur, mishaps, faulty>>
vars     == <<auditVars, tracerVars, procVars>>

Outcomes == {<<s>> : s \in Statuses} \cup {<<"allowed", "error">>}

Init ==
  /\ AuditInit /\ TracerInit
  /\ proc = "boot" /\ cur = <<>>
  /\ stage = [r \in Requests |-> "new"] /\ told = [r \in Requests |-> <<>>]
  /\ mishaps = 0 /\ faulty = {}

(* The failures that may happen now. *)
May(faults) == IF mishaps < MaxMishaps THEN faults ELSE {"none"}
Mishap(fault) == mishaps' = IF fault = "none" THEN mishaps ELSE mishaps + 1

Blames(r, fault) == Mishap(fault) /\ faulty' = IF fault = "none" THEN faulty ELSE faulty \cup {r}
-----------------------------------------------------------------------------
(* A file that does not open and a tracer that cannot be made are no reason *)
(* not to start.                                                            *)
Boot ==
  /\ proc = "boot" /\ proc' = "serving"
  /\ \E path, opens \in BOOLEAN : configureAuditLog(path, opens)
  /\ \E t \in Tracers : createTracer(t)
  /\ UNCHANGED <<stage, told, cur, mishaps, faulty>>

(* audit(), safeSpan(), safeEnd(), once for each entry. *)
Reports(r, outcome) ==
  LET steps(s) == <<<<"audit", r, s>>, <<"span", r, s>>, <<"end", r, s>>>> IN
  cur' = IF Len(outcome) = 1 THEN steps(outcome[1]) ELSE steps(outcome[1]) \o steps(outcome[2])

(* A tools/call starts its trace; it is reported at once or forwarded. *)
Request(r) ==
  /\ proc = "serving" /\ cur = <<>> /\ stage[r] = "new"
  /\ \E fault \in May({"none", "start"}) : startTrace(r, fault = "start") /\ Mishap(fault)
  /\ \/ \E o \in Outcomes : Len(o) = 1 /\ Reports(r, o) /\ stage' = [stage EXCEPT ![r] = "done"]
     \/ stage' = [stage EXCEPT ![r] = "call"] /\ UNCHANGED cur
  /\ UNCHANGED <<auditVars, proc, told, faulty>>

(* The call settles, while the process stops perhaps. *)
CallSettles(r) ==
  /\ proc \in {"serving", "stopping"} /\ cur = <<>> /\ stage[r] = "call"
  /\ stage' = [stage EXCEPT ![r] = "done"]
  /\ \E o \in Outcomes : Reports(r, o)
  /\ UNCHANGED <<auditVars, tracerVars, proc, told, mishaps, faulty>>

Doing(step) ==
  /\ proc # "exited" /\ cur # <<>> /\ Head(cur)[1] = step
  /\ cur' = Tail(cur)
  /\ UNCHANGED <<proc, stage>>

Audits ==
  /\ Doing("audit")
  /\ LET r == Head(cur)[2]  s == Head(cur)[3] IN
     /\ told' = [told EXCEPT ![r] = Append(@, s)]
     /\ \E fault \in May(DiskFaults) :
          logAuditEntry(<<r, Len(told[r]) + 1>>, fault) /\ Mishap(fault)
  /\ UNCHANGED <<tracerVars, faulty>>

Spans ==
  /\ Doing("span")
  /\ LET r == Head(cur)[2] IN
     \E fault \in May({"none", "child"}) : span(r, Head(cur)[3], fault = "child") /\ Blames(r, fault)
  /\ UNCHANGED <<auditVars, told>>

Ends ==
  /\ Doing("end")
  /\ LET r == Head(cur)[2] IN
     \E fault \in May(EndFaults) : end(r, Head(cur)[3], fault) /\ Blames(r, fault)
  /\ UNCHANGED <<auditVars, told>>
-----------------------------------------------------------------------------
(* Between handlers: stdout, the SDK's uploads, and the shutdown.           *)
Between == proc \in {"serving", "stopping"} /\ cur = <<>>
Aside   == Between /\ UNCHANGED <<auditVars, procVars>>

(* What stdout has not taken by then is lost with the process. *)
StdoutDrains == Between /\ StdoutTakes /\ UNCHANGED <<tracerVars, procVars>>

Upload         == Aside /\ Uploads
FlushEnds      == Aside /\ Flushed
FlushGivesUp   == Aside /\ FlushTimesOut
SdkEnds        == Aside /\ (SdkStops \/ SdkFails)
ClientShutdown == Aside /\ ClientEnds

Stop ==
  /\ proc = "serving" /\ cur = <<>> /\ proc' = "stopping"
  /\ StopTracer
  /\ UNCHANGED <<auditVars, stage, told, cur, mishaps, faulty>>

ExitClean ==
  /\ proc = "stopping" /\ cur = <<>> /\ phase = "down" /\ proc' = "exited"
  /\ closeAuditLog
  /\ UNCHANGED <<tracerVars, stage, told, cur, mishaps, faulty>>

ForceExit ==
  /\ proc = "stopping" /\ cur = <<>> /\ proc' = "exited"
  /\ UNCHANGED <<auditVars, tracerVars, stage, told, cur, mishaps, faulty>>

Next ==
  \/ Boot \/ Stop \/ ExitClean \/ ForceExit
  \/ \E r \in Requests : Request(r) \/ CallSettles(r)
  \/ Audits \/ Spans \/ Ends
  \/ StdoutDrains
  \/ Upload \/ FlushEnds \/ FlushGivesUp \/ SdkEnds \/ ClientShutdown

Spec == Init /\ [][Next]_vars

(* A handler that runs runs to its end, and the timers of the phases fire.  *)
(* SdkEnds is one of its three outcomes: well, badly, or given up on.       *)
Fairness ==
  /\ WF_vars(Audits \/ Spans \/ Ends)
  /\ WF_vars(FlushGivesUp) /\ WF_vars(SdkEnds)

FairSpec == Spec /\ Fairness
-----------------------------------------------------------------------------
Entries == {<<r, k>> : r \in Requests, k \in 1..2}

(* Whatever fails, every entry is written to one place, once: to the file,  *)
(* or to stdout with all that follow, since a file that failed once is      *)
(* closed and left alone, with a warning.  Only entries on stdout may be    *)
(* missing after an exit, the last ones, which it had not taken; while the  *)
(* file is in use an exit at any time loses none.  No file stays open that  *)
(* is not in use, if the system lets go of it.  What cannot be read back in *)
(* the file was cut short by the disk, or stands behind what was: two       *)
(* entries for a short write.                                               *)
EntryKept ==
  /\ \A e \in Entries :
       Cardinality(Places(e)) = IF e[2] <= Len(told[e[1]]) THEN 1 ELSE 0
  /\ \A i, j \in DOMAIN log : i < j /\ log[i].to = "stdout" => log[j].to = "stdout"
  /\ \A i \in DOMAIN log : Waits(i) => log[i].to = "stdout"
  /\ auditFd => held /\ ~warned /\ buffered = 0
  /\ warned => ~auditFd /\ \E i \in DOMAIN log : log[i].to = "stdout"
  /\ Cardinality({i \in DOMAIN log : ~Legible(i)}) <= 2 * Cardinality({i \in DOMAIN log : log[i].cut})

Outcome1(s) == <<Status(s), Outcome(s)>>

(* The trace of a request tells what the audit log tells: it is ended only  *)
(* with a status that was audited, of the first entry unless the SDK failed *)
(* in it, with that status and that outcome as its tags; it is not left     *)
(* open by a request that is over; and no tag is of a status that was not   *)
(* audited.                                                                 *)
TraceTellsAudit ==
  \A r \in Requests : LET t == trace[r] IN
    /\ t.st \in {"queued", "late"} /\ r \notin faulty =>
         t.attr = IF tracer = "bare" THEN <<>> ELSE Outcome1(told[r][1])
    /\ stage[r] = "done" /\ cur = <<>> /\ r \notin faulty => t.st \in {"noop", "queued", "late"}
    /\ \A i \in DOMAIN t.tags : t.tags[i][2] \in Range(told[r])

(* A trace that ended before the SDK was shut down reaches Langfuse, though *)
(* another phase of the shutdown may hang: only the SDK itself can lose it, *)
(* or a forced exit.                                                        *)
QueuedIsExported ==
  \A r \in Requests :
    proc = "stopping" /\ Sends /\ r \in Queued
      ~> r \in exported \/ sdkFailed \/ proc = "exited"
=============================================================================
