---------------------------- MODULE Improvements ----------------------------
(***************************************************************************)
(* The life of a suggestion file between the three who write it: the sweep *)
(* (scripts/sweep-improvements.mjs with src/improvements/detector.ts and   *)
(* writer.ts), the human who triages, and scripts/address-improvement.mjs. *)
(*                                                                         *)
(* The processes share the worktree and nothing else: any of them may run  *)
(* between a read of a file and the write that follows from it.  All of it *)
(* happens on one day, the date in the ids.                                *)
(***************************************************************************)
EXTENDS Worktree, SkillSignals

CONSTANTS
  Tools, Skills, \* what the evidence is about
  Slug,          \* Slug[x]: how an id spells x; not one-to-one
  Exempt,        \* skills expected to be unused
  Threshold,     \* blocked calls or errors of a tool that make a pattern
  MinInvocations,
  Max,           \* --max
  Published,     \* ids of suggestions committed on main
  Faults,        \* what may fail: "audit", "skill", "branch", "commit", "body", "push", "pr"
  MaxRuns, MaxEdits \* bounds: runs of the scripts, triage steps

Audit  == {"allowlist-drift", "tool-failure"}
Phases == {"audit", "skill"}

(* A suggestion is <<category, subject>>. *)
Suggestions == (Audit \X Tools) \cup ({"skill-usage"} \X Skills)
Id(s)       == <<s[1], Slug[s[2]]>>

ASSUME ImprovementsAssumption ==
  /\ Ids = {Id(s) : s \in Suggestions}
  /\ Published \subseteq Ids /\ Exempt \subseteq Skills
  /\ Faults \subseteq {"audit", "skill", "branch", "commit", "body", "push", "pr"}
  /\ {Threshold, MinInvocations, Max, MaxRuns, MaxEdits} \subseteq Nat

VARIABLES
  sweep,   \* the sweep
  address, \* the address script
  runs,    \* number of runs of either script
  prs,     \* ids with a draft PR
  edits,   \* number of triage steps
  raced,   \* files somebody wrote while another held what it had read (history)
  staged   \* files that a commit that failed left staged (history)

scriptVars == <<sweep, address, runs, prs, edits, raced, staged>>
vars       == <<gitVars, scriptVars>>
-----------------------------------------------------------------------------
(* Detection.  The evidence is that of a log of counts per tool and status, *)
(* and of the invocations per skill and outcome.                            *)
Logs == [Tools -> [blocked : {Threshold - 1, Threshold}, error : {Threshold - 1, Threshold}]]

Usages == [Skills -> [age : {13, 14}, completed : 0..MinInvocations,
                      abandoned : 0..MinInvocations, unknown : 0..1]]

detectAllowlistDrift(log) == {t \in Tools : log[t].blocked >= Threshold}
detectToolFailures(log)   == {t \in Tools : log[t].error >= Threshold}

detectImprovements(log) ==
  ({"allowlist-drift"} \X detectAllowlistDrift(log)) \cup ({"tool-failure"} \X detectToolFailures(log))

detectSkillUsageImprovements(usage) ==
  {"skill-usage"} \X {k \in Skills : \/ NeverUsed(usage[k], k \in Exempt)
                                     \/ Abandoned(usage[k], MinInvocations)}

Evidence ==
  {[audit |-> a, skill |-> k] : a \in {detectImprovements(log) : log \in Logs},
                                k \in {detectSkillUsageImprovements(usage) : usage \in Usages}}

NoId == <<"none">>

Init ==
  /\ GitInit([f \in Ids |-> IF f \in Published THEN "open" ELSE Absent])
  /\ sweep = [pc |-> "done", phase |-> "skill", found |-> [p \in Phases |-> {}], todo |-> {},
              cur |-> NoId, handled |-> {}, count |-> [p \in Phases |-> 0], wrote |-> 0,
              failed |-> {}, code |-> 0]
  /\ address = [pc |-> "idle", id |-> NoId, orig |-> Absent]
  /\ runs = 0 /\ prs = {} /\ edits = 0 /\ raced = {} /\ staged = {}

(* What a process has read and not yet written. *)
HeldBySweep   == IF sweep.pc \in {"recheck", "write"} THEN {Id(sweep.cur)} ELSE {}
HeldByAddress == IF address.pc \in {"branch", "mark", "add", "commit"} THEN {address.id} ELSE {}

Races(held) == raced' = raced \cup {f \in held : work'[f] # work[f]}
-----------------------------------------------------------------------------
(* The sweep.  A phase that is skipped by its flag finds nothing.           *)
Sweeps(pc) == sweep.pc = pc /\ UNCHANGED <<address, prs, edits, staged>>

StartSweep ==
  /\ Sweeps("done") /\ runs < MaxRuns /\ runs' = runs + 1
  /\ \E found \in Evidence :
       sweep' = [pc |-> "look", phase |-> "audit", found |-> found, todo |-> found.audit,
                 cur |-> NoId, handled |-> {}, count |-> [p \in Phases |-> 0], wrote |-> 0,
                 failed |-> {}, code |-> 0]
  /\ UNCHANGED gitVars

(* Mutant: an addressed suggestion is no duplicate. *)
BlocksOpen(status) == status = "open"

(* isDuplicate and writeSuggestion: a dismissed file may be rewritten.      *)
Blocks(status) == status \notin {Absent, "dismissed"}

(* Mutant: each phase has a cap of its own. *)
PhaseCapReached == sweep.count[sweep.phase] >= Max
CapReached      == sweep.count.audit + sweep.count.skill >= Max

(* The detectors list drift before failures, else in the order of the log.  *)
Candidate(s) ==
  /\ s \in sweep.todo
  /\ s[1] = "tool-failure" => \A other \in sweep.todo : other[1] = "tool-failure"

(* Mutant: a failure leaves the exit code alone. *)
NoExitCode(failed) == 0
ExitCode(failed)   == IF failed = {} THEN 0 ELSE 1

EndPhase(failed) ==
  sweep' = IF sweep.phase = "audit"
           THEN [sweep EXCEPT !.pc = "look", !.cur = NoId, !.phase = "skill",
                              !.todo = sweep.found.skill, !.failed = failed]
           ELSE [sweep EXCEPT !.pc = "done", !.cur = NoId, !.todo = {}, !.failed = failed,
                              !.code = ExitCode(failed)]

PhaseEnds ==
  /\ Sweeps("look") /\ (sweep.todo = {} \/ CapReached)
  /\ EndPhase(sweep.failed)
  /\ UNCHANGED <<gitVars, runs>>

(* The input cannot be read, or a suggestion file cannot be read or written.*)
PhaseFails ==
  /\ \E pc \in {"look", "recheck", "write"} : Sweeps(pc)
  /\ sweep.phase \in Faults
  /\ EndPhase(sweep.failed \cup {sweep.phase})
  /\ UNCHANGED <<gitVars, runs>>

Looks(s) == Sweeps("look") /\ ~CapReached /\ Candidate(s)

SkipDuplicate(s) ==
  /\ Looks(s) /\ Blocks(work[Id(s)])
  /\ sweep' = [sweep EXCEPT !.todo = @ \ {s}, !.handled = @ \cup {s}]
  /\ UNCHANGED <<gitVars, runs>>

Take(s) ==
  /\ Looks(s) /\ ~Blocks(work[Id(s)])
  /\ sweep' = [sweep EXCEPT !.pc = "recheck", !.todo = @ \ {s}, !.cur = s]
  /\ UNCHANGED <<gitVars, runs>>

(* The counter goes up whether writeSuggestion writes or not.               *)
Counted(wrote) ==
  [sweep EXCEPT !.pc = "look", !.cur = NoId, !.handled = @ \cup {sweep.cur},
                !.count[sweep.phase] = @ + 1, !.wrote = @ + wrote]

Recheck ==
  /\ Sweeps("recheck")
  /\ sweep' = IF Blocks(work[Id(sweep.cur)]) THEN Counted(0) ELSE [sweep EXCEPT !.pc = "write"]
  /\ UNCHANGED <<gitVars, runs>>

Write ==
  /\ Sweeps("write")
  /\ work' = [work EXCEPT ![Id(sweep.cur)] = "open"]
  /\ sweep' = Counted(1)
  /\ UNCHANGED <<index, head, tree, remote, runs>>
-----------------------------------------------------------------------------
(* The address script, run by one human at a time.                          *)
Addresses(pc) == address.pc = pc /\ UNCHANGED <<sweep, edits>>

At(pc) == address' = [address EXCEPT !.pc = pc]
Exits  == address' = [address EXCEPT !.pc = "idle", !.id = NoId, !.orig = Absent]

(* A file without a status line counts as open.  Any other status than open *)
(* is refused before anything happens.                                      *)
StartAddress(f) ==
  /\ Addresses("idle") /\ runs < MaxRuns /\ runs' = runs + 1
  /\ work[f] \in {"open", "bare"}
  /\ address' = [pc |-> "branch", id |-> f, orig |-> work[f]]
  /\ UNCHANGED <<gitVars, prs, staged>>

MakeBranch ==
  /\ Addresses("branch") /\ CanBranch(address.id)
  /\ Branch(address.id) /\ At("mark")
  /\ UNCHANGED <<runs, prs, staged>>

(* Exit 1, with nothing to undo: fetch or checkout has failed.              *)
NoNewBranch ==
  /\ Addresses("branch") /\ (~CanBranch(address.id) \/ "branch" \in Faults)
  /\ Exits
  /\ UNCHANGED <<gitVars, runs, prs, staged>>

(* Mutant: the pattern misses the status line. *)
MarkedNothing(status) == status
Marked(status)        == IF status = "open" THEN "addressed" ELSE status

(* From what was read, which may no longer be what is there.                *)
Mark ==
  /\ Addresses("mark")
  /\ work' = [work EXCEPT ![address.id] = Marked(address.orig)]
  /\ At("add")
  /\ UNCHANGED <<index, head, tree, remote, runs, prs, staged>>

Stage ==
  /\ Addresses("add") /\ CanAdd(address.id)
  /\ Add(address.id) /\ At("commit")
  /\ UNCHANGED <<runs, prs, staged>>

CommitSeed ==
  /\ Addresses("commit") /\ CanCommit
  /\ Commit /\ At("push")
  /\ UNCHANGED <<runs, prs, staged>>

(* The three steps share a catch. *)
SeedFails ==
  /\ \/ Addresses("mark") /\ "commit" \in Faults
     \/ Addresses("add") /\ ("commit" \in Faults \/ ~CanAdd(address.id))
     \/ Addresses("commit") /\ ("commit" \in Faults \/ ~CanCommit)
  /\ At("restore")
  /\ staged' = IF address.pc = "commit" THEN staged \cup {address.id} ELSE staged
  /\ UNCHANGED <<gitVars, runs, prs>>

(* The temporary file with the body of the PR is written outside every try: *)
(* an exception ends the script, which leaves the commit on its branch.     *)
BodyFails ==
  /\ Addresses("push") /\ "body" \in Faults
  /\ Exits
  /\ UNCHANGED <<gitVars, runs, prs, staged>>

PushSeed ==
  /\ Addresses("push") /\ CanPush(address.id)
  /\ Push(address.id) /\ At("pr")
  /\ UNCHANGED <<runs, prs, staged>>

PushFails ==
  /\ Addresses("push") /\ (~CanPush(address.id) \/ "push" \in Faults)
  /\ At("reset")
  /\ UNCHANGED <<gitVars, runs, prs, staged>>

(* It stays on the branch, for the code that is to follow. *)
OpenPr ==
  /\ Addresses("pr")
  /\ prs' = prs \cup {address.id} /\ Exits
  /\ UNCHANGED <<gitVars, runs, staged>>

(* Exit 1: what has been pushed is not taken back. *)
PrFails ==
  /\ Addresses("pr") /\ "pr" \in Faults
  /\ Exits
  /\ UNCHANGED <<gitVars, runs, prs, staged>>

(* rollback().  The branch is as main is by now: nothing hinders the way back. *)
Reset ==
  /\ Addresses("reset") /\ ResetHard /\ At("restore")
  /\ UNCHANGED <<runs, prs, staged>>

Restore ==
  /\ Addresses("restore")
  /\ work' = [work EXCEPT ![address.id] = IF @ = Absent THEN @ ELSE address.orig]
  /\ At("back")
  /\ UNCHANGED <<index, head, tree, remote, runs, prs, staged>>

BackToMain ==
  /\ Addresses("back") /\ CanCheckout(tree[Main])
  /\ SwitchTo(Main) /\ At("drop")
  /\ UNCHANGED <<runs, prs, staged>>

DropBranch ==
  /\ Addresses("drop")
  /\ Delete(address.id) /\ Exits
  /\ UNCHANGED <<runs, prs, staged>>
-----------------------------------------------------------------------------
(* The human edits a file whenever, and uses git while no script does.      *)
Triages == UNCHANGED <<sweep, address, runs, staged>>

Edit(f) ==
  /\ Triages /\ edits < MaxEdits /\ work[f] # Absent
  /\ edits' = edits + 1
  /\ \E status \in (Statuses \cup {Absent}) \ {work[f]} : work' = [work EXCEPT ![f] = status]
  /\ UNCHANGED <<index, head, tree, remote, prs>>

GoToMain ==
  /\ Triages /\ address.pc = "idle" /\ head # Main /\ CanCheckout(tree[Main])
  /\ SwitchTo(Main)
  /\ UNCHANGED <<prs, edits>>

(* As PrFails says: git push --delete, git checkout main, git branch -D.    *)
Discard ==
  /\ Triages /\ address.pc = "idle" /\ head # Main /\ CanCheckout(tree[Main])
  /\ head \in DOMAIN remote \ prs
  /\ Checkout(tree[Main]) /\ head' = Main
  /\ tree' = Without(tree, head) /\ remote' = Without(remote, head)
  /\ UNCHANGED <<prs, edits>>
-----------------------------------------------------------------------------
Sweep == StartSweep \/ PhaseEnds \/ PhaseFails \/ Recheck \/ Write
           \/ \E s \in Suggestions : SkipDuplicate(s) \/ Take(s)

Address == MakeBranch \/ NoNewBranch \/ Mark \/ Stage \/ CommitSeed \/ SeedFails \/ BodyFails
             \/ PushSeed \/ PushFails \/ OpenPr \/ PrFails \/ Reset \/ Restore \/ BackToMain \/ DropBranch
             \/ \E f \in Ids : StartAddress(f)

Triage == GoToMain \/ Discard \/ \E f \in Ids : Edit(f)

Next ==
  \/ Sweep   /\ Races(HeldByAddress)
  \/ Address /\ Races(HeldBySweep)
  \/ Triage  /\ Races(HeldBySweep \cup HeldByAddress)

Spec == Init /\ [][Next]_vars
-----------------------------------------------------------------------------
TypeOK ==
  /\ GitType
  /\ sweep.pc \in {"done", "look", "recheck", "write"} /\ sweep.phase \in Phases
  /\ sweep.found \in [Phases -> SUBSET Suggestions] /\ sweep.todo \subseteq Suggestions
  /\ sweep.cur \in Suggestions \cup {NoId} /\ sweep.handled \subseteq Suggestions
  /\ sweep.count \in [Phases -> Nat] /\ sweep.wrote \in Nat
  /\ sweep.failed \subseteq Phases /\ sweep.code \in {0, 1}
  /\ address.pc \in {"idle", "branch", "mark", "add", "commit", "push", "pr",
                     "reset", "restore", "back", "drop"}
  /\ address.id \in Ids \cup {NoId} /\ address.orig \in {"open", "bare", Absent}
  /\ runs \in 0..MaxRuns
  /\ prs \subseteq Ids /\ edits \in 0..MaxEdits /\ raced \subseteq Ids /\ staged \subseteq Ids

(* "--max: hard cap on Suggestions written per run", of both phases         *)
(* together, also when the first one fails half way.                        *)
RunCap == sweep.wrote <= Max

(* A sweep that exits with 0, and was not stopped by the cap, has dealt     *)
(* with all that either phase detected; one phase failing does not keep the *)
(* other from its own.                                                      *)
QuietMeansDone ==
  sweep.pc = "done" /\ ~CapReached =>
    \A p \in Phases : sweep.code = 0 \/ p \notin sweep.failed => sweep.found[p] \subseteq sweep.handled

(* A sweep never reopens a suggestion that is open, edited or addressed,    *)
(* unless it was changed between the sweep's read of it and its write.      *)
NoClobber ==
  [][\A f \in Ids : sweep' # sweep /\ work'[f] # work[f] /\ f \notin raced =>
       work[f] \in {Absent, "dismissed"}]_vars

(* A draft PR is seeded with its suggestion marked as addressed (one that   *)
(* has no line of "status: open" and nothing else goes as it is), unless    *)
(* somebody wrote the file while the script was at it.                      *)
PrIsSeeded ==
  \A f \in prs \ raced : f \in DOMAIN remote /\ remote[f][f] \in {"addressed", "bare"}

(* A draft PR brings its own suggestion and no other: it branches off main, *)
(* whatever branch the last one has left the worktree on.  Excepted are     *)
(* those that a commit that failed has left staged.                         *)
PrCarriesOwn ==
  \A f \in prs : \A g \in Ids : remote[f][g] = tree[Main][g] \/ g \in staged \cup {f}

(* rollback(): "Restore the suggestion file's original frontmatter", after  *)
(* which "Re-run when the underlying issue is resolved".                    *)
RollbackRestores == address.pc = "drop" => work[address.id] = address.orig
=============================================================================
