----------------------------- MODULE SkillUsage -----------------------------
(***************************************************************************)
(* What the sweep reads out of session transcripts                         *)
(* (improvements/skill-transcript.ts) and makes of it in the weekly report *)
(* (improvements/skill-usage-report.ts) and in suggestions (SkillSignals). *)
(*                                                                         *)
(* A transcript is a file that a running session still appends to, so one  *)
(* invocation may be classified again and again, each week with more lines *)
(* behind it.  Earlier transcripts count by their outcomes only.           *)
(***************************************************************************)
EXTENDS SequencesExt, SkillSignals

CONSTANTS
  Lines,           \* [kind, session, skills, text, id, recent]: what a line may be
  Pasts,           \* [completed, abandoned, unknown, sessions]: earlier transcripts
  Skill,           \* the vendored skill reported on
  Rules, Ages,     \* its verdict rule, its age in days
  PivotWindow, StopWindow, Horizon, \* 3, 5 and 20 turns in the code
  MinInvocations,  \* for the abandonment signal: 3
  MaxLines,        \* bound: lines of the transcript
  MaxLater         \* bound: the same, when there are earlier transcripts

ASSUME SkillUsageAssumption ==
  {PivotWindow, StopWindow, Horizon, MinInvocations, MaxLines, MaxLater} \subseteq Nat \ {0}

(* A session counts for an invocation; there are rates to keep a skill by   *)
(* (0.7 in every rule of the code) above the half it is abandoned at.       *)
ASSUME ReportAssumption ==
  /\ Pasts \subseteq [completed : Nat, abandoned : Nat, unknown : Nat, sessions : Nat]
  /\ \A p \in Pasts : p.sessions # 0 => p.completed + p.abandoned + p.unknown # 0
  /\ Rules \subseteq [measureOnly : BOOLEAN, minSessions : Nat, minInvocations : Nat,
                      minCompletion : {0} \cup 51..100, dropBelow : Nat]
  /\ Ages \subseteq Nat

VARIABLES
  lines, \* the transcript
  past   \* what earlier transcripts add up to

vars == <<lines, past>>

Init == lines = <<>> /\ past \in Pasts
-----------------------------------------------------------------------------
(* parseTranscript: what is not JSON is skipped.  The events of the first i *)
(* lines, for every i.                                                      *)
Parsed(ls) ==
  LET events[i \in 0..Len(ls)] ==
        IF i = 0 THEN <<>>
        ELSE IF ls[i].kind = "malformed" THEN events[i - 1] ELSE Append(events[i - 1], ls[i])
  IN events

Events(ls) == Parsed(ls)[Len(ls)]

(* extractSkillInvocations: <<event, skill>> of every named top-level block *)
(* of an event that can be told apart and is in the lookback window; an     *)
(* event is taken to name a skill once.                                     *)
Invocations(evs) ==
  {inv \in (DOMAIN evs) \X {b.name : b \in UNION {Range(evs[i].skills) : i \in DOMAIN evs}} :
     LET ev == evs[inv[1]] IN
     /\ ev.kind = "assistant" /\ ev.id /\ ev.recent
     /\ inv[2] # "" /\ [name |-> inv[2], nested |-> FALSE] \in Range(ev.skills)}

(* A line is written.  What comes before the first invocation of the skill  *)
(* is not read for it, so the transcript begins there.                      *)
AppendLine(line) ==
  /\ Len(lines) < IF past.sessions = 0 THEN MaxLines ELSE MaxLater
  /\ lines = <<>> => <<1, Skill>> \in Invocations(Events(<<line>>))
  /\ lines' = Append(lines, line)
  /\ UNCHANGED past

Next == \E line \in Lines : AppendLine(line)

Spec == Init /\ [][Next]_vars
-----------------------------------------------------------------------------
(* The first top-level block, whatever its name; "" is as good as none. *)
findTopLevelSkillInvocation(ev) ==
  LET k == SelectInSeq(ev.skills, LAMBDA b : ~b.nested) IN
  IF k = 0 THEN "" ELSE ev.skills[k].name

Pivots(ev, name) == findTopLevelSkillInvocation(ev) \notin {"", name}

Start == [assistant |-> 0, user |-> 0, benign |-> FALSE, outcome |-> "open"]

OnAssistant(acc, ev, name) ==
  [acc EXCEPT !.assistant = @ + 1,
              !.outcome = IF acc.assistant < PivotWindow /\ Pivots(ev, name)
                          THEN "abandoned" ELSE @]

(* Mutant: `completed` is decided by the last turn. *)
OnUserForgets(acc, ev) ==
  LET stops == acc.user < StopWindow /\ ev.text = "stop" IN
  [acc EXCEPT !.user = @ + 1, !.outcome = IF stops THEN "abandoned" ELSE @,
              !.benign = ev.text = "benign"]

(* Mutant: the first benign message completes the invocation. *)
OnUserCompletes(acc, ev) ==
  LET stops == acc.user < StopWindow /\ ev.text = "stop" IN
  [acc EXCEPT !.user = @ + 1, !.benign = TRUE,
              !.outcome = IF stops THEN "abandoned" ELSE "completed"]

(* A stop word after the window is as benign as any text. *)
OnUser(acc, ev) ==
  LET stops == acc.user < StopWindow /\ ev.text = "stop" IN
  [acc EXCEPT !.user = @ + 1, !.outcome = IF stops THEN "abandoned" ELSE @,
              !.benign = @ \/ ~stops]

(* classifyInvocation: the loop over the events behind the invocation. *)
Walk(acc, ev, session, name) ==
  LET read == acc.outcome = "open" /\ acc.assistant + acc.user < Horizon /\ ev.session = session IN
  CASE read /\ ev.kind = "assistant" -> OnAssistant(acc, ev, name)
    [] read /\ ev.kind = "user" /\ ev.text # "none" -> OnUser(acc, ev)
    [] OTHER -> acc

Walked(evs, inv) ==
  LET after[i \in inv[1]..Len(evs)] ==
        IF i = inv[1] THEN Start ELSE Walk(after[i - 1], evs[i], evs[inv[1]].session, inv[2])
  IN after

classifyInvocation(evs, inv) ==
  LET end == Walked(evs, inv)[Len(evs)] IN
  IF end.outcome # "open" THEN end.outcome ELSE IF end.benign THEN "completed" ELSE "unknown"
-----------------------------------------------------------------------------
(* computeMetrics for the skill: invocations by outcome, and the sessions. *)
Usage(ls, age) ==
  LET evs  == Events(ls)
      mine == {inv \in Invocations(evs) : inv[2] = Skill}
      Of(o) == Cardinality({inv \in mine : classifyInvocation(evs, inv) = o}) IN
  [age       |-> age,
   completed |-> past.completed + Of("completed"),
   abandoned |-> past.abandoned + Of("abandoned"),
   unknown   |-> past.unknown + Of("unknown"),
   sessions  |-> past.sessions + Cardinality({evs[inv[1]].session : inv \in mine})]

Count(u) == u.completed + u.abandoned + u.unknown

(* Mutant: what could not be classified passes for completed. *)
CompletedOfAll(u, percent) ==
  Count(u) > 0 /\ 100 * (u.completed + u.unknown) >= percent * Count(u)

(* completionRate >= percent, of what was classified; 0 of nothing. *)
Completes(u, percent) ==
  LET classified == u.completed + u.abandoned IN
  IF classified = 0 THEN percent = 0 ELSE 100 * u.completed >= percent * classified

(* Mutant: the grace period ends a day later. *)
DropsLate(u, rule) == rule.dropBelow # 0 /\ u.age > GraceDays /\ Count(u) < rule.dropBelow
Drops(u, rule) == rule.dropBelow # 0 /\ u.age >= GraceDays /\ Count(u) < rule.dropBelow

(* A criterion the rule does not have is 0: it is met, and does not keep. *)
Keeps(u, rule) ==
  /\ u.sessions >= rule.minSessions /\ Count(u) >= rule.minInvocations
  /\ Completes(u, rule.minCompletion)
  /\ rule.minSessions # 0 \/ rule.minInvocations # 0

deriveVerdict(u, rule) ==
  CASE rule.measureOnly -> "MEASURE"
    [] ~rule.measureOnly /\ Drops(u, rule) -> "DROP"
    [] ~rule.measureOnly /\ ~Drops(u, rule) /\ Keeps(u, rule) -> "KEEP"
    [] OTHER -> "UNDECIDED"
-----------------------------------------------------------------------------
(* The reference: what the comment of classifyInvocation counts by.        *)
TurnsAfter(evs, inv) ==
  {j \in (inv[1] + 1)..Len(evs) :
     /\ evs[j].session = evs[inv[1]].session
     /\ evs[j].kind = "assistant" \/ (evs[j].kind = "user" /\ evs[j].text # "none")}

Within(n, j, turns) == j \in turns /\ Cardinality({k \in turns : k <= j}) <= n

OutcomeOf(evs, inv) ==
  LET turns == {j \in TurnsAfter(evs, inv) : Within(Horizon, j, TurnsAfter(evs, inv))}
      said  == {j \in turns : evs[j].kind = "user"}
      pivot == \E j \in turns \ said : Within(PivotWindow, j, turns \ said) /\ Pivots(evs[j], inv[2])
      stop  == \E j \in said : Within(StopWindow, j, said) /\ evs[j].text = "stop" IN
  IF pivot \/ stop THEN "abandoned" ELSE IF said # {} THEN "completed" ELSE "unknown"

(* One walk with three windows that end at different turns comes to what    *)
(* the comment of classifyInvocation defines: abandoned by a stop word or   *)
(* another skill in its window, else completed if the user said anything,   *)
(* lines of other sessions and tool results counting for nothing.  (That    *)
(* the windows have passed, as the comment has it, is not asked.)           *)
OutcomeAsDefined ==
  LET evs == Events(lines) IN
  \A inv \in Invocations(evs) : classifyInvocation(evs, inv) = OutcomeOf(evs, inv)

(* The report of a week never takes back that of the week before: a         *)
(* transcript that grows may complete an unknown invocation or abandon one, *)
(* but abandoned is final, completed does not become unknown, and after     *)
(* Horizon turns nothing changes.                                           *)
OutcomeOnlyWorsens ==
  [][LET evs == Events(lines)  evs2 == Events(lines') IN
     \A inv \in Invocations(evs) :
       LET before == classifyInvocation(evs, inv)  after == classifyInvocation(evs2, inv) IN
       \/ after = before
       \/ /\ before # "abandoned" /\ after # "unknown"
          /\ Cardinality(TurnsAfter(evs, inv)) < Horizon]_vars

(* The report and the suggestions of one sweep, computed apart from the     *)
(* same invocations, contradict each other in one case only.  What is       *)
(* suggested as never used is dropped by every rule that drops, and kept by *)
(* none.  What is suggested as abandoned is kept only by a rule that asks   *)
(* for no completion rate: verification-before-completion, to be kept for   *)
(* five invocations, has such a rule, and both are said of it when it is    *)
(* abandoned five times.                                                    *)
OneContradiction ==
  \A rule \in Rules, age \in Ages :
    LET u == Usage(lines, age)  verdict == deriveVerdict(u, rule) IN
    /\ NeverUsed(u, rule.measureOnly) =>
         verdict = IF rule.dropBelow # 0 THEN "DROP" ELSE "UNDECIDED"
    /\ verdict = "KEEP" /\ Abandoned(u, MinInvocations) => rule.minCompletion = 0
=============================================================================
