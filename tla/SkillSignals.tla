---------------------------- MODULE SkillSignals ----------------------------
(* The two signals of detectSkillUsageImprovements (improvements/            *)
(* detector.ts) about what is known of a skill, u: its age in days and its   *)
(* invocations by outcome.                                                   *)
EXTENDS Naturals

GraceDays == 14

(* Never used: 14 days of grace. *)
NeverUsed(u, exempt) == u.completed + u.abandoned + u.unknown = 0 /\ ~exempt /\ u.age >= GraceDays

(* Abandoned: half of what could be classified, out of enough. *)
Abandoned(u, minInvocations) ==
  LET classified == u.completed + u.abandoned IN
  classified > 0 /\ classified >= minInvocations /\ 2 * u.abandoned >= classified
=============================================================================
