------------------------- MODULE ImprovementsProofs -------------------------
(***************************************************************************)
(* What holds of the suggestion files for every set of tools and skills,   *)
(* every spelling of their ids, every cap and threshold, any number of     *)
(* runs and triage steps, and whatever fails.                              *)
(***************************************************************************)
EXTENDS Improvements, TLAPS

Sweeping == [pc : {"done", "look", "recheck", "write"}, phase : Phases,
             found : [Phases -> SUBSET Suggestions], todo : SUBSET Suggestions,
             cur : Suggestions \cup {NoId}, handled : SUBSET Suggestions,
             count : [Phases -> Nat], wrote : Nat, failed : SUBSET Phases, code : {0, 1}]

Addressing == [pc : {"idle", "branch", "mark", "add", "commit", "push", "pr",
                     "reset", "restore", "back", "drop"},
               id : Ids \cup {NoId}, orig : {"open", "bare", Absent}]

TypeInv ==
  /\ GitType
  /\ sweep \in Sweeping /\ address \in Addressing
  /\ runs \in 0..MaxRuns /\ edits \in 0..MaxEdits
  /\ prs \in SUBSET Ids /\ raced \in SUBSET Ids /\ staged \in SUBSET Ids

(* A phase of the sweep w is settled when it failed, ran into the cap, or   *)
(* has dealt with all it found.                                             *)
Total(w)      == w.count["audit"] + w.count["skill"]
Settled(w, p) == Total(w) >= Max \/ p \in w.failed \/ w.found[p] \subseteq w.handled
InHand(w)     == IF w.pc \in {"recheck", "write"} THEN {w.cur} ELSE {}

SweepOK(w) ==
  /\ w.wrote <= Total(w) /\ Total(w) <= Max
  /\ w.pc \in {"recheck", "write"} => Total(w) < Max /\ w.cur \in Suggestions
  /\ w.pc # "done" =>
       /\ w.found[w.phase] \subseteq w.handled \cup w.todo \cup InHand(w)
       /\ w.phase = "skill" => Settled(w, "audit")
  /\ w.pc = "done" => (\A p \in Phases : Settled(w, p)) /\ (w.code = 0 <=> w.failed = {})

(* What the sweep is about to write was free when it looked, or somebody    *)
(* wrote it since.                                                          *)
FreeToWrite ==
  sweep.pc = "write" => Id(sweep.cur) \in raced \/ ~Blocks(work[Id(sweep.cur)])

Seeded      == {"addressed", "bare"}
Own(t, f)   == \A g \in Ids : t[g] = tree[Main][g] \/ g \in staged \cup {f}
Seeds(t, f) == t[f] \in Seeded \/ f \in raced

(* The status on its way from the worktree by the index and the branch to   *)
(* the remote.                                                              *)
Delivered ==
  prs \subseteq DOMAIN remote /\ \A f \in prs : Own(remote[f], f) /\ Seeds(remote[f], f)

IndexOK ==
  \A g \in Ids : \/ index[g] = tree[head][g] \/ g \in staged
                 \/ address.pc = "commit" /\ g = address.id

Underway ==
  /\ address.pc # "idle" => address.id \in Ids /\ address.orig \in {"open", "bare"}
  /\ address.pc \in {"mark", "add", "commit", "push", "pr", "reset", "restore", "back"} =>
       head = address.id
  /\ address.pc = "drop" => head = Main
  /\ address.pc \in {"mark", "add", "commit"} => tree[address.id] = tree[Main]
  /\ address.pc = "add" => Seeds(work, address.id)
  /\ address.pc = "commit" => Seeds(index, address.id)
  /\ address.pc = "push" => Own(tree[address.id], address.id) /\ Seeds(tree[address.id], address.id)
  /\ address.pc = "pr" => /\ address.id \in DOMAIN remote
                          /\ Own(remote[address.id], address.id)
                          /\ Seeds(remote[address.id], address.id)

SeedInv == Delivered /\ IndexOK /\ Underway

IInv == TypeInv /\ SweepOK(sweep) /\ FreeToWrite /\ SeedInv
-----------------------------------------------------------------------------
(* Types of the constants.                                                  *)

LEMMA ConstantTypes ==
  /\ Max \in Nat /\ MaxRuns \in Nat /\ MaxEdits \in Nat
  /\ Published \in SUBSET Ids /\ \A s \in Suggestions : Id(s) \in Ids
BY ImprovementsAssumption

LEMMA EvidenceType ==
  ASSUME NEW e \in Evidence
  PROVE  e \in [Phases -> SUBSET Suggestions]
<1>1. PICK log \in Logs, usage \in Usages :
        e = [audit |-> detectImprovements(log), skill |-> detectSkillUsageImprovements(usage)]
  BY DEF Evidence
<1>2. detectImprovements(log) \subseteq Suggestions
  BY DEF detectImprovements, detectAllowlistDrift, detectToolFailures, Suggestions, Audit
<1>3. detectSkillUsageImprovements(usage) \subseteq Suggestions
  BY DEF detectSkillUsageImprovements, Suggestions
<1>. QED BY <1>1, <1>2, <1>3 DEF Phases
-----------------------------------------------------------------------------
(* The sweep, whatever the files are.                                       *)

LEMMA StartSweepKeeps ==
  ASSUME IInv, StartSweep
  PROVE  sweep' \in Sweeping /\ SweepOK(sweep') /\ sweep'.pc # "write"
<1>1. PICK found \in Evidence :
       sweep' = [pc |-> "look", phase |-> "audit", found |-> found, todo |-> found.audit,
                 cur |-> NoId, handled |-> {}, count |-> [p \in Phases |-> 0], wrote |-> 0,
                 failed |-> {}, code |-> 0]
  BY DEF StartSweep
<1>2. found \in [Phases -> SUBSET Suggestions] /\ found["audit"] = found.audit /\ "audit" \in Phases
  BY EvidenceType DEF Phases
<1>3. sweep' \in Sweeping
  BY <1>1, <1>2 DEF Sweeping
<1>4. Total(sweep') = 0
  BY <1>1 DEF Total, Phases
<1>. QED BY <1>1, <1>2, <1>3, <1>4, ConstantTypes DEF SweepOK, InHand

LEMMA EndPhaseSays ==
  ASSUME IInv, NEW failed \in SUBSET Phases, EndPhase(failed), sweep.pc # "done",
         sweep.failed \subseteq failed, Settled(sweep, sweep.phase) \/ sweep.phase \in failed
  PROVE  sweep' \in Sweeping /\ SweepOK(sweep') /\ sweep'.pc # "write"
<1>1. sweep \in Sweeping /\ SweepOK(sweep) /\ sweep.phase \in {"audit", "skill"}
  BY DEF IInv, TypeInv, Sweeping, Phases
<1>2. CASE sweep.phase = "audit"
  <2>1. sweep' = [sweep EXCEPT !.pc = "look", !.cur = NoId, !.phase = "skill",
                              !.todo = sweep.found.skill, !.failed = failed]
    BY <1>2 DEF EndPhase
  <2>2. sweep.found["skill"] = sweep.found.skill /\ sweep.found["skill"] \in SUBSET Suggestions
    BY <1>1 DEF Sweeping, Phases
  <2>3. sweep' \in Sweeping
    BY <1>1, <2>1, <2>2 DEF Sweeping, Phases
  <2>4. /\ sweep'.pc = "look" /\ sweep'.phase = "skill" /\ sweep'.found = sweep.found
        /\ sweep'.todo = sweep.found["skill"] /\ sweep'.handled = sweep.handled
        /\ sweep'.count = sweep.count /\ sweep'.wrote = sweep.wrote /\ sweep'.failed = failed
    BY <1>1, <2>1, <2>2 DEF Sweeping
  <2>5. Settled(sweep', "audit") /\ Total(sweep') = Total(sweep)
    BY <1>2, <2>4 DEF Settled, Total
  <2>. QED BY <1>1, <2>3, <2>4, <2>5 DEF SweepOK
<1>3. CASE sweep.phase = "skill"
  <2>1. sweep' = [sweep EXCEPT !.pc = "done", !.cur = NoId, !.todo = {}, !.failed = failed,
                              !.code = ExitCode(failed)]
    BY <1>3 DEF EndPhase
  <2>2. ExitCode(failed) \in {0, 1} /\ (ExitCode(failed) = 0 <=> failed = {})
    BY DEF ExitCode
  <2>3. sweep' \in Sweeping
    BY <1>1, <2>1, <2>2 DEF Sweeping
  <2>4. /\ sweep'.pc = "done" /\ sweep'.found = sweep.found /\ sweep'.handled = sweep.handled
        /\ sweep'.count = sweep.count /\ sweep'.wrote = sweep.wrote /\ sweep'.failed = failed
        /\ sweep'.code = ExitCode(failed)
    BY <1>1, <2>1 DEF Sweeping
  <2>5. Total(sweep') = Total(sweep) /\ Settled(sweep', "skill") /\ Settled(sweep', "audit")
    BY <1>1, <1>3, <2>4 DEF Settled, Total, SweepOK
  <2>. QED BY <1>1, <2>2, <2>3, <2>4, <2>5 DEF SweepOK, Phases
<1>. QED BY <1>1, <1>2, <1>3

LEMMA PhaseEndsKeeps ==
  ASSUME IInv, PhaseEnds \/ PhaseFails
  PROVE  sweep' \in Sweeping /\ SweepOK(sweep') /\ sweep'.pc # "write"
<1>1. sweep \in Sweeping /\ SweepOK(sweep)
  BY DEF IInv, TypeInv
<1>2. CASE PhaseEnds
  <2>1. sweep.pc = "look" /\ EndPhase(sweep.failed) /\ sweep.failed \in SUBSET Phases
    BY <1>1, <1>2 DEF PhaseEnds, Sweeps, Sweeping
  <2>2. Settled(sweep, sweep.phase)
    BY <1>1, <1>2, <2>1 DEF PhaseEnds, CapReached, Settled, SweepOK, InHand, Total
  <2>. QED BY <2>1, <2>2, EndPhaseSays
<1>3. CASE PhaseFails
  <2>1. /\ sweep.pc # "done" /\ EndPhase(sweep.failed \cup {sweep.phase})
        /\ sweep.failed \cup {sweep.phase} \in SUBSET Phases
    BY <1>1, <1>3 DEF PhaseFails, Sweeps, Sweeping
  <2>. QED BY <2>1, EndPhaseSays
<1>. QED BY <1>2, <1>3

LEMMA SkipDuplicateKeeps ==
  ASSUME IInv, NEW s \in Suggestions, SkipDuplicate(s)
  PROVE  sweep' \in Sweeping /\ SweepOK(sweep') /\ sweep'.pc # "write"
<1>1. sweep \in Sweeping /\ SweepOK(sweep) /\ sweep.pc = "look"
  BY DEF IInv, TypeInv, SkipDuplicate, Looks, Sweeps
<1>2. sweep' = [sweep EXCEPT !.todo = sweep.todo \ {s}, !.handled = sweep.handled \cup {s}]
  BY DEF SkipDuplicate
<1>3. sweep' \in Sweeping
  BY <1>1, <1>2 DEF Sweeping
<1>4. /\ sweep'.pc = "look" /\ sweep'.phase = sweep.phase /\ sweep'.found = sweep.found
      /\ sweep'.todo = sweep.todo \ {s} /\ sweep'.handled = sweep.handled \cup {s}
      /\ sweep'.count = sweep.count /\ sweep'.wrote = sweep.wrote /\ sweep'.failed = sweep.failed
  BY <1>1, <1>2 DEF Sweeping
<1>5. Total(sweep') = Total(sweep) /\ (Settled(sweep, "audit") => Settled(sweep', "audit"))
  BY <1>4 DEF Total, Settled
<1>. QED BY <1>1, <1>3, <1>4, <1>5 DEF SweepOK, InHand

LEMMA TakeKeeps ==
  ASSUME IInv, NEW s \in Suggestions, Take(s)
  PROVE  sweep' \in Sweeping /\ SweepOK(sweep') /\ sweep'.pc # "write"
<1>1. sweep \in Sweeping /\ SweepOK(sweep) /\ sweep.pc = "look"
  BY DEF IInv, TypeInv, Take, Looks, Sweeps
<1>2. sweep' = [sweep EXCEPT !.pc = "recheck", !.todo = sweep.todo \ {s}, !.cur = s]
  BY DEF Take
<1>3. sweep' \in Sweeping
  BY <1>1, <1>2 DEF Sweeping
<1>4. /\ sweep'.pc = "recheck" /\ sweep'.phase = sweep.phase /\ sweep'.found = sweep.found
      /\ sweep'.todo = sweep.todo \ {s} /\ sweep'.handled = sweep.handled /\ sweep'.cur = s
      /\ sweep'.count = sweep.count /\ sweep'.wrote = sweep.wrote /\ sweep'.failed = sweep.failed
  BY <1>1, <1>2 DEF Sweeping
<1>5. Total(sweep') = Total(sweep) /\ (Settled(sweep, "audit") => Settled(sweep', "audit"))
  BY <1>4 DEF Total, Settled
<1>6. Total(sweep) < Max
  <2>1. sweep.count \in [Phases -> Nat] /\ ~(Total(sweep) >= Max)
    BY <1>1 DEF Take, Looks, CapReached, Sweeping, Total
  <2>. QED BY <2>1, ConstantTypes DEF Total, Phases
<1>. QED BY <1>1, <1>3, <1>4, <1>5, <1>6 DEF SweepOK, InHand

LEMMA CountedKeeps ==
  ASSUME IInv, NEW n \in {0, 1}, sweep' = Counted(n), sweep.pc \in {"recheck", "write"}
  PROVE  sweep' \in Sweeping /\ SweepOK(sweep') /\ sweep'.pc # "write"
<1>. DEFINE p == sweep.phase
            count == [sweep.count EXCEPT ![p] = sweep.count[p] + 1]
            wrote == sweep.wrote + n
            handled == sweep.handled \cup {sweep.cur}
<1>1. sweep \in Sweeping /\ SweepOK(sweep)
  BY DEF IInv, TypeInv
<1>2. /\ p \in Phases /\ sweep.count \in [Phases -> Nat] /\ sweep.wrote \in Nat
      /\ sweep.cur \in Suggestions /\ Total(sweep) < Max /\ sweep.wrote <= Total(sweep)
  BY <1>1 DEF Sweeping, SweepOK
<1>3. sweep' = [sweep EXCEPT !.pc = "look", !.cur = NoId, !.handled = handled,
                             !.count = count, !.wrote = wrote]
  BY <1>1 DEF Counted, Sweeping
<1>4. count \in [Phases -> Nat] /\ wrote \in Nat /\ handled \in SUBSET Suggestions
  BY <1>1, <1>2 DEF Sweeping
<1>. HIDE DEF count, wrote, handled
<1>5. sweep' \in Sweeping
  BY <1>1, <1>3, <1>4 DEF Sweeping
<1>6. /\ sweep'.pc = "look" /\ sweep'.phase = p /\ sweep'.found = sweep.found
      /\ sweep'.todo = sweep.todo /\ sweep'.handled = sweep.handled \cup {sweep.cur}
      /\ sweep'.count = count /\ sweep'.wrote = sweep.wrote + n /\ sweep'.failed = sweep.failed
  BY <1>1, <1>3 DEF Sweeping, wrote, handled
<1>7. Total(sweep') = Total(sweep) + 1
  BY <1>2, <1>6 DEF Total, Phases, count
<1>8. Total(sweep) \in Nat /\ Max \in Nat
  BY <1>2, ConstantTypes DEF Total, Phases
<1>9. Settled(sweep, "audit") => Settled(sweep', "audit")
  BY <1>6, <1>7, <1>8 DEF Settled
<1>10. sweep'.wrote <= Total(sweep') /\ Total(sweep') <= Max
  BY <1>2, <1>6, <1>7, <1>8
<1>. QED BY <1>1, <1>2, <1>5, <1>6, <1>9, <1>10 DEF SweepOK, InHand

LEMMA RecheckKeeps ==
  ASSUME IInv, Recheck
  PROVE  /\ sweep' \in Sweeping /\ SweepOK(sweep')
         /\ sweep'.pc = "write" => sweep'.cur = sweep.cur /\ ~Blocks(work[Id(sweep.cur)])
<1>1. sweep \in Sweeping /\ SweepOK(sweep) /\ sweep.pc = "recheck"
  BY DEF IInv, TypeInv, Recheck, Sweeps
<1>2. CASE Blocks(work[Id(sweep.cur)])
  BY <1>1, <1>2, CountedKeeps DEF Recheck
<1>3. CASE ~Blocks(work[Id(sweep.cur)])
  <2>1. sweep' = [sweep EXCEPT !.pc = "write"]
    BY <1>3 DEF Recheck
  <2>2. sweep' \in Sweeping
    BY <1>1, <2>1 DEF Sweeping
  <2>3. /\ sweep'.pc = "write" /\ sweep'.phase = sweep.phase /\ sweep'.found = sweep.found
        /\ sweep'.todo = sweep.todo /\ sweep'.handled = sweep.handled /\ sweep'.cur = sweep.cur
        /\ sweep'.count = sweep.count /\ sweep'.wrote = sweep.wrote /\ sweep'.failed = sweep.failed
    BY <1>1, <2>1 DEF Sweeping
  <2>4. Total(sweep') = Total(sweep) /\ (Settled(sweep, "audit") => Settled(sweep', "audit"))
    BY <2>3 DEF Total, Settled
  <2>. QED BY <1>1, <1>3, <2>2, <2>3, <2>4 DEF SweepOK, InHand
<1>. QED BY <1>2, <1>3
-----------------------------------------------------------------------------
(* git.                                                                     *)

LEMMA WithoutSays ==
  ASSUME NEW f, NEW x
  PROVE  /\ DOMAIN Without(f, x) = DOMAIN f \ {x}
         /\ \A y \in DOMAIN f \ {x} : Without(f, x)[y] = f[y]
BY DEF Without

(* A checkout makes the index that of the branch, but for what was staged.  *)
LEMMA CheckoutSays ==
  ASSUME IInv, address.pc # "commit", NEW to \in Trees, Checkout(to)
  PROVE  /\ work' \in Trees /\ index' \in Trees
         /\ \A g \in Ids : index'[g] = to[g] \/ g \in staged
<1>1. work \in Trees /\ index \in Trees /\ IndexOK
  BY DEF IInv, TypeInv, GitType, SeedInv
<1>2. work' \in Trees /\ index' \in Trees
  BY <1>1 DEF Checkout, Trees
<1>. QED BY <1>1, <1>2 DEF Checkout, Stays, IndexOK

LEMMA Parts ==
  IInv => /\ GitType /\ address \in Addressing /\ prs \in SUBSET Ids /\ staged \in SUBSET Ids
          /\ raced \in SUBSET Ids /\ Delivered /\ IndexOK /\ Underway
          /\ tree[Main] \in Trees /\ Main \notin Ids
BY MainAssumption DEF IInv, TypeInv, GitType, SeedInv

LEMMA DeliveredKeeps ==
  ASSUME Delivered, UNCHANGED prs, \A f \in prs : f \in DOMAIN remote' /\ remote'[f] = remote[f],
         tree'[Main] = tree[Main], staged \subseteq staged', raced \subseteq raced'
  PROVE  Delivered'
BY DEF Delivered, Own, Seeds

LEMMA AtSays ==
  ASSUME IInv,
         NEW pc \in {"branch", "mark", "add", "commit", "push", "pr", "reset", "restore", "back", "drop"},
         At(pc)
  PROVE  /\ address' \in Addressing /\ address'.pc = pc
         /\ address'.id = address.id /\ address'.orig = address.orig
BY DEF At, IInv, TypeInv, Addressing

LEMMA ExitsSays == ASSUME IInv, Exits PROVE address' \in Addressing /\ address'.pc = "idle"
BY DEF Exits, IInv, TypeInv, Addressing
-----------------------------------------------------------------------------
(* The address script.  A step of it races with a sweep at most.            *)

Seeding == GitType /\ address \in Addressing /\ prs \in SUBSET Ids /\ staged \in SUBSET Ids /\ SeedInv

(* Steps that leave git alone. *)
LEMMA StartAddressKeeps ==
  ASSUME IInv, raced \subseteq raced', NEW f \in Ids, StartAddress(f)
  PROVE  Seeding'
<1>1. /\ address' = [pc |-> "branch", id |-> f, orig |-> work[f]] /\ work[f] \in {"open", "bare"}
      /\ UNCHANGED <<work, index, head, tree, remote, prs, staged>> /\ address.pc = "idle"
  BY DEF StartAddress, Addresses, gitVars
<1>2. address' \in Addressing /\ address'.pc = "branch" /\ address'.id = f /\ address'.orig = work[f]
  BY <1>1 DEF Addressing
<1>3. Delivered'
  BY <1>1, Parts, DeliveredKeeps DEF Delivered
<1>4. IndexOK'
  BY <1>1, <1>2, Parts DEF IndexOK
<1>5. Underway'
  BY <1>1, <1>2 DEF Underway
<1>. QED BY <1>1, <1>2, <1>3, <1>4, <1>5, Parts DEF Seeding, SeedInv, GitType

LEMMA QuietExitKeeps ==
  ASSUME IInv, raced \subseteq raced', NoNewBranch \/ BodyFails \/ PrFails
  PROVE  Seeding'
<1>1. /\ UNCHANGED <<work, index, head, tree, remote, prs, staged>> /\ Exits
      /\ address.pc \in {"branch", "push", "pr"}
  BY DEF NoNewBranch, BodyFails, PrFails, Addresses, gitVars
<1>2. address' \in Addressing /\ address'.pc = "idle"
  BY <1>1, ExitsSays
<1>3. Delivered'
  BY <1>1, Parts, DeliveredKeeps DEF Delivered
<1>4. IndexOK'
  BY <1>1, <1>2, Parts DEF IndexOK
<1>5. Underway'
  BY <1>2 DEF Underway
<1>. QED BY <1>1, <1>2, <1>3, <1>4, <1>5, Parts DEF Seeding, SeedInv, GitType

LEMMA OpenPrKeeps ==
  ASSUME IInv, raced \subseteq raced', OpenPr
  PROVE  Seeding'
<1>1. /\ UNCHANGED <<work, index, head, tree, remote, staged>> /\ Exits
      /\ address.pc = "pr" /\ prs' = prs \cup {address.id}
  BY DEF OpenPr, Addresses, gitVars
<1>2. address' \in Addressing /\ address'.pc = "idle"
  BY <1>1, ExitsSays
<1>3. /\ address.id \in Ids /\ address.id \in DOMAIN remote
      /\ Own(remote[address.id], address.id) /\ Seeds(remote[address.id], address.id)
  BY <1>1, Parts DEF Underway
<1>4. Delivered'
  BY <1>1, <1>3, Parts DEF Delivered, Own, Seeds
<1>5. IndexOK'
  BY <1>1, <1>2, Parts DEF IndexOK
<1>6. Underway'
  BY <1>2 DEF Underway
<1>. QED BY <1>1, <1>2, <1>3, <1>4, <1>5, <1>6, Parts DEF Seeding, SeedInv, GitType

LEMMA SeedFailsKeeps ==
  ASSUME IInv, raced \subseteq raced', SeedFails
  PROVE  Seeding'
<1>1. /\ UNCHANGED <<work, index, head, tree, remote, prs>> /\ At("restore")
      /\ address.pc \in {"mark", "add", "commit"}
      /\ staged' = IF address.pc = "commit" THEN staged \cup {address.id} ELSE staged
  BY DEF SeedFails, Addresses, gitVars
<1>2. /\ address' \in Addressing /\ address'.pc = "restore"
      /\ address'.id = address.id /\ address'.orig = address.orig
  BY <1>1, AtSays
<1>3. address.id \in Ids /\ address.orig \in {"open", "bare"} /\ head = address.id
  BY <1>1, Parts DEF Underway
<1>4. Delivered'
  BY <1>1, Parts, DeliveredKeeps DEF Delivered
<1>5. IndexOK'
  BY <1>1, <1>2, Parts DEF IndexOK
<1>6. Underway'
  BY <1>1, <1>2, <1>3 DEF Underway
<1>. QED BY <1>1, <1>2, <1>3, <1>4, <1>5, <1>6, Parts DEF Seeding, SeedInv, GitType

LEMMA PushFailsKeeps ==
  ASSUME IInv, raced \subseteq raced', PushFails
  PROVE  Seeding'
<1>1. /\ UNCHANGED <<work, index, head, tree, remote, prs, staged>> /\ At("reset")
      /\ address.pc = "push"
  BY DEF PushFails, Addresses, gitVars
<1>2. /\ address' \in Addressing /\ address'.pc = "reset"
      /\ address'.id = address.id /\ address'.orig = address.orig
  BY <1>1, AtSays
<1>3. address.id \in Ids /\ address.orig \in {"open", "bare"} /\ head = address.id
  BY <1>1, Parts DEF Underway
<1>4. Delivered'
  BY <1>1, Parts, DeliveredKeeps DEF Delivered
<1>5. IndexOK'
  BY <1>1, <1>2, Parts DEF IndexOK
<1>6. Underway'
  BY <1>1, <1>2, <1>3 DEF Underway
<1>. QED BY <1>1, <1>2, <1>3, <1>4, <1>5, <1>6, Parts DEF Seeding, SeedInv, GitType

(* Steps that write the worktree only. *)
LEMMA MarkKeeps ==
  ASSUME IInv, raced \subseteq raced', Mark
  PROVE  Seeding'
<1>1. /\ UNCHANGED <<index, head, tree, remote, prs, staged>> /\ At("add") /\ address.pc = "mark"
      /\ work' = [work EXCEPT ![address.id] = Marked(address.orig)]
  BY DEF Mark, Addresses
<1>2. /\ address' \in Addressing /\ address'.pc = "add"
      /\ address'.id = address.id /\ address'.orig = address.orig
  BY <1>1, AtSays
<1>3. /\ address.id \in Ids /\ address.orig \in {"open", "bare"} /\ head = address.id
      /\ tree[address.id] = tree[Main]
  BY <1>1, Parts DEF Underway
<1>4. work' \in Trees /\ work'[address.id] \in Seeded
  BY <1>1, <1>3, Parts DEF GitType, Trees, Statuses, Marked, Seeded
<1>5. Delivered'
  BY <1>1, Parts, DeliveredKeeps DEF Delivered
<1>6. IndexOK'
  BY <1>1, <1>2, Parts DEF IndexOK
<1>7. Underway'
  BY <1>1, <1>2, <1>3, <1>4 DEF Underway, Seeds
<1>. QED BY <1>1, <1>2, <1>4, <1>5, <1>6, <1>7, Parts DEF Seeding, SeedInv, GitType

LEMMA RestoreKeeps ==
  ASSUME IInv, raced \subseteq raced', Restore
  PROVE  Seeding'
<1>1. /\ UNCHANGED <<index, head, tree, remote, prs, staged>> /\ At("back") /\ address.pc = "restore"
      /\ work' = [work EXCEPT ![address.id] =
                    IF work[address.id] = Absent THEN work[address.id] ELSE address.orig]
  BY DEF Restore, Addresses
<1>2. /\ address' \in Addressing /\ address'.pc = "back"
      /\ address'.id = address.id /\ address'.orig = address.orig
  BY <1>1, AtSays
<1>3. /\ address.id \in Ids /\ address.orig \in {"open", "bare"} /\ head = address.id
  BY <1>1, Parts DEF Underway
<1>4. work' \in Trees
  BY <1>1, <1>3, Parts DEF GitType, Trees, Statuses
<1>5. Delivered'
  BY <1>1, Parts, DeliveredKeeps DEF Delivered
<1>6. IndexOK'
  BY <1>1, <1>2, Parts DEF IndexOK
<1>7. Underway'
  BY <1>1, <1>2, <1>3 DEF Underway
<1>. QED BY <1>1, <1>2, <1>4, <1>5, <1>6, <1>7, Parts DEF Seeding, SeedInv, GitType

(* Steps of git. *)
LEMMA MakeBranchKeeps ==
  ASSUME IInv, raced \subseteq raced', MakeBranch
  PROVE  Seeding'
<1>. DEFINE b == address.id
<1>1. /\ UNCHANGED <<remote, prs, staged>> /\ At("mark") /\ address.pc = "branch"
      /\ b \notin DOMAIN tree /\ Checkout(tree[Main])
      /\ head' = b /\ tree' = With(tree, b, tree[Main])
  BY DEF MakeBranch, Addresses, CanBranch, Branch
<1>2. /\ address' \in Addressing /\ address'.pc = "mark"
      /\ address'.id = b /\ address'.orig = address.orig
  BY <1>1, AtSays
<1>3. b \in Ids /\ address.orig \in {"open", "bare"} /\ b # Main /\ Main \in DOMAIN tree
  BY <1>1, Parts DEF Underway, GitType
<1>4. /\ DOMAIN tree' = DOMAIN tree \cup {b} /\ tree'[b] = tree[Main] /\ tree'[Main] = tree[Main]
      /\ \A c \in DOMAIN tree : tree'[c] = tree[c]
  <2>. DEFINE grown == With(tree, b, tree[Main])
  <2>1. DOMAIN grown = DOMAIN tree \cup {b} /\ grown[b] = tree[Main] /\ \A c \in DOMAIN tree : grown[c] = tree[c]
    BY <1>1 DEF With
  <2>. HIDE DEF grown
  <2>. QED BY <1>1, <1>3, <2>1 DEF grown
<1>5. /\ work' \in Trees /\ index' \in Trees
      /\ \A g \in Ids : index'[g] = tree[Main][g] \/ g \in staged
  BY <1>1, Parts, CheckoutSays
<1>6. Delivered'
  BY <1>1, <1>4, Parts, DeliveredKeeps DEF Delivered
<1>7. IndexOK'
  BY <1>1, <1>4, <1>5 DEF IndexOK
<1>8. Underway'
  BY <1>1, <1>2, <1>3, <1>4 DEF Underway
<1>9. GitType'
  BY <1>1, <1>3, <1>4, <1>5, Parts DEF GitType
<1>. QED BY <1>1, <1>2, <1>6, <1>7, <1>8, <1>9, Parts DEF Seeding, SeedInv

LEMMA StageKeeps ==
  ASSUME IInv, raced \subseteq raced', Stage
  PROVE  Seeding'
<1>. DEFINE b == address.id
<1>1. /\ UNCHANGED <<work, head, tree, remote, prs, staged>> /\ At("commit") /\ address.pc = "add"
      /\ index' = [index EXCEPT ![b] = work[b]]
  BY DEF Stage, Addresses, Add
<1>2. /\ address' \in Addressing /\ address'.pc = "commit"
      /\ address'.id = b /\ address'.orig = address.orig
  BY <1>1, AtSays
<1>3. /\ b \in Ids /\ address.orig \in {"open", "bare"} /\ head = b /\ tree[b] = tree[Main]
      /\ Seeds(work, b)
  BY <1>1, Parts DEF Underway
<1>4. /\ index' \in Trees /\ index'[b] = work[b] /\ \A g \in Ids \ {b} : index'[g] = index[g]
  BY <1>1, <1>3, Parts DEF GitType, Trees
<1>5. Delivered'
  BY <1>1, Parts, DeliveredKeeps DEF Delivered
<1>6. IndexOK'
  BY <1>1, <1>2, <1>4, Parts DEF IndexOK
<1>7. Underway'
  BY <1>1, <1>2, <1>3, <1>4 DEF Underway, Seeds
<1>. QED BY <1>1, <1>2, <1>4, <1>5, <1>6, <1>7, Parts DEF Seeding, SeedInv, GitType

LEMMA CommitKeeps ==
  ASSUME IInv, raced \subseteq raced', CommitSeed
  PROVE  Seeding'
<1>. DEFINE b == address.id
<1>1. /\ UNCHANGED <<work, index, head, remote, prs, staged>> /\ At("push") /\ address.pc = "commit"
      /\ tree' = [tree EXCEPT ![head] = index]
  BY DEF CommitSeed, Addresses, Commit
<1>2. /\ address' \in Addressing /\ address'.pc = "push"
      /\ address'.id = b /\ address'.orig = address.orig
  BY <1>1, AtSays
<1>3. /\ b \in Ids /\ address.orig \in {"open", "bare"} /\ head = b /\ tree[b] = tree[Main]
      /\ Seeds(index, b) /\ b # Main /\ head \in DOMAIN tree
  BY <1>1, Parts DEF Underway, GitType
<1>4. /\ DOMAIN tree' = DOMAIN tree /\ tree'[b] = index /\ tree'[Main] = tree[Main]
      /\ \A c \in DOMAIN tree \ {b} : tree'[c] = tree[c]
  BY <1>1, <1>3
<1>5. Delivered'
  BY <1>1, <1>4, Parts, DeliveredKeeps DEF Delivered
<1>6. IndexOK'
  BY <1>1, <1>3, <1>4 DEF IndexOK
<1>7. \A g \in Ids : index[g] = tree[Main][g] \/ g \in staged \cup {b}
  BY <1>3, Parts DEF IndexOK, Own
<1>8. (\A g \in Ids : index[g] = tree'[Main][g] \/ g \in staged' \cup {b})
      /\ (index[b] \in Seeded \/ b \in raced')
  BY <1>1, <1>3, <1>4, <1>7 DEF Seeds
<1>9. Underway'
  BY <1>1, <1>2, <1>3, <1>4, <1>8 DEF Underway, Own, Seeds
<1>10. GitType'
  BY <1>1, <1>3, <1>4, Parts DEF GitType
<1>. QED BY <1>1, <1>2, <1>5, <1>6, <1>9, <1>10, Parts DEF Seeding, SeedInv

LEMMA PushKeeps ==
  ASSUME IInv, raced \subseteq raced', PushSeed
  PROVE  Seeding'
<1>. DEFINE b == address.id
<1>1. /\ UNCHANGED <<work, index, head, tree, prs, staged>> /\ At("pr") /\ address.pc = "push"
      /\ b \notin DOMAIN remote /\ remote' = With(remote, b, tree[b])
  BY DEF PushSeed, Addresses, CanPush, Push
<1>2. /\ address' \in Addressing /\ address'.pc = "pr"
      /\ address'.id = b /\ address'.orig = address.orig
  BY <1>1, AtSays
<1>3. /\ b \in Ids /\ address.orig \in {"open", "bare"} /\ head = b /\ head \in DOMAIN tree
      /\ Own(tree[b], b) /\ Seeds(tree[b], b)
  BY <1>1, Parts DEF Underway, GitType
<1>4. /\ DOMAIN remote' = DOMAIN remote \cup {b} /\ remote'[b] = tree[b]
      /\ \A c \in DOMAIN remote : remote'[c] = remote[c]
  <2>. DEFINE grown == With(remote, b, tree[b])
  <2>1. DOMAIN grown = DOMAIN remote \cup {b} /\ grown[b] = tree[b] /\ \A c \in DOMAIN remote : grown[c] = remote[c]
    BY <1>1 DEF With
  <2>. HIDE DEF grown
  <2>. QED BY <1>1, <2>1 DEF grown
<1>5. Delivered'
  BY <1>1, <1>4, Parts, DeliveredKeeps DEF Delivered
<1>6. IndexOK'
  BY <1>1, <1>2, Parts DEF IndexOK
<1>7. Underway'
  BY <1>1, <1>2, <1>3, <1>4 DEF Underway, Own, Seeds
<1>8. GitType'
  BY <1>1, <1>3, <1>4, Parts DEF GitType
<1>. QED BY <1>1, <1>2, <1>5, <1>6, <1>7, <1>8, Parts DEF Seeding, SeedInv

LEMMA ResetKeeps ==
  ASSUME IInv, raced \subseteq raced', Reset
  PROVE  Seeding'
<1>. DEFINE b == address.id
<1>1. /\ UNCHANGED <<head, remote, prs, staged>> /\ At("restore") /\ address.pc = "reset"
      /\ work'  = [f \in Ids |-> IF index[f] = Absent /\ tree[Main][f] = Absent
                                 THEN work[f] ELSE tree[Main][f]]
      /\ index' = tree[Main] /\ tree' = [tree EXCEPT ![head] = tree[Main]]
  BY DEF Reset, Addresses, ResetHard
<1>2. /\ address' \in Addressing /\ address'.pc = "restore"
      /\ address'.id = b /\ address'.orig = address.orig
  BY <1>1, AtSays
<1>3. /\ b \in Ids /\ address.orig \in {"open", "bare"} /\ head = b /\ head \in DOMAIN tree
  BY <1>1, Parts DEF Underway, GitType
<1>4. /\ DOMAIN tree' = DOMAIN tree /\ tree'[Main] = tree[Main] /\ tree'[head] = tree[Main]
      /\ \A c \in DOMAIN tree \ {b} : tree'[c] = tree[c]
  BY <1>1, <1>3, Parts
<1>5. work' \in Trees /\ index' \in Trees
  BY <1>1, Parts DEF GitType, Trees
<1>6. Delivered'
  BY <1>1, <1>4, Parts, DeliveredKeeps DEF Delivered
<1>7. IndexOK'
  BY <1>1, <1>4 DEF IndexOK
<1>8. Underway'
  BY <1>1, <1>2, <1>3 DEF Underway
<1>9. GitType'
  BY <1>1, <1>3, <1>4, <1>5, Parts DEF GitType
<1>. QED BY <1>1, <1>2, <1>6, <1>7, <1>8, <1>9, Parts DEF Seeding, SeedInv

LEMMA BackToMainKeeps ==
  ASSUME IInv, raced \subseteq raced', BackToMain
  PROVE  Seeding'
<1>1. /\ UNCHANGED <<tree, remote, prs, staged>> /\ At("drop") /\ address.pc = "back"
      /\ Checkout(tree[Main]) /\ head' = Main
  BY DEF BackToMain, Addresses, SwitchTo
<1>2. /\ address' \in Addressing /\ address'.pc = "drop"
      /\ address'.id = address.id /\ address'.orig = address.orig
  BY <1>1, AtSays
<1>3. address.id \in Ids /\ address.orig \in {"open", "bare"}
  BY <1>1, Parts DEF Underway
<1>4. /\ work' \in Trees /\ index' \in Trees
      /\ \A g \in Ids : index'[g] = tree[Main][g] \/ g \in staged
  BY <1>1, Parts, CheckoutSays
<1>5. Delivered'
  BY <1>1, Parts, DeliveredKeeps DEF Delivered
<1>6. IndexOK'
  BY <1>1, <1>4 DEF IndexOK
<1>7. Underway'
  BY <1>1, <1>2, <1>3 DEF Underway
<1>8. GitType'
  BY <1>1, <1>4, Parts DEF GitType
<1>. QED BY <1>1, <1>2, <1>5, <1>6, <1>7, <1>8, Parts DEF Seeding, SeedInv

LEMMA DropBranchKeeps ==
  ASSUME IInv, raced \subseteq raced', DropBranch
  PROVE  Seeding'
<1>1. /\ UNCHANGED <<work, index, head, remote, prs, staged>> /\ Exits /\ address.pc = "drop"
      /\ tree' = Without(tree, address.id)
  BY DEF DropBranch, Addresses, Delete
<1>2. address' \in Addressing /\ address'.pc = "idle"
  BY <1>1, ExitsSays
<1>3. address.id \in Ids /\ address.id # Main /\ head = Main /\ Main \in DOMAIN tree
  BY <1>1, Parts DEF Underway, GitType
<1>4. /\ DOMAIN tree' = DOMAIN tree \ {address.id} /\ tree'[Main] = tree[Main]
      /\ \A c \in DOMAIN tree' : tree'[c] = tree[c]
  BY <1>1, <1>3, WithoutSays
<1>5. Delivered'
  BY <1>1, <1>4, Parts, DeliveredKeeps DEF Delivered
<1>6. IndexOK'
  BY <1>1, <1>2, <1>3, <1>4, Parts DEF IndexOK
<1>7. Underway'
  BY <1>2 DEF Underway
<1>8. GitType'
  BY <1>1, <1>3, <1>4, Parts DEF GitType
<1>. QED BY <1>1, <1>2, <1>5, <1>6, <1>7, <1>8, Parts DEF Seeding, SeedInv
-----------------------------------------------------------------------------
(* The human, and what a write of the sweep or of the human does to a       *)
(* suggestion the address script holds.                                     *)

LEMMA GoToMainKeeps ==
  ASSUME IInv, raced \subseteq raced', GoToMain
  PROVE  Seeding'
<1>1. /\ UNCHANGED <<tree, remote, prs, staged, address>> /\ address.pc = "idle"
      /\ Checkout(tree[Main]) /\ head' = Main
  BY DEF GoToMain, Triages, SwitchTo
<1>2. /\ work' \in Trees /\ index' \in Trees
      /\ \A g \in Ids : index'[g] = tree[Main][g] \/ g \in staged
  BY <1>1, Parts, CheckoutSays
<1>3. Delivered'
  BY <1>1, Parts, DeliveredKeeps DEF Delivered
<1>4. IndexOK'
  BY <1>1, <1>2 DEF IndexOK
<1>5. Underway'
  BY <1>1 DEF Underway
<1>6. GitType'
  BY <1>1, <1>2, Parts DEF GitType
<1>. QED BY <1>1, <1>3, <1>4, <1>5, <1>6, Parts DEF Seeding, SeedInv

LEMMA DiscardKeeps ==
  ASSUME IInv, raced \subseteq raced', Discard
  PROVE  Seeding'
<1>1. /\ UNCHANGED <<prs, staged, address>> /\ address.pc = "idle" /\ head # Main
      /\ head \in DOMAIN remote \ prs /\ Checkout(tree[Main]) /\ head' = Main
      /\ tree' = Without(tree, head) /\ remote' = Without(remote, head)
  BY DEF Discard, Triages
<1>2. /\ work' \in Trees /\ index' \in Trees
      /\ \A g \in Ids : index'[g] = tree[Main][g] \/ g \in staged
  BY <1>1, Parts, CheckoutSays
<1>3. Main \in DOMAIN tree
  BY Parts DEF GitType
<1>4. /\ DOMAIN tree' = DOMAIN tree \ {head} /\ tree'[Main] = tree[Main]
      /\ \A c \in DOMAIN tree' : tree'[c] = tree[c]
      /\ DOMAIN remote' = DOMAIN remote \ {head} /\ \A c \in DOMAIN remote' : remote'[c] = remote[c]
  BY <1>1, <1>3, WithoutSays
<1>5. \A f \in prs : f \in DOMAIN remote' /\ remote'[f] = remote[f]
  BY <1>1, <1>4, Parts DEF Delivered
<1>6. Delivered'
  BY <1>1, <1>4, <1>5, Parts, DeliveredKeeps
<1>7. IndexOK'
  BY <1>1, <1>2, <1>4 DEF IndexOK
<1>8. Underway'
  BY <1>1 DEF Underway
<1>9. GitType'
  BY <1>1, <1>2, <1>3, <1>4, Parts DEF GitType
<1>. QED BY <1>1, <1>6, <1>7, <1>8, <1>9, Parts DEF Seeding, SeedInv

LEMMA WorkKeeps ==
  ASSUME IInv, raced \subseteq raced', UNCHANGED <<index, head, tree, remote, prs, staged, address>>,
         work' \in Trees, \A f \in HeldByAddress : work'[f] = work[f] \/ f \in raced'
  PROVE  Seeding'
<1>1. Delivered'
  BY Parts, DeliveredKeeps DEF Delivered
<1>2. IndexOK'
  BY Parts DEF IndexOK
<1>3. Underway'
  BY Parts DEF Underway, Own, Seeds, HeldByAddress
<1>. QED BY <1>1, <1>2, <1>3, Parts DEF Seeding, SeedInv, GitType
-----------------------------------------------------------------------------
(* All together. *)

LEMMA HeldTypes == IInv => HeldBySweep \in SUBSET Ids /\ HeldByAddress \in SUBSET Ids
<1>1. IInv => HeldBySweep \in SUBSET Ids
  BY ConstantTypes DEF IInv, SweepOK, HeldBySweep
<1>2. IInv => HeldByAddress \in SUBSET Ids
  BY Parts DEF Underway, HeldByAddress
<1>. QED BY <1>1, <1>2

LEMMA RacesSays ==
  ASSUME IInv, NEW held \in SUBSET Ids, Races(held)
  PROVE  /\ raced \subseteq raced' /\ raced' \in SUBSET Ids
         /\ \A f \in held : work'[f] = work[f] \/ f \in raced'
BY Parts DEF Races

LEMMA SweepWaits ==
  ASSUME IInv, sweep' = sweep, raced \subseteq raced',
         \A f \in HeldBySweep : work'[f] = work[f] \/ f \in raced'
  PROVE  sweep' \in Sweeping /\ SweepOK(sweep') /\ FreeToWrite'
<1>1. sweep \in Sweeping /\ SweepOK(sweep) /\ FreeToWrite
  BY DEF IInv, TypeInv
<1>. QED BY <1>1 DEF FreeToWrite, HeldBySweep

LEMMA WriteSays ==
  ASSUME IInv, Write
  PROVE  /\ Id(sweep.cur) \in Ids /\ sweep' = Counted(1) /\ sweep.pc = "write"
         /\ work' \in Trees /\ \A f \in Ids \ {Id(sweep.cur)} : work'[f] = work[f]
         /\ UNCHANGED <<index, head, tree, remote, prs, staged, address, edits, runs>>
<1>1. sweep.pc = "write" /\ sweep.cur \in Suggestions
  BY DEF Write, Sweeps, IInv, SweepOK
<1>2. Id(sweep.cur) \in Ids
  BY <1>1, ConstantTypes
<1>. QED BY <1>1, <1>2, Parts DEF Write, Sweeps, GitType, Trees, Statuses

LEMMA SweepKeeps ==
  ASSUME IInv, Sweep, Races(HeldByAddress)
  PROVE  IInv'
<1>1. /\ raced \subseteq raced' /\ raced' \in SUBSET Ids
      /\ \A f \in HeldByAddress : work'[f] = work[f] \/ f \in raced'
  BY HeldTypes, RacesSays
<1>2. /\ work' \in Trees /\ UNCHANGED <<index, head, tree, remote, prs, staged, address, edits>>
      /\ Write \/ work' = work
  <2>1. CASE Write
    BY <2>1, WriteSays
  <2>2. CASE ~Write
    BY <2>2, Parts DEF Sweep, StartSweep, PhaseEnds, PhaseFails, Recheck, SkipDuplicate, Take, Looks, Sweeps,
       gitVars, GitType
  <2>. QED BY <2>1, <2>2
<1>3. Seeding'
  BY <1>1, <1>2, WorkKeeps
<1>4. sweep' \in Sweeping /\ SweepOK(sweep') /\ FreeToWrite'
  <2>1. CASE Recheck
    <3>1. work' = work
      BY <2>1 DEF Recheck, gitVars
    <3>. QED BY <2>1, <3>1, RecheckKeeps DEF FreeToWrite
  <2>2. CASE Write
    BY <2>2, WriteSays, CountedKeeps DEF FreeToWrite
  <2>3. CASE ~Recheck /\ ~Write
    BY <2>3, StartSweepKeeps, PhaseEndsKeeps, SkipDuplicateKeeps, TakeKeeps DEF Sweep, FreeToWrite
  <2>. QED BY <2>1, <2>2, <2>3
<1>5. runs' \in 0..MaxRuns
  <2>1. runs \in 0..MaxRuns
    BY DEF IInv, TypeInv
  <2>2. CASE StartSweep
    BY <2>1, <2>2, ConstantTypes DEF StartSweep
  <2>3. CASE ~StartSweep
    <3>1. runs' = runs
      BY <2>3, WriteSays DEF Sweep, PhaseEnds, PhaseFails, Recheck, SkipDuplicate, Take
    <3>. QED BY <2>1, <3>1
  <2>. QED BY <2>2, <2>3
<1>. QED BY <1>1, <1>2, <1>3, <1>4, <1>5 DEF IInv, TypeInv, Seeding

LEMMA AddressKeeps ==
  ASSUME IInv, Address, Races(HeldBySweep)
  PROVE  IInv'
<1>1. /\ raced \subseteq raced' /\ raced' \in SUBSET Ids
      /\ \A f \in HeldBySweep : work'[f] = work[f] \/ f \in raced'
  BY HeldTypes, RacesSays
<1>2. Seeding'
  BY <1>1, StartAddressKeeps, QuietExitKeeps, OpenPrKeeps, SeedFailsKeeps, PushFailsKeeps, MarkKeeps,
     RestoreKeeps, MakeBranchKeeps, StageKeeps, CommitKeeps, PushKeeps, ResetKeeps, BackToMainKeeps,
     DropBranchKeeps DEF Address
<1>3. UNCHANGED <<sweep, edits>>
  BY DEF Address, StartAddress, MakeBranch, NoNewBranch, Mark, Stage, CommitSeed, SeedFails, PushSeed,
     PushFails, OpenPr, BodyFails, PrFails, Reset, Restore, BackToMain, DropBranch, Addresses
<1>4. runs' \in 0..MaxRuns
  <2>1. runs \in 0..MaxRuns
    BY DEF IInv, TypeInv
  <2>2. ASSUME NEW f \in Ids, StartAddress(f) PROVE runs' \in 0..MaxRuns
    BY <2>1, <2>2, ConstantTypes DEF StartAddress
  <2>3. CASE ~\E f \in Ids : StartAddress(f)
    <3>1. runs' = runs
      BY <2>3 DEF Address, MakeBranch, NoNewBranch, Mark, Stage, CommitSeed, SeedFails, PushSeed,
         PushFails, OpenPr, BodyFails, PrFails, Reset, Restore, BackToMain, DropBranch
    <3>. QED BY <2>1, <3>1
  <2>. QED BY <2>2, <2>3
<1>5. sweep' \in Sweeping /\ SweepOK(sweep') /\ FreeToWrite'
  BY <1>1, <1>3, SweepWaits
<1>. QED BY <1>1, <1>2, <1>3, <1>4, <1>5 DEF IInv, TypeInv, Seeding

LEMMA TriageKeeps ==
  ASSUME IInv, Triage, Races(HeldBySweep \cup HeldByAddress)
  PROVE  IInv'
<1>1. /\ raced \subseteq raced' /\ raced' \in SUBSET Ids
      /\ \A f \in HeldBySweep \cup HeldByAddress : work'[f] = work[f] \/ f \in raced'
  BY HeldTypes, RacesSays
<1>2. ASSUME NEW f \in Ids, Edit(f) PROVE Seeding' /\ edits' \in 0..MaxEdits
  <2>1. work' \in Trees /\ UNCHANGED <<index, head, tree, remote, prs, staged, address>>
    BY <1>2, Parts DEF Edit, Triages, GitType, Trees
  <2>2. edits' \in 0..MaxEdits
    BY <1>2, ConstantTypes DEF Edit, IInv, TypeInv
  <2>. QED BY <1>1, <2>1, <2>2, WorkKeeps
<1>3. Seeding' /\ edits' \in 0..MaxEdits
  <2>1. CASE GoToMain \/ Discard
    <3>1. edits' = edits
      BY <2>1 DEF GoToMain, Discard
    <3>. QED BY <1>1, <2>1, <3>1, GoToMainKeeps, DiscardKeeps DEF IInv, TypeInv
  <2>. QED BY <1>2, <2>1 DEF Triage
<1>4. UNCHANGED <<sweep, runs>>
  BY DEF Triage, GoToMain, Discard, Edit, Triages
<1>5. sweep' \in Sweeping /\ SweepOK(sweep') /\ FreeToWrite'
  BY <1>1, <1>4, SweepWaits
<1>. QED BY <1>1, <1>3, <1>4, <1>5 DEF IInv, TypeInv, Seeding

LEMMA ImprovementsStart == Init => IInv
<1>. SUFFICES ASSUME Init PROVE IInv
  OBVIOUS
<1>. DEFINE files == [f \in Ids |-> IF f \in Published THEN "open" ELSE Absent]
<1>1. /\ work = files /\ index = files /\ head = Main /\ tree = [b \in {Main} |-> files] /\ remote = <<>>
      /\ runs = 0 /\ prs = {} /\ edits = 0 /\ raced = {} /\ staged = {}
      /\ address = [pc |-> "idle", id |-> NoId, orig |-> Absent]
      /\ sweep = [pc |-> "done", phase |-> "skill", found |-> [p \in Phases |-> {}], todo |-> {},
                  cur |-> NoId, handled |-> {}, count |-> [p \in Phases |-> 0], wrote |-> 0,
                  failed |-> {}, code |-> 0]
  BY DEF Init, GitInit
<1>2. files \in Trees
  BY DEF Trees, Statuses
<1>. HIDE DEF files
<1>3. GitType
  BY <1>1, <1>2 DEF GitType
<1>4. sweep \in Sweeping /\ address \in Addressing
  BY <1>1 DEF Sweeping, Addressing, Phases
<1>5. SweepOK(sweep) /\ FreeToWrite
  BY <1>1, ConstantTypes DEF SweepOK, FreeToWrite, Total, Settled, Phases
<1>6. SeedInv
  BY <1>1 DEF SeedInv, Delivered, IndexOK, Underway
<1>7. runs \in 0..MaxRuns /\ edits \in 0..MaxEdits
  BY <1>1, ConstantTypes
<1>. QED BY <1>1, <1>3, <1>4, <1>5, <1>6, <1>7 DEF IInv, TypeInv

LEMMA ImprovementsStutter == ASSUME IInv, UNCHANGED vars PROVE IInv'
<1>1. /\ UNCHANGED <<work, index, head, tree, remote, prs, staged, address>> /\ sweep' = sweep
      /\ raced' = raced /\ runs' = runs /\ edits' = edits
  BY DEF vars, gitVars, scriptVars
<1>2. Seeding' /\ sweep' \in Sweeping /\ SweepOK(sweep') /\ FreeToWrite'
  BY <1>1, WorkKeeps, SweepWaits, Parts DEF GitType
<1>. QED BY <1>1, <1>2 DEF IInv, TypeInv, Seeding

LEMMA ImprovementsKeep == IInv /\ [Next]_vars => IInv'
BY SweepKeeps, AddressKeeps, TriageKeeps, ImprovementsStutter DEF Next

THEOREM ImprovementsInvariant == Spec => []IInv
BY ImprovementsStart, ImprovementsKeep, PTL DEF Spec
-----------------------------------------------------------------------------
(* The scripts' variables and the files stay in their types: main is never  *)
(* deleted, the worktree is on a branch that exists.                        *)
THEOREM ImprovementsTypes == Spec => []TypeOK
<1>1. IInv => TypeOK
  BY DEF IInv, TypeInv, TypeOK, Sweeping, Addressing
<1>. QED BY <1>1, ImprovementsInvariant, PTL

(* --max of sweep-improvements.mjs holds for both phases together, though   *)
(* the files change under the sweep and a phase may fail half way.          *)
THEOREM SweepIsCapped == Spec => []RunCap
<1>1. IInv => RunCap
  <2>1. IInv => /\ sweep.wrote \in Nat /\ Total(sweep) \in Nat /\ Max \in Nat
               /\ sweep.wrote <= Total(sweep) /\ Total(sweep) <= Max
    BY ConstantTypes DEF IInv, TypeInv, Sweeping, SweepOK, Total, Phases
  <2>. QED BY <2>1 DEF RunCap
<1>. QED BY <1>1, ImprovementsInvariant, PTL

(* Exit code 0 of sweep-improvements.mjs, below the cap, means that all     *)
(* that was detected has been dealt with; a phase that fails does not stop  *)
(* the other.                                                               *)
THEOREM QuietSweepsAreDone == Spec => []QuietMeansDone
<1>1. IInv => QuietMeansDone
  <2>1. CapReached <=> Total(sweep) >= Max
    BY DEF CapReached, Total
  <2>. QED BY <2>1 DEF IInv, SweepOK, Settled, QuietMeansDone
<1>. QED BY <1>1, ImprovementsInvariant, PTL

(* writeSuggestion (writer.ts) writes over a suggestion only if it was      *)
(* dismissed, or was changed after the look at it.                          *)
THEOREM SweepsClobberNothing == Spec => NoClobber
<1>. DEFINE Spares == \A f \in Ids : sweep' # sweep /\ work'[f] # work[f] /\ f \notin raced =>
                                     work[f] \in {Absent, "dismissed"}
<1>1. ASSUME IInv, Write PROVE Spares
  <2>1. Id(sweep.cur) \in raced \/ work[Id(sweep.cur)] \in {Absent, "dismissed"}
    BY <1>1, WriteSays DEF IInv, FreeToWrite, Blocks
  <2>. QED BY <1>1, <2>1, WriteSays
<1>2. ASSUME Sweep, ~Write PROVE work' = work
  BY <1>2 DEF Sweep, StartSweep, PhaseEnds, PhaseFails, Recheck, SkipDuplicate, Take, gitVars
<1>3. ASSUME Address \/ Triage \/ UNCHANGED vars PROVE sweep' = sweep
  BY <1>3 DEF Address, StartAddress, MakeBranch, NoNewBranch, Mark, Stage, CommitSeed, SeedFails, PushSeed,
     PushFails, OpenPr, BodyFails, PrFails, Reset, Restore, BackToMain, DropBranch, Addresses,
     Triage, GoToMain, Discard, Edit, Triages, vars, scriptVars
<1>4. IInv /\ [Next]_vars => Spares
  BY <1>1, <1>2, <1>3 DEF Next
<1>. QED BY <1>4, ImprovementsInvariant, PTL DEF Spec, NoClobber

(* The branch address-improvement.mjs opens a PR for has its suggestion     *)
(* marked, unless the file was written under the script.                    *)
THEOREM PrsAreSeeded == Spec => []PrIsSeeded
<1>1. IInv => PrIsSeeded
  BY Parts DEF Delivered, Seeds, Seeded, PrIsSeeded
<1>. QED BY <1>1, ImprovementsInvariant, PTL

(* It has no other suggestion's changes, whatever branches earlier runs of  *)
(* the script have left behind, but for what a failed commit left staged.   *)
THEOREM PrsCarryTheirOwn == Spec => []PrCarriesOwn
<1>1. IInv => PrCarriesOwn
  BY Parts DEF Delivered, Own, PrCarriesOwn
<1>. QED BY <1>1, ImprovementsInvariant, PTL
=============================================================================
