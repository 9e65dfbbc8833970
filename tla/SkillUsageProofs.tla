-------------------------- MODULE SkillUsageProofs --------------------------
(***************************************************************************)
(* What the sweep makes of a transcript, however long it is, for any       *)
(* lines, windows and verdict rules.                                       *)
(***************************************************************************)
EXTENDS SkillUsage, SequenceTheorems, FiniteSetTheorems, WellFoundedInduction, TLAPS
-----------------------------------------------------------------------------
(* Induction and recursion.  No prover takes an induction theorem with a    *)
(* predicate for its parameter; with a set for it, each does.               *)

LEMMA SetInduction ==
  ASSUME NEW S, 0 \in S, \A n \in Nat : n \in S => n + 1 \in S
  PROVE  Nat \subseteq S
<1>. DEFINE R == OpToRel(<, Nat)
<1>1. IsWellFoundedOn(R, Nat)
  BY NatLessThanWellFounded
<1>2. \A x, y \in Nat : x < y => <<x, y>> \in R
  BY DEF OpToRel
<1>. HIDE DEF R
<1>3. SUFFICES ASSUME Nat \ S # {} PROVE FALSE
  OBVIOUS
<1>4. PICK x \in Nat \ S : \A y \in Nat \ S : ~(<<y, x>> \in R)
  BY <1>1, <1>3, WFMin
<1>5. x - 1 \in Nat /\ x - 1 < x /\ x = (x - 1) + 1
  BY <1>4
<1>6. x - 1 \in S
  BY <1>2, <1>4, <1>5
<1>. QED BY <1>4, <1>5, <1>6

(* The same from lo to hi. *)
LEMMA LoopInduction ==
  ASSUME NEW lo \in Nat, NEW hi \in Nat, NEW S, lo \in S,
         \A i \in lo..hi : i \in S /\ i < hi => i + 1 \in S
  PROVE  lo..hi \subseteq S
<1>1. PICK T : T = {n \in Nat : lo + n <= hi => lo + n \in S}
  OBVIOUS
<1>2. 0 \in T
  BY <1>1
<1>3. \A n \in Nat : n \in T => n + 1 \in T
  <2>. SUFFICES ASSUME NEW n \in Nat, n \in T, lo + (n + 1) <= hi PROVE lo + (n + 1) \in S
    BY <1>1
  <2>1. lo + n \in lo..hi /\ lo + n < hi /\ lo + (n + 1) = (lo + n) + 1
    OBVIOUS
  <2>. QED BY <1>1, <2>1
<1>4. Nat \subseteq T
  BY <1>2, <1>3, SetInduction
<1>5. ASSUME NEW i \in lo..hi PROVE i \in S
  <2>1. i - lo \in Nat /\ lo + (i - lo) = i
    OBVIOUS
  <2>2. i - lo \in T
    BY <1>4, <2>1
  <2>. QED BY <1>1, <2>1, <2>2
<1>. QED BY <1>5

(* A loop from lo to hi, whose i-th step is the function G[i]: what it has  *)
(* come to after each.                                                      *)
Runs(f, lo, hi, x0, G) ==
  f[lo] = x0 /\ \A i \in lo..hi : i # lo => f[i] = G[i][f[i - 1]]

LEMMA LoopRuns ==
  ASSUME NEW lo \in Nat, NEW hi \in Nat, lo <= hi, NEW X, NEW x0 \in X, NEW G \in [lo..hi -> [X -> X]]
  PROVE  \E f \in [lo..hi -> X] : Runs(f, lo, hi, x0, G)
<1>1. PICK S : S = {n \in lo..hi : \E f \in [lo..n -> X] : Runs(f, lo, n, x0, G)}
  OBVIOUS
<1>2. lo \in S
  <2>1. PICK f \in [lo..lo -> X] : f[lo] = x0
    <3>1. [i \in lo..lo |-> x0] \in [lo..lo -> X] /\ [i \in lo..lo |-> x0][lo] = x0
      OBVIOUS
    <3>. QED BY <3>1
  <2>2. Runs(f, lo, lo, x0, G)
    BY <2>1 DEF Runs
  <2>. QED BY <1>1, <2>2
<1>3. ASSUME NEW n \in lo..hi, n \in S, n < hi PROVE n + 1 \in S
  <2>1. PICK f \in [lo..n -> X] :
          f[lo] = x0 /\ \A i \in lo..n : i # lo => f[i] = G[i][f[i - 1]]
    BY <1>1, <1>3 DEF Runs
  <2>2. n + 1 \in lo..hi /\ n \in lo..n /\ lo # n + 1
    BY <1>3
  <2>3. G[n + 1][f[n]] \in X
    BY <2>2
  <2>4. PICK g : g = [i \in lo..(n + 1) |-> IF i = n + 1 THEN G[n + 1][f[n]] ELSE f[i]]
    OBVIOUS
  <2>5. \A i \in lo..(n + 1) : i = n + 1 \/ i \in lo..n
    BY <1>3
  <2>6. g \in [lo..(n + 1) -> X]
    BY <2>3, <2>4, <2>5
  <2>7. g[lo] = x0
    BY <2>1, <2>2, <2>4
  <2>8. ASSUME NEW i \in lo..(n + 1), i # lo PROVE g[i] = G[i][g[i - 1]]
    <3>1. i - 1 \in lo..(n + 1) /\ i - 1 # n + 1 /\ i - 1 \in lo..n
      BY <1>3, <2>8
    <3>2. g[i - 1] = f[i - 1]
      BY <2>4, <3>1
    <3>3. CASE i = n + 1
      <4>1. g[i] = G[n + 1][f[n]] /\ i - 1 = n
        BY <1>3, <2>4, <3>3
      <4>. QED BY <3>2, <3>3, <4>1
    <3>4. CASE i \in lo..n
      <4>1. i # n + 1 /\ g[i] = f[i]
        BY <1>3, <2>4, <3>4
      <4>2. f[i] = G[i][f[i - 1]]
        BY <2>1, <2>8, <3>4
      <4>. QED BY <3>2, <4>1, <4>2
    <3>. QED BY <2>5, <3>3, <3>4
  <2>9. Runs(g, lo, n + 1, x0, G)
    BY <2>7, <2>8 DEF Runs
  <2>. QED BY <1>1, <2>2, <2>6, <2>9
<1>4. lo..hi \subseteq S
  BY <1>2, <1>3, LoopInduction
<1>. QED BY <1>1, <1>4
-----------------------------------------------------------------------------
(* The walk of classifyInvocation.                                          *)

Acc == [assistant : Nat, user : Nat, benign : BOOLEAN, outcome : {"open", "abandoned"}]

LEMMA WalkType ==
  ASSUME NEW acc \in Acc, NEW ev, NEW session, NEW name
  PROVE  Walk(acc, ev, session, name) \in Acc
<1>1. acc.assistant + 1 \in Nat /\ acc.user + 1 \in Nat /\ acc.benign \in BOOLEAN
      /\ acc.outcome \in {"open", "abandoned"}
  BY DEF Acc
<1>2. OnAssistant(acc, ev, name) \in Acc
  BY <1>1 DEF OnAssistant, Acc
<1>3. OnUser(acc, ev) \in Acc
  BY <1>1 DEF OnUser, Acc
<1>. QED BY <1>2, <1>3 DEF Walk

(* The turns behind an invocation, one at a time. *)
LEMMA WalkedSteps ==
  ASSUME NEW evs, NEW inv, Len(evs) \in Nat, inv[1] \in 1..Len(evs)
  PROVE  /\ Walked(evs, inv) \in [inv[1]..Len(evs) -> Acc]
         /\ Walked(evs, inv)[inv[1]] = Start
         /\ \A i \in inv[1]..Len(evs) : i # inv[1] =>
              Walked(evs, inv)[i] = Walk(Walked(evs, inv)[i - 1], evs[i], evs[inv[1]].session, inv[2])
<1>1. PICK lo \in Nat, hi \in Nat : lo = inv[1] /\ hi = Len(evs) /\ lo <= hi
  OBVIOUS
<1>2. PICK G : G = [i \in lo..hi |-> [acc \in Acc |-> Walk(acc, evs[i], evs[lo].session, inv[2])]]
  OBVIOUS
<1>3. G \in [lo..hi -> [Acc -> Acc]]
  BY <1>2, WalkType
<1>4. Start \in Acc
  BY DEF Start, Acc
<1>5. PICK f \in [lo..hi -> Acc] : Runs(f, lo, hi, Start, G)
  BY <1>1, <1>3, <1>4, LoopRuns
<1>6. \A i \in lo..hi : i # lo => G[i][f[i - 1]] = Walk(f[i - 1], evs[i], evs[lo].session, inv[2])
  <2>. SUFFICES ASSUME NEW i \in lo..hi, i # lo
                PROVE  G[i][f[i - 1]] = Walk(f[i - 1], evs[i], evs[lo].session, inv[2])
    OBVIOUS
  <2>1. i - 1 \in lo..hi /\ f[i - 1] \in Acc
    OBVIOUS
  <2>. QED BY <1>2, <2>1
<1>7. f = [i \in lo..hi |-> IF i = lo THEN Start ELSE Walk(f[i - 1], evs[i], evs[lo].session, inv[2])]
  BY <1>5, <1>6 DEF Runs
<1>8. PICK w : w = Walked(evs, inv)
  OBVIOUS
<1>9. w = [i \in lo..hi |-> IF i = lo THEN Start ELSE Walk(w[i - 1], evs[i], evs[lo].session, inv[2])]
  <2>1. f = [i \in inv[1]..Len(evs) |-> IF i = inv[1] THEN Start
               ELSE Walk(f[i - 1], evs[i], evs[inv[1]].session, inv[2])]
    BY <1>1, <1>7
  <2>2. w = [i \in inv[1]..Len(evs) |-> IF i = inv[1] THEN Start
               ELSE Walk(w[i - 1], evs[i], evs[inv[1]].session, inv[2])]
    BY <1>8, <2>1 DEF Walked
  <2>. QED BY <1>1, <2>2
<1>10. w[lo] = Start /\ \A i \in lo..hi : i # lo => w[i] = Walk(w[i - 1], evs[i], evs[lo].session, inv[2])
  BY <1>1, <1>9
<1>11. lo..hi \subseteq {i \in lo..hi : w[i] \in Acc}
  <2>1. PICK S : S = {i \in lo..hi : w[i] \in Acc}
    OBVIOUS
  <2>2. lo \in S
    BY <1>1, <1>4, <1>10, <2>1
  <2>3. ASSUME NEW i \in lo..hi, i \in S, i < hi PROVE i + 1 \in S
    <3>1. i + 1 \in lo..hi /\ i + 1 # lo /\ (i + 1) - 1 = i
      BY <2>3
    <3>2. w[i + 1] = Walk(w[i], evs[i + 1], evs[lo].session, inv[2]) /\ w[i] \in Acc
      BY <1>10, <2>1, <2>3, <3>1
    <3>. QED BY <2>1, <3>1, <3>2, WalkType
  <2>4. lo..hi \subseteq S
    BY <2>2, <2>3, LoopInduction
  <2>. QED BY <2>1, <2>4
<1>12. w \in [lo..hi -> Acc]
  BY <1>9, <1>11
<1>. QED BY <1>1, <1>8, <1>10, <1>12
-----------------------------------------------------------------------------
(* Turns up to the i-th event, and the windows they are counted by.         *)
Upto(T, i) == {k \in T : k <= i}

LEMMA UptoNext ==
  ASSUME NEW T \in SUBSET (Nat \ {0}), NEW i \in Nat
  PROVE  /\ IsFiniteSet(Upto(T, i)) /\ Cardinality(Upto(T, i)) \in Nat
         /\ Upto(T, i + 1) = IF i + 1 \in T THEN Upto(T, i) \cup {i + 1} ELSE Upto(T, i)
         /\ Cardinality(Upto(T, i + 1)) = Cardinality(Upto(T, i)) + (IF i + 1 \in T THEN 1 ELSE 0)
         /\ Upto(T, 0) = {}
<1>1. PICK U : U = Upto(T, i)
  OBVIOUS
<1>2. U \in SUBSET Nat /\ \A k \in U : k <= i
  BY <1>1 DEF Upto
<1>3. IsFiniteSet(U)
  BY <1>2, FS_BoundedSetOfNaturals
<1>4. Cardinality(U) \in Nat
  BY <1>3, FS_CardinalityType
<1>5. Upto(T, i + 1) = IF i + 1 \in T THEN U \cup {i + 1} ELSE U
  <2>1. \A k \in T : k \in Nat /\ (k <= i + 1 <=> k <= i \/ k = i + 1)
    OBVIOUS
  <2>2. \A k : k \in Upto(T, i + 1) <=> k \in U \/ (k = i + 1 /\ i + 1 \in T)
    BY <1>1, <2>1 DEF Upto
  <2>. QED BY <2>2
<1>6. i + 1 \notin U
  BY <1>2
<1>7. Cardinality(U \cup {i + 1}) = Cardinality(U) + 1
  BY <1>3, <1>6, FS_AddElement
<1>8. Upto(T, 0) = {}
  <2>1. \A k \in T : k \in Nat /\ ~(k <= 0)
    OBVIOUS
  <2>. QED BY <2>1 DEF Upto
<1>. QED BY <1>1, <1>3, <1>4, <1>5, <1>7, <1>8

(* In the window of n are the first n. *)
LEMMA WindowNext ==
  ASSUME NEW T \in SUBSET (Nat \ {0}), NEW n, NEW i \in Nat
  PROVE  Within(n, i + 1, T) <=> i + 1 \in T /\ Cardinality(Upto(T, i)) + 1 <= n
<1>1. i + 1 \in T => Cardinality(Upto(T, i + 1)) = Cardinality(Upto(T, i)) + 1
  BY UptoNext
<1>2. Upto(T, i + 1) = {k \in T : k <= i + 1}
  BY DEF Upto
<1>. QED BY <1>1, <1>2 DEF Within

LEMMA WindowFills ==
  ASSUME NEW T \in SUBSET (Nat \ {0}), NEW n \in Nat, NEW W, W = {j \in T : Within(n, j, T)}, NEW m \in Nat
  PROVE  Cardinality(Upto(W, m)) = IF Cardinality(Upto(T, m)) <= n THEN Cardinality(Upto(T, m)) ELSE n
<1>. DEFINE Full(i) == Cardinality(Upto(W, i)) =
                         IF Cardinality(Upto(T, i)) <= n THEN Cardinality(Upto(T, i)) ELSE n
<1>1. W \in SUBSET (Nat \ {0})
  OBVIOUS
<1>2. PICK S : S = {i \in Nat : Full(i)}
  OBVIOUS
<1>3. 0 \in S
  <2>1. Upto(W, 0) = {} /\ Upto(T, 0) = {} /\ Cardinality({}) = 0
    BY <1>1, UptoNext, FS_EmptySet
  <2>. QED BY <1>2, <2>1
<1>4. ASSUME NEW i \in Nat, i \in S PROVE i + 1 \in S
  <2>1. PICK a \in Nat, b \in Nat : a = Cardinality(Upto(T, i)) /\ b = Cardinality(Upto(W, i))
    BY <1>1, UptoNext
  <2>2. b = IF a <= n THEN a ELSE n
    BY <1>2, <1>4, <2>1
  <2>3. Cardinality(Upto(T, i + 1)) = a + (IF i + 1 \in T THEN 1 ELSE 0)
    BY <2>1, UptoNext
  <2>4. Cardinality(Upto(W, i + 1)) = b + (IF i + 1 \in W THEN 1 ELSE 0)
    BY <1>1, <2>1, UptoNext
  <2>5. i + 1 \in W <=> i + 1 \in T /\ a + 1 <= n
    BY <2>1, WindowNext
  <2>. QED BY <1>2, <2>2, <2>3, <2>4, <2>5
<1>5. m \in S
  BY <1>3, <1>4, SetInduction
<1>. QED BY <1>2, <1>5
-----------------------------------------------------------------------------
(* The walk against the definition.                                         *)

Heard(evs, inv) == {j \in TurnsAfter(evs, inv) : Within(Horizon, j, TurnsAfter(evs, inv))}
Said(evs, inv)  == {j \in Heard(evs, inv) : evs[j].kind = "user"}
Done(evs, inv)  == Heard(evs, inv) \ Said(evs, inv)

(* The invocation is abandoned at the j-th event, by the i-th event. *)
QuitAt(evs, inv, j) ==
  \/ j \in Done(evs, inv) /\ Within(PivotWindow, j, Done(evs, inv)) /\ Pivots(evs[j], inv[2])
  \/ j \in Said(evs, inv) /\ Within(StopWindow, j, Said(evs, inv)) /\ evs[j].text = "stop"
QuitBy(evs, inv, i) == \E j \in Heard(evs, inv) : j <= i /\ QuitAt(evs, inv, j)

Walks(evs, inv, i) ==
  LET w == Walked(evs, inv)[i] IN
  IF QuitBy(evs, inv, i) THEN w.outcome = "abandoned"
  ELSE w = [assistant |-> Cardinality(Upto(Done(evs, inv), i)),
            user      |-> Cardinality(Upto(Said(evs, inv), i)),
            benign    |-> Upto(Said(evs, inv), i) # {},
            outcome   |-> "open"]

LEMMA TurnSets ==
  ASSUME NEW evs, NEW inv, Len(evs) \in Nat, inv[1] \in 1..Len(evs)
  PROVE  /\ TurnsAfter(evs, inv) \in SUBSET (Nat \ {0}) /\ Heard(evs, inv) \in SUBSET (Nat \ {0})
         /\ Said(evs, inv) \in SUBSET (Nat \ {0}) /\ Done(evs, inv) \in SUBSET (Nat \ {0})
         /\ \A j \in TurnsAfter(evs, inv) : inv[1] < j /\ j <= Len(evs)
BY DEF TurnsAfter, Heard, Said, Done

(* What was heard is what was done or said. *)
LEMMA HeardSplits ==
  ASSUME NEW evs, NEW inv, Len(evs) \in Nat, inv[1] \in 1..Len(evs), NEW i \in Nat
  PROVE  Cardinality(Upto(Heard(evs, inv), i)) =
           Cardinality(Upto(Done(evs, inv), i)) + Cardinality(Upto(Said(evs, inv), i))
<1>1. PICK D, U : D = Upto(Done(evs, inv), i) /\ U = Upto(Said(evs, inv), i)
  OBVIOUS
<1>2. /\ IsFiniteSet(D) /\ IsFiniteSet(U) /\ Cardinality(D) \in Nat /\ Cardinality(U) \in Nat
  BY <1>1, TurnSets, UptoNext
<1>3. Upto(Heard(evs, inv), i) = D \cup U /\ D \cap U = {}
  BY <1>1 DEF Upto, Done, Said
<1>4. Cardinality(D \cup U) = Cardinality(D) + Cardinality(U) - Cardinality(D \cap U)
  BY <1>2, FS_Union
<1>5. Cardinality(D \cap U) = 0
  BY <1>3, FS_EmptySet
<1>. QED BY <1>1, <1>2, <1>3, <1>4, <1>5

LEMMA WalkBegins ==
  ASSUME NEW evs, NEW inv, Len(evs) \in Nat, inv[1] \in 1..Len(evs)
  PROVE  Walks(evs, inv, inv[1])
<1>1. \A j \in TurnsAfter(evs, inv) : ~(j <= inv[1])
  BY TurnSets
<1>2. Upto(Done(evs, inv), inv[1]) = {} /\ Upto(Said(evs, inv), inv[1]) = {} /\ ~QuitBy(evs, inv, inv[1])
  BY <1>1 DEF Upto, Done, Said, Heard, QuitBy
<1>. QED BY <1>2, WalkedSteps, FS_EmptySet DEF Walks, Start

LEMMA WalkGoesOn ==
  ASSUME NEW evs, NEW inv, Len(evs) \in Nat, inv[1] \in 1..Len(evs), Horizon \in Nat,
         NEW i \in inv[1]..Len(evs), i < Len(evs), Walks(evs, inv, i)
  PROVE  Walks(evs, inv, i + 1)
<1>1. PICK w, v, e, session, name :
         /\ w = Walked(evs, inv)[i] /\ v = Walked(evs, inv)[i + 1] /\ e = evs[i + 1]
         /\ session = evs[inv[1]].session /\ name = inv[2]
  OBVIOUS
<1>2. v = Walk(w, e, session, name) /\ w \in Acc /\ i \in Nat
  <2>1. i + 1 \in inv[1]..Len(evs) /\ i + 1 # inv[1] /\ (i + 1) - 1 = i
    OBVIOUS
  <2>. QED BY <1>1, <2>1, WalkedSteps
<1>3. PICK T, H, D, U : /\ T = TurnsAfter(evs, inv) /\ H = Heard(evs, inv)
                        /\ D = Done(evs, inv) /\ U = Said(evs, inv)
  OBVIOUS
<1>4. PICK d \in Nat, u \in Nat : d = Cardinality(Upto(D, i)) /\ u = Cardinality(Upto(U, i))
  BY <1>2, <1>3, TurnSets, UptoNext
<1>5. /\ Cardinality(Upto(D, i + 1)) = d + (IF i + 1 \in D THEN 1 ELSE 0)
      /\ Cardinality(Upto(U, i + 1)) = u + (IF i + 1 \in U THEN 1 ELSE 0)
      /\ Upto(U, i + 1) = IF i + 1 \in U THEN Upto(U, i) \cup {i + 1} ELSE Upto(U, i)
  BY <1>2, <1>3, <1>4, TurnSets, UptoNext
<1>6. i + 1 \in H <=> i + 1 \in T /\ d + u < Horizon
  <2>1. Cardinality(Upto(H, i)) = d + u
    BY <1>2, <1>3, <1>4, HeardSplits
  <2>2. T \in SUBSET (Nat \ {0}) /\ H = {j \in T : Within(Horizon, j, T)}
    BY <1>3, TurnSets DEF Heard
  <2>3. PICK t \in Nat : t = Cardinality(Upto(T, i))
    BY <1>2, <2>2, UptoNext
  <2>4. d + u = IF t <= Horizon THEN t ELSE Horizon
    BY <1>2, <2>1, <2>2, <2>3, WindowFills
  <2>5. i + 1 \in H <=> i + 1 \in T /\ t + 1 <= Horizon
    BY <1>2, <2>2, <2>3, WindowNext
  <2>. QED BY <2>4, <2>5
<1>7. i + 1 \in T <=> e.session = session /\ (e.kind = "assistant" \/ (e.kind = "user" /\ e.text # "none"))
  <2>1. i + 1 \in (inv[1] + 1)..Len(evs)
    OBVIOUS
  <2>. QED BY <1>1, <1>3, <2>1 DEF TurnsAfter
<1>8. (i + 1 \in U <=> i + 1 \in H /\ e.kind = "user") /\ (i + 1 \in D <=> i + 1 \in H /\ e.kind # "user")
  BY <1>1, <1>3 DEF Said, Done
<1>9. QuitBy(evs, inv, i + 1) <=> QuitBy(evs, inv, i) \/ QuitAt(evs, inv, i + 1)
  <2>1. \A j \in H : j \in Nat /\ (j <= i + 1 <=> j <= i \/ j = i + 1)
    BY <1>2, <1>3, TurnSets
  <2>2. QuitAt(evs, inv, i + 1) => i + 1 \in H
    BY <1>3, <1>8 DEF QuitAt
  <2>. QED BY <1>3, <2>1, <2>2 DEF QuitBy
<1>10. QuitAt(evs, inv, i + 1) <=>
         \/ i + 1 \in D /\ d + 1 <= PivotWindow /\ Pivots(e, name)
         \/ i + 1 \in U /\ u + 1 <= StopWindow /\ e.text = "stop"
  <2>1. D \in SUBSET (Nat \ {0}) /\ U \in SUBSET (Nat \ {0})
    BY <1>3, TurnSets
  <2>2. /\ Within(PivotWindow, i + 1, D) <=> i + 1 \in D /\ d + 1 <= PivotWindow
        /\ Within(StopWindow, i + 1, U) <=> i + 1 \in U /\ u + 1 <= StopWindow
    BY <1>2, <1>4, <2>1, WindowNext
  <2>. QED BY <1>1, <1>3, <2>2 DEF QuitAt
<1>11. CASE QuitBy(evs, inv, i)
  <2>1. w.outcome = "abandoned"
    BY <1>1, <1>11 DEF Walks
  <2>2. v = w
    BY <1>2, <2>1 DEF Walk
  <2>. QED BY <1>1, <1>9, <1>11, <2>1, <2>2 DEF Walks
<1>12. CASE ~QuitBy(evs, inv, i)
  <2>1. w = [assistant |-> d, user |-> u, benign |-> Upto(U, i) # {}, outcome |-> "open"]
    BY <1>1, <1>3, <1>4, <1>12 DEF Walks
  <2>2. CASE i + 1 \notin H
    <3>1. v = w
      BY <1>2, <1>6, <1>7, <2>1, <2>2 DEF Walk
    <3>2. ~QuitBy(evs, inv, i + 1)
      BY <1>8, <1>9, <1>10, <1>12, <2>2
    <3>. QED BY <1>1, <1>3, <1>5, <1>8, <2>1, <2>2, <3>1, <3>2 DEF Walks
  <2>3. CASE i + 1 \in H /\ e.kind # "user"
    <3>1. v = OnAssistant(w, e, name)
      BY <1>2, <1>6, <1>7, <2>1, <2>3 DEF Walk
    <3>2. QuitBy(evs, inv, i + 1) <=> d + 1 <= PivotWindow /\ Pivots(e, name)
      BY <1>8, <1>9, <1>10, <1>12, <2>3
    <3>3. v = [assistant |-> d + 1, user |-> u, benign |-> Upto(U, i) # {},
               outcome |-> IF QuitBy(evs, inv, i + 1) THEN "abandoned" ELSE "open"]
      <4>1. d < PivotWindow <=> d + 1 <= PivotWindow
        BY SkillUsageAssumption
      <4>. QED BY <2>1, <3>1, <3>2, <4>1 DEF OnAssistant
    <3>4. Cardinality(Upto(D, i + 1)) = d + 1 /\ Cardinality(Upto(U, i + 1)) = u /\ Upto(U, i + 1) = Upto(U, i)
      BY <1>5, <1>8, <2>3
    <3>. QED BY <1>1, <1>3, <3>3, <3>4 DEF Walks
  <2>4. CASE i + 1 \in H /\ e.kind = "user"
    <3>1. v = OnUser(w, e)
      BY <1>2, <1>6, <1>7, <2>1, <2>4 DEF Walk
    <3>2. QuitBy(evs, inv, i + 1) <=> u + 1 <= StopWindow /\ e.text = "stop"
      BY <1>8, <1>9, <1>10, <1>12, <2>4
    <3>3. ~QuitBy(evs, inv, i + 1) =>
            v = [assistant |-> d, user |-> u + 1, benign |-> TRUE, outcome |-> "open"]
      <4>1. u < StopWindow <=> u + 1 <= StopWindow
        BY SkillUsageAssumption
      <4>. QED BY <2>1, <3>1, <3>2, <4>1 DEF OnUser
    <3>4. QuitBy(evs, inv, i + 1) => v.outcome = "abandoned"
      <4>1. u < StopWindow <=> u + 1 <= StopWindow
        BY SkillUsageAssumption
      <4>. QED BY <2>1, <3>1, <3>2, <4>1 DEF OnUser
    <3>5. /\ Cardinality(Upto(D, i + 1)) = d /\ Cardinality(Upto(U, i + 1)) = u + 1
          /\ Upto(U, i + 1) # {}
      <4>1. i + 1 \in U /\ i + 1 \notin D
        BY <1>8, <2>4
      <4>2. Upto(U, i + 1) = Upto(U, i) \cup {i + 1}
        BY <1>5, <4>1
      <4>. QED BY <1>5, <4>1, <4>2
    <3>. QED BY <1>1, <1>3, <3>3, <3>4, <3>5 DEF Walks
  <2>. QED BY <2>2, <2>3, <2>4
<1>. QED BY <1>11, <1>12

LEMMA WalkIsRight ==
  ASSUME NEW evs, NEW inv, Len(evs) \in Nat, inv[1] \in 1..Len(evs)
  PROVE  \A i \in inv[1]..Len(evs) : Walks(evs, inv, i)
<1>1. PICK S : S = {i \in inv[1]..Len(evs) : Walks(evs, inv, i)}
  OBVIOUS
<1>2. inv[1] \in S
  BY <1>1, WalkBegins
<1>3. ASSUME NEW i \in inv[1]..Len(evs), i \in S, i < Len(evs) PROVE i + 1 \in S
  <2>1. Horizon \in Nat /\ Walks(evs, inv, i) /\ i + 1 \in inv[1]..Len(evs)
    BY <1>1, <1>3, SkillUsageAssumption
  <2>. QED BY <1>1, <1>3, <2>1, WalkGoesOn
<1>4. inv[1]..Len(evs) \subseteq S
  <2>1. inv[1] \in Nat /\ Len(evs) \in Nat
    OBVIOUS
  <2>. QED BY <1>2, <1>3, <2>1, LoopInduction
<1>. QED BY <1>1, <1>4

(* classifyInvocation, for any events. *)
LEMMA ClassifiedAsDefined ==
  ASSUME NEW evs, NEW inv, Len(evs) \in Nat, inv[1] \in 1..Len(evs)
  PROVE  classifyInvocation(evs, inv) = OutcomeOf(evs, inv)
<1>1. PICK w, n : w = Walked(evs, inv)[n] /\ n = Len(evs)
  OBVIOUS
<1>2. Walks(evs, inv, n)
  BY <1>1, WalkIsRight
<1>3. PICK T, H, D, U : /\ T = TurnsAfter(evs, inv) /\ H = Heard(evs, inv)
                        /\ D = Done(evs, inv) /\ U = Said(evs, inv)
  OBVIOUS
<1>4. H \subseteq T /\ U \subseteq H /\ D = H \ U /\ \A j \in T : j <= n
  BY <1>1, <1>3, TurnSets DEF Heard, Said, Done
<1>5. Upto(U, n) = U
  BY <1>4 DEF Upto
<1>6. PICK pivot, stop \in BOOLEAN :
        /\ pivot <=> \E j \in D : Within(PivotWindow, j, D) /\ Pivots(evs[j], inv[2])
        /\ stop <=> \E j \in U : Within(StopWindow, j, U) /\ evs[j].text = "stop"
  OBVIOUS
<1>7. QuitBy(evs, inv, n) <=> pivot \/ stop
  BY <1>3, <1>4, <1>6 DEF QuitBy, QuitAt
<1>8. OutcomeOf(evs, inv) = IF pivot \/ stop THEN "abandoned" ELSE IF U # {} THEN "completed" ELSE "unknown"
  BY <1>3, <1>4, <1>6 DEF OutcomeOf, Heard, Said, Done
<1>9. classifyInvocation(evs, inv) =
        IF w.outcome # "open" THEN w.outcome ELSE IF w.benign THEN "completed" ELSE "unknown"
  BY <1>1 DEF classifyInvocation
<1>10. CASE QuitBy(evs, inv, n)
  BY <1>1, <1>2, <1>7, <1>8, <1>9, <1>10 DEF Walks
<1>11. CASE ~QuitBy(evs, inv, n)
  <2>1. w.outcome = "open" /\ w.benign = (U # {})
    BY <1>1, <1>2, <1>3, <1>5, <1>11 DEF Walks
  <2>. QED BY <1>7, <1>8, <1>9, <1>11, <2>1
<1>. QED BY <1>10, <1>11
-----------------------------------------------------------------------------
(* The transcript grows.                                                    *)

LEMMA ParsedSteps ==
  ASSUME NEW X, NEW ls \in Seq(X)
  PROVE  /\ Parsed(ls) \in [0..Len(ls) -> Seq(X)] /\ Parsed(ls)[0] = <<>>
         /\ \A i \in 0..Len(ls) : i # 0 =>
              Parsed(ls)[i] = IF ls[i].kind = "malformed" THEN Parsed(ls)[i - 1]
                              ELSE Append(Parsed(ls)[i - 1], ls[i])
<1>1. PICK hi \in Nat : hi = Len(ls)
  BY LenProperties
<1>2. PICK G : G = [i \in 0..hi |-> [es \in Seq(X) |->
                     IF i = 0 \/ ls[i].kind = "malformed" THEN es ELSE Append(es, ls[i])]]
  OBVIOUS
<1>3. \A i \in 0..hi, es \in Seq(X) : i # 0 => Append(es, ls[i]) \in Seq(X)
  <2>. SUFFICES ASSUME NEW i \in 0..hi, NEW es \in Seq(X), i # 0 PROVE Append(es, ls[i]) \in Seq(X)
    OBVIOUS
  <2>1. ls[i] \in X
    BY <1>1, ElementOfSeq
  <2>. QED BY <2>1, AppendProperties
<1>4. G \in [0..hi -> [Seq(X) -> Seq(X)]]
  BY <1>2, <1>3
<1>5. 0 \in Nat /\ 0 <= hi /\ <<>> \in Seq(X)
  OBVIOUS
<1>6. PICK f \in [0..hi -> Seq(X)] : Runs(f, 0, hi, <<>>, G)
  BY <1>4, <1>5, LoopRuns
<1>7. \A i \in 0..hi : i # 0 => G[i][f[i - 1]] = IF ls[i].kind = "malformed" THEN f[i - 1]
                                                ELSE Append(f[i - 1], ls[i])
  <2>. SUFFICES ASSUME NEW i \in 0..hi, i # 0
                PROVE  G[i][f[i - 1]] = IF ls[i].kind = "malformed" THEN f[i - 1] ELSE Append(f[i - 1], ls[i])
    OBVIOUS
  <2>1. i - 1 \in 0..hi /\ f[i - 1] \in Seq(X)
    OBVIOUS
  <2>. QED BY <1>2, <2>1
<1>8. f = [i \in 0..hi |-> IF i = 0 THEN <<>>
             ELSE IF ls[i].kind = "malformed" THEN f[i - 1] ELSE Append(f[i - 1], ls[i])]
  BY <1>6, <1>7 DEF Runs
<1>9. PICK w : w = Parsed(ls)
  OBVIOUS
<1>10. w = [i \in 0..hi |-> IF i = 0 THEN <<>>
             ELSE IF ls[i].kind = "malformed" THEN w[i - 1] ELSE Append(w[i - 1], ls[i])]
  <2>1. f = [i \in 0..Len(ls) |-> IF i = 0 THEN <<>>
               ELSE IF ls[i].kind = "malformed" THEN f[i - 1] ELSE Append(f[i - 1], ls[i])]
    BY <1>1, <1>8
  <2>2. w = [i \in 0..Len(ls) |-> IF i = 0 THEN <<>>
               ELSE IF ls[i].kind = "malformed" THEN w[i - 1] ELSE Append(w[i - 1], ls[i])]
    BY <1>9, <2>1 DEF Parsed
  <2>. QED BY <1>1, <2>2
<1>11. w[0] = <<>> /\ \A i \in 0..hi : i # 0 =>
         w[i] = IF ls[i].kind = "malformed" THEN w[i - 1] ELSE Append(w[i - 1], ls[i])
  <2>1. 0 \in 0..hi
    OBVIOUS
  <2>2. w[0] = <<>>
    BY <1>10, <2>1
  <2>3. ASSUME NEW i \in 0..hi, i # 0
        PROVE  w[i] = IF ls[i].kind = "malformed" THEN w[i - 1] ELSE Append(w[i - 1], ls[i])
    BY <1>10, <2>3
  <2>. QED BY <2>2, <2>3
<1>12. PICK S : S = {i \in 0..hi : w[i] \in Seq(X)}
  OBVIOUS
<1>13. 0 \in S
  <2>1. 0 \in 0..hi /\ w[0] \in Seq(X)
    BY <1>5, <1>11
  <2>. QED BY <1>12, <2>1
<1>14. ASSUME NEW i \in 0..hi, i \in S, i < hi PROVE i + 1 \in S
  <2>1. i + 1 \in 0..hi /\ i + 1 # 0 /\ (i + 1) - 1 = i
    BY <1>14
  <2>2. /\ w[i] \in Seq(X) /\ Append(w[i], ls[i + 1]) \in Seq(X)
        /\ w[i + 1] = IF ls[i + 1].kind = "malformed" THEN w[i] ELSE Append(w[i], ls[i + 1])
    BY <1>3, <1>11, <1>12, <1>14, <2>1
  <2>. QED BY <1>12, <2>1, <2>2
<1>15. 0..hi \subseteq S
  BY <1>5, <1>13, <1>14, LoopInduction
<1>. QED BY <1>1, <1>9, <1>10, <1>11, <1>12, <1>15

LEMMA EventsType ==
  ASSUME NEW X, NEW ls \in Seq(X)
  PROVE  Events(ls) \in Seq(X)
<1>1. Len(ls) \in 0..Len(ls)
  BY LenProperties
<1>. QED BY <1>1, ParsedSteps DEF Events

LEMMA EventsGrow ==
  ASSUME NEW X, NEW ls \in Seq(X), NEW l \in X
  PROVE  Events(Append(ls, l)) = IF l.kind = "malformed" THEN Events(ls) ELSE Append(Events(ls), l)
<1>0. PICK m : m = Append(ls, l)
  OBVIOUS
<1>1. PICK n \in Nat : m = Append(ls, l) /\ n = Len(ls)
  BY <1>0, LenProperties
<1>2. m \in Seq(X) /\ Len(m) = n + 1 /\ m[n + 1] = l /\ \A i \in 1..n : m[i] = ls[i]
  BY <1>1, AppendProperties
<1>3. PICK f, g : f = Parsed(ls) /\ g = Parsed(m)
  OBVIOUS
<1>4. f[0] = <<>> /\ \A i \in 0..n : i # 0 =>
        f[i] = IF ls[i].kind = "malformed" THEN f[i - 1] ELSE Append(f[i - 1], ls[i])
  BY <1>1, <1>3, ParsedSteps
<1>5. g[0] = <<>> /\ \A i \in 0..(n + 1) : i # 0 =>
        g[i] = IF m[i].kind = "malformed" THEN g[i - 1] ELSE Append(g[i - 1], m[i])
  BY <1>2, <1>3, ParsedSteps
<1>6. PICK S : S = {i \in 0..n : f[i] = g[i]}
  OBVIOUS
<1>7. 0 \in S
  BY <1>4, <1>5, <1>6
<1>8. ASSUME NEW i \in 0..n, i \in S, i < n PROVE i + 1 \in S
  <2>1. i + 1 \in 0..n /\ i + 1 \in 0..(n + 1) /\ i + 1 # 0 /\ (i + 1) - 1 = i /\ i + 1 \in 1..n
    BY <1>8
  <2>2. f[i] = g[i] /\ m[i + 1] = ls[i + 1]
    BY <1>2, <1>6, <1>8, <2>1
  <2>3. f[i + 1] = IF ls[i + 1].kind = "malformed" THEN f[i] ELSE Append(f[i], ls[i + 1])
    BY <1>4, <2>1
  <2>4. g[i + 1] = IF m[i + 1].kind = "malformed" THEN g[i] ELSE Append(g[i], m[i + 1])
    BY <1>5, <2>1
  <2>. QED BY <1>6, <2>1, <2>2, <2>3, <2>4
<1>9. 0..n \subseteq S
  BY <1>7, <1>8, LoopInduction
<1>10. f[n] = g[n]
  BY <1>6, <1>9
<1>11. g[n + 1] = IF l.kind = "malformed" THEN g[n] ELSE Append(g[n], l)
  <2>1. n + 1 \in 0..(n + 1) /\ n + 1 # 0 /\ (n + 1) - 1 = n
    OBVIOUS
  <2>. QED BY <1>2, <1>5, <2>1
<1>. QED BY <1>1, <1>2, <1>3, <1>10, <1>11 DEF Events
-----------------------------------------------------------------------------
(* The theorems.                                                            *)

UsageType == lines \in Seq(Lines) /\ past \in Pasts

LEMMA UsageTypes == Spec => []UsageType
<1>1. Init => UsageType
  BY DEF Init, UsageType
<1>2. UsageType /\ [Next]_vars => UsageType'
  <2>1. ASSUME UsageType, NEW line \in Lines, AppendLine(line) PROVE UsageType'
    <3>1. lines \in Seq(Lines) /\ lines' = Append(lines, line) /\ past' = past /\ past \in Pasts
      BY <2>1 DEF UsageType, AppendLine
    <3>2. Append(lines, line) \in Seq(Lines)
      BY <2>1, <3>1, AppendProperties
    <3>. QED BY <3>1, <3>2 DEF UsageType
  <2>2. ASSUME UsageType, UNCHANGED vars PROVE UsageType'
    BY <2>2 DEF UsageType, vars
  <2>. QED BY <2>1, <2>2 DEF Next
<1>. QED BY <1>1, <1>2, PTL DEF Spec

LEMMA InvocationsType ==
  ASSUME NEW X, NEW evs \in Seq(X)
  PROVE  /\ Len(evs) \in Nat
         /\ \A inv \in Invocations(evs) : inv[1] \in 1..Len(evs) /\ inv = <<inv[1], inv[2]>>
<1>1. DOMAIN evs = 1..Len(evs) /\ Len(evs) \in Nat
  BY LenProperties
<1>2. PICK names : names = {b.name : b \in UNION {Range(evs[i].skills) : i \in DOMAIN evs}}
  OBVIOUS
<1>3. Invocations(evs) \subseteq (DOMAIN evs) \X names
  BY <1>2 DEF Invocations
<1>. QED BY <1>1, <1>3

(* classifyInvocation comes to what its comment defines, for any transcript *)
(* and any windows.                                                         *)
THEOREM OutcomesAreDefined == Spec => []OutcomeAsDefined
<1>1. ASSUME UsageType PROVE OutcomeAsDefined
  <2>1. PICK evs : evs = Events(lines)
    OBVIOUS
  <2>2. evs \in Seq(Lines)
    BY <1>1, <2>1, EventsType DEF UsageType
  <2>3. ASSUME NEW inv \in Invocations(evs) PROVE classifyInvocation(evs, inv) = OutcomeOf(evs, inv)
    BY <2>2, InvocationsType, ClassifiedAsDefined
  <2>. QED BY <2>1, <2>3 DEF OutcomeAsDefined
<1>. QED BY <1>1, UsageTypes, PTL

(* What one more event makes of an outcome. *)
LEMMA OneMoreEvent ==
  ASSUME NEW X, NEW evs \in Seq(X), NEW l \in X, NEW inv, inv[1] \in 1..Len(evs)
  PROVE  \/ classifyInvocation(Append(evs, l), inv) = classifyInvocation(evs, inv)
         \/ /\ classifyInvocation(evs, inv) # "abandoned"
            /\ classifyInvocation(Append(evs, l), inv) # "unknown"
            /\ Cardinality(TurnsAfter(evs, inv)) < Horizon
<1>0. PICK evs2 : evs2 = Append(evs, l)
  OBVIOUS
<1>1. PICK n \in Nat : n = Len(evs)
  BY LenProperties
<1>2. Len(evs2) = n + 1 /\ evs2[n + 1] = l /\ \A i \in 1..n : evs2[i] = evs[i]
  BY <1>0, <1>1, AppendProperties
<1>3. PICK f, g, s, name, lo : /\ f = Walked(evs, inv) /\ g = Walked(evs2, inv)
                               /\ s = evs[inv[1]].session /\ name = inv[2] /\ lo = inv[1]
  OBVIOUS
<1>4. lo \in 1..n /\ lo \in Nat /\ s = evs2[inv[1]].session
  BY <1>1, <1>2, <1>3
<1>5. f[lo] = Start /\ \A i \in lo..n : i # lo => f[i] = Walk(f[i - 1], evs[i], s, name)
  BY <1>1, <1>3, WalkedSteps
<1>6. /\ g[lo] = Start /\ g \in [lo..(n + 1) -> Acc]
      /\ \A i \in lo..(n + 1) : i # lo => g[i] = Walk(g[i - 1], evs2[i], s, name)
  <2>1. Len(evs2) \in Nat /\ inv[1] \in 1..Len(evs2)
    BY <1>2, <1>3, <1>4
  <2>2. /\ Walked(evs2, inv) \in [inv[1]..Len(evs2) -> Acc] /\ Walked(evs2, inv)[inv[1]] = Start
        /\ \A i \in inv[1]..Len(evs2) : i # inv[1] =>
             Walked(evs2, inv)[i] = Walk(Walked(evs2, inv)[i - 1], evs2[i], evs2[inv[1]].session, inv[2])
    BY <2>1, WalkedSteps
  <2>. QED BY <1>2, <1>3, <1>4, <2>2
<1>7. PICK S : S = {i \in lo..n : f[i] = g[i]}
  OBVIOUS
<1>8. lo \in S
  BY <1>4, <1>5, <1>6, <1>7
<1>9. ASSUME NEW i \in lo..n, i \in S, i < n PROVE i + 1 \in S
  <2>1. i + 1 \in lo..n /\ i + 1 \in lo..(n + 1) /\ i + 1 # lo /\ (i + 1) - 1 = i /\ i + 1 \in 1..n
    BY <1>4, <1>9
  <2>2. f[i] = g[i] /\ evs2[i + 1] = evs[i + 1]
    BY <1>2, <1>7, <1>9, <2>1
  <2>3. f[i + 1] = Walk(f[i], evs[i + 1], s, name) /\ g[i + 1] = Walk(g[i], evs2[i + 1], s, name)
    BY <1>5, <1>6, <2>1
  <2>. QED BY <1>7, <2>1, <2>2, <2>3
<1>10. lo..n \subseteq S
  BY <1>4, <1>8, <1>9, LoopInduction
<1>11. PICK w, v : w = f[n] /\ v = g[n + 1]
  OBVIOUS
<1>12. w \in Acc /\ v = Walk(w, l, s, name)
  <2>1. n \in lo..n /\ n \in lo..(n + 1) /\ n + 1 \in lo..(n + 1) /\ n + 1 # lo /\ (n + 1) - 1 = n
    BY <1>4
  <2>2. f[n] = g[n]
    BY <1>7, <1>10, <2>1
  <2>. QED BY <1>2, <1>6, <1>11, <2>1, <2>2
<1>13. /\ classifyInvocation(evs, inv) =
            IF w.outcome # "open" THEN w.outcome ELSE IF w.benign THEN "completed" ELSE "unknown"
       /\ classifyInvocation(evs2, inv) =
            IF v.outcome # "open" THEN v.outcome ELSE IF v.benign THEN "completed" ELSE "unknown"
  BY <1>1, <1>2, <1>3, <1>11 DEF classifyInvocation
<1>14. CASE v = w
  BY <1>0, <1>13, <1>14
<1>15. CASE v # w
  <2>1. /\ w.outcome = "open" /\ w.assistant + w.user < Horizon
        /\ v = OnAssistant(w, l, name) \/ v = OnUser(w, l)
    BY <1>12, <1>15 DEF Walk
  <2>2. v.outcome \in {"open", "abandoned"} /\ (w.benign => v.benign)
    BY <1>12, <2>1 DEF OnAssistant, OnUser, Acc
  <2>3. Cardinality(TurnsAfter(evs, inv)) < Horizon
    <3>1. PICK T : T = TurnsAfter(evs, inv)
      OBVIOUS
    <3>2. T \in SUBSET (Nat \ {0}) /\ \A j \in T : j <= n
      BY <1>1, <3>1, TurnSets
    <3>3. Walks(evs, inv, n)
      BY <1>1, WalkIsRight
    <3>4. /\ w.assistant = Cardinality(Upto(Done(evs, inv), n))
          /\ w.user = Cardinality(Upto(Said(evs, inv), n))
      BY <1>3, <1>11, <2>1, <3>3 DEF Walks
    <3>5. Cardinality(Upto(Heard(evs, inv), n)) < Horizon
      BY <1>1, <2>1, <3>4, HeardSplits
    <3>6. Upto(T, n) = T
      BY <3>2 DEF Upto
    <3>7. Cardinality(T) \in Nat
      BY <3>2, <3>6, UptoNext
    <3>8. Horizon \in Nat
      BY SkillUsageAssumption
    <3>9. Heard(evs, inv) = {j \in T : Within(Horizon, j, T)}
      BY <3>1 DEF Heard
    <3>10. Cardinality(Upto(Heard(evs, inv), n)) = IF Cardinality(T) <= Horizon THEN Cardinality(T) ELSE Horizon
      BY <3>2, <3>6, <3>8, <3>9, WindowFills
    <3>. QED BY <3>1, <3>5, <3>7, <3>8, <3>10
  <2>. QED BY <1>0, <1>13, <2>1, <2>2, <2>3
<1>. QED BY <1>14, <1>15

(* A report never takes back that of the week before: a transcript that     *)
(* grows completes or abandons an invocation, and then no more than that,   *)
(* for any transcript and any windows.                                      *)
THEOREM ReportsNeverTakeBack == Spec => OutcomeOnlyWorsens
<1>. DEFINE Worsens(evs, evs2) ==
       \A inv \in Invocations(evs) :
         \/ classifyInvocation(evs2, inv) = classifyInvocation(evs, inv)
         \/ /\ classifyInvocation(evs, inv) # "abandoned" /\ classifyInvocation(evs2, inv) # "unknown"
            /\ Cardinality(TurnsAfter(evs, inv)) < Horizon
<1>1. ASSUME UsageType, Next PROVE Worsens(Events(lines), Events(lines'))
  <2>1. PICK line \in Lines : lines' = Append(lines, line)
    BY <1>1 DEF Next, AppendLine
  <2>2. PICK evs, evs2 : evs = Events(lines) /\ evs2 = Events(lines')
    OBVIOUS
  <2>3. evs \in Seq(Lines) /\ evs2 \in {evs, Append(evs, line)}
    BY <1>1, <2>1, <2>2, EventsType, EventsGrow DEF UsageType
  <2>4. ASSUME NEW inv \in Invocations(evs), evs2 = Append(evs, line)
        PROVE  \/ classifyInvocation(evs2, inv) = classifyInvocation(evs, inv)
               \/ /\ classifyInvocation(evs, inv) # "abandoned" /\ classifyInvocation(evs2, inv) # "unknown"
                  /\ Cardinality(TurnsAfter(evs, inv)) < Horizon
    BY <2>3, <2>4, InvocationsType, OneMoreEvent
  <2>. QED BY <2>2, <2>3, <2>4
<1>2. UsageType /\ [Next]_vars => [Worsens(Events(lines), Events(lines'))]_vars
  BY <1>1
<1>3. Spec => [][Worsens(Events(lines), Events(lines'))]_vars
  BY <1>2, UsageTypes, PTL DEF Spec
<1>. QED BY <1>3 DEF OutcomeOnlyWorsens

LEMMA MoreThanHalf ==
  ASSUME NEW c \in Nat, NEW a \in Nat, NEW percent \in 51..100, c + a > 0,
         100 * c >= percent * (c + a)
  PROVE  2 * a < c + a
<1>1. PICK q \in Nat, k \in Nat : percent = 51 + q /\ k = c + a
  <2>1. percent - 51 \in Nat /\ percent = 51 + (percent - 51)
    OBVIOUS
  <2>. QED BY <2>1
<1>2. percent * k = 51 * k + q * k /\ q * k >= 0
  BY <1>1
<1>3. 100 * c >= 51 * k
  BY <1>1, <1>2
<1>. QED BY <1>1, <1>3

(* What a report counts. *)
LEMMA UsageCounts ==
  ASSUME UsageType, NEW age, NEW u, u = Usage(lines, age)
  PROVE  /\ u.completed \in Nat /\ u.abandoned \in Nat /\ u.unknown \in Nat /\ u.sessions \in Nat
         /\ u.age = age
         /\ Count(u) = 0 => u.sessions = 0
<1>1. PICK evs : evs = Events(lines)
  OBVIOUS
<1>2. evs \in Seq(Lines) /\ Len(evs) \in Nat
  BY <1>1, EventsType, LenProperties DEF UsageType
<1>3. PICK mine : mine = {inv \in Invocations(evs) : inv[2] = Skill}
  OBVIOUS
<1>. DEFINE Of(o) == {inv \in mine : classifyInvocation(evs, inv) = o}
            Sessions == {evs[inv[1]].session : inv \in mine}
<1>4. IsFiniteSet(mine)
  <2>0. 1 \in Int /\ Len(evs) \in Int
    BY <1>2
  <2>1. IsFiniteSet(1..Len(evs)) /\ IsFiniteSet({Skill})
    BY <2>0, FS_Interval, FS_Singleton
  <2>2. IsFiniteSet((1..Len(evs)) \X {Skill})
    BY <2>1, FS_Product
  <2>3. mine \in SUBSET ((1..Len(evs)) \X {Skill})
    <3>1. ASSUME NEW inv \in mine PROVE inv \in (1..Len(evs)) \X {Skill}
      <4>1. inv[1] \in 1..Len(evs) /\ inv = <<inv[1], inv[2]>> /\ inv[2] = Skill
        BY <1>2, <1>3, <3>1, InvocationsType
      <4>. QED BY <4>1
    <3>. QED BY <3>1
  <2>. QED BY <2>2, <2>3, FS_Subset
<1>5. ASSUME NEW o PROVE IsFiniteSet(Of(o)) /\ Cardinality(Of(o)) \in Nat
  <2>1. Of(o) \in SUBSET mine
    OBVIOUS
  <2>. QED BY <1>4, <2>1, FS_Subset, FS_CardinalityType
<1>6. IsFiniteSet(Sessions) /\ Cardinality(Sessions) \in Nat /\ (mine = {} => Sessions = {})
  <2>1. PICK f : f = [inv \in mine |-> evs[inv[1]].session]
    OBVIOUS
  <2>2. f \in [mine -> Sessions] /\ \A t \in Sessions : \E inv \in mine : f[inv] = t
    BY <2>1
  <2>3. f \in Surjection(mine, Sessions)
    BY <2>2 DEF Surjection
  <2>. HIDE DEF Sessions
  <2>4. IsFiniteSet(Sessions)
    BY <1>4, <2>3, FS_Surjection
  <2>. USE DEF Sessions
  <2>5. mine = {} => Sessions = {}
    OBVIOUS
  <2>. HIDE DEF Sessions
  <2>. QED BY <2>4, <2>5, FS_CardinalityType
<1>7. \A inv \in mine : inv \in Of("completed") \cup Of("abandoned") \cup Of("unknown")
  <2>. SUFFICES ASSUME NEW inv \in mine
                PROVE  classifyInvocation(evs, inv) \in {"completed", "abandoned", "unknown"}
    OBVIOUS
  <2>1. inv[1] \in 1..Len(evs)
    BY <1>2, <1>3, InvocationsType
  <2>. QED BY <1>2, <2>1, ClassifiedAsDefined DEF OutcomeOf
<1>8. PICK c \in Nat, a \in Nat, k \in Nat, n \in Nat :
        /\ c = Cardinality(Of("completed")) /\ a = Cardinality(Of("abandoned"))
        /\ k = Cardinality(Of("unknown")) /\ n = Cardinality(Sessions)
  BY <1>5, <1>6
<1>9. u =
        [age |-> age, completed |-> past.completed + c, abandoned |-> past.abandoned + a,
         unknown |-> past.unknown + k, sessions |-> past.sessions + n]
  BY <1>1, <1>3, <1>8 DEF Usage
<1>10. c = 0 /\ a = 0 /\ k = 0 => n = 0
  <2>1. \A o : Cardinality(Of(o)) = 0 => Of(o) = {}
    BY <1>5, FS_EmptySet
  <2>2. c = 0 /\ a = 0 /\ k = 0 => mine = {}
    BY <1>7, <1>8, <2>1
  <2>. QED BY <1>6, <1>8, <2>2, FS_EmptySet
<1>11. /\ past.completed \in Nat /\ past.abandoned \in Nat /\ past.unknown \in Nat /\ past.sessions \in Nat
       /\ past.sessions # 0 => past.completed + past.abandoned + past.unknown # 0
  BY ReportAssumption DEF UsageType
<1>. HIDE DEF Of, Sessions
<1>12. PICK pc \in Nat, pa \in Nat, pu \in Nat, ps \in Nat :
         /\ past.completed = pc /\ past.abandoned = pa /\ past.unknown = pu /\ past.sessions = ps
         /\ ps # 0 => pc + pa + pu # 0
  BY <1>11
<1>13. /\ u.completed = past.completed + c /\ u.abandoned = past.abandoned + a
       /\ u.unknown = past.unknown + k /\ u.sessions = past.sessions + n /\ u.age = age
  BY <1>9
<1>14. /\ u.completed \in Nat /\ u.abandoned \in Nat /\ u.unknown \in Nat /\ u.sessions \in Nat
  BY <1>8, <1>11, <1>13
<1>15. ASSUME Count(u) = 0 PROVE u.sessions = 0
  <2>1. u.completed + u.abandoned + u.unknown = 0
    BY <1>15 DEF Count
  <2>2. (pc + c) + (pa + a) + (pu + k) = 0
    BY <1>13, <1>12, <2>1
  <2>3. pc = 0 /\ c = 0 /\ pa = 0 /\ a = 0 /\ pu = 0 /\ k = 0
    BY <2>2
  <2>4. n = 0 /\ ps = 0
    BY <1>10, <1>12, <2>3
  <2>5. u.sessions = ps + n
    BY <1>13, <1>12
  <2>. QED BY <2>4, <2>5
<1>. QED BY <1>13, <1>14, <1>15

(* The weekly report and the suggestions of one sweep contradict each other *)
(* in one case only, for any transcripts, rules and ages: what was never    *)
(* used is dropped or undecided, and what is kept although it is suggested  *)
(* as abandoned is kept by a rule without a completion rate, such as that   *)
(* of verification-before-completion.                                       *)
THEOREM OnlyContradiction == Spec => []OneContradiction
<1>1. ASSUME UsageType, NEW rule \in Rules, NEW age \in Ages, NEW u, NEW verdict,
             u = Usage(lines, age), verdict = deriveVerdict(u, rule)
      PROVE  /\ NeverUsed(u, rule.measureOnly) =>
                   verdict = IF rule.dropBelow # 0 THEN "DROP" ELSE "UNDECIDED"
             /\ verdict = "KEEP" /\ Abandoned(u, MinInvocations) => rule.minCompletion = 0
  <2>1. /\ u.completed \in Nat /\ u.abandoned \in Nat /\ u.unknown \in Nat /\ u.sessions \in Nat
        /\ u.age = age /\ (Count(u) = 0 => u.sessions = 0)
    BY <1>1, UsageCounts
  <2>2. /\ rule.measureOnly \in BOOLEAN /\ rule.minSessions \in Nat /\ rule.minInvocations \in Nat
        /\ rule.minCompletion \in {0} \cup 51..100 /\ rule.dropBelow \in Nat /\ age \in Nat
    BY ReportAssumption
  <2>3. ASSUME NeverUsed(u, rule.measureOnly)
        PROVE  verdict = IF rule.dropBelow # 0 THEN "DROP" ELSE "UNDECIDED"
    <3>1. Count(u) = 0 /\ u.sessions = 0 /\ ~rule.measureOnly /\ u.age >= GraceDays
      BY <2>1, <2>3 DEF NeverUsed, Count
    <3>2. Drops(u, rule) <=> rule.dropBelow # 0
      BY <2>2, <3>1 DEF Drops
    <3>3. ~Keeps(u, rule)
      BY <2>2, <3>1 DEF Keeps
    <3>. QED BY <1>1, <3>1, <3>2, <3>3 DEF deriveVerdict
  <2>4. ASSUME verdict = "KEEP", rule.minCompletion # 0 PROVE ~Abandoned(u, MinInvocations)
    <3>1. Keeps(u, rule)
      BY <1>1, <2>4 DEF deriveVerdict
    <3>2. rule.minCompletion \in 51..100 /\ Completes(u, rule.minCompletion)
      BY <2>2, <2>4, <3>1 DEF Keeps
    <3>3. u.completed + u.abandoned > 0 /\ 100 * u.completed >= rule.minCompletion * (u.completed + u.abandoned)
      BY <2>1, <2>4, <3>2 DEF Completes
    <3>4. 2 * u.abandoned < u.completed + u.abandoned
      BY <2>1, <3>2, <3>3, MoreThanHalf
    <3>. QED BY <2>1, <3>4 DEF Abandoned
  <2>. QED BY <2>3, <2>4
<1>2. UsageType => OneContradiction
  BY <1>1 DEF OneContradiction
<1>. QED BY <1>2, UsageTypes, PTL
=============================================================================
