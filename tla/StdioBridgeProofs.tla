-------------------------- MODULE StdioBridgeProofs --------------------------
(***************************************************************************)
(* Proofs about StdioBridge for any calls, servers, sizes and bounds.      *)
(***************************************************************************)
EXTENDS StdioBridge, TLAPS

USE DEF Procs, TypeOK

(* The shapes that Settle and the reject helpers give to the variables.     *)
LEMMA SettleType ==
  ASSUME CallType, NEW S, NEW why \in Outcomes, Settle(S, why)
  PROVE  /\ outcome' \in [Calls -> Outcomes]
         /\ settles' \in [Calls -> Nat]
         /\ armed' \in SUBSET Calls
BY DEF CallType, Settle

(* The same for the two helpers that reject pending calls. *)
LEMMA RejectType ==
  ASSUME TypeOK, NEW p \in Procs, NEW why \in Outcomes,
         rejectAllPending(p, why) \/ rejectOldestPending(p)
  PROVE  /\ pending' \in [Procs -> SUBSET Calls]
         /\ outcome' \in [Calls -> Outcomes]
         /\ settles' \in [Calls -> Nat]
         /\ armed' \in SUBSET Calls
<1>1. \/ Settle(pending[p], why)
      \/ Settle(Oldest(p), "size") /\ "size" \in Outcomes
  BY DEF rejectAllPending, rejectOldestPending, Outcomes
<1>2. pending' \in [Procs -> SUBSET Calls]
  BY DEF rejectAllPending, rejectOldestPending, ManagedType
<1>. QED BY <1>1, <1>2, SettleType

(* Taking the next line of a chunk keeps the pipe well typed. *)
LEMMA LineType ==
  ASSUME ChildType, NextLine
  PROVE  /\ handler \in Procs
         /\ line \in Line
         /\ lines' \in Seq(Line)
BY DEF ChildType, NextLine, line

(* Type correctness is inductive. *)
LEMMA TypeInit == Init => TypeOK
BY BridgeAssumption DEF Init, ManagedType, CallType, ChildType, Outcomes

(* TypeOK is kept by the ways a call can start. *)
LEMMA TypeCall ==
  ASSUME TypeOK, Call
  PROVE  TypeOK'
<1> PICK c \in Calls, s \in Servers :
      CallBroken(c, s) \/ CallReuse(c, s) \/ CallNoStdin(c, s) \/ CallSpawn(c, s)
  BY DEF Call
<1>1. CASE CallBroken(c, s)
  <2> USE <1>1 DEF CallBroken
  <2>1. ManagedType'
    BY DEF ManagedType, managedVars, mapVars, stopVars
  <2>2. CallType'
    BY DEF CallType, callVars, Outcomes
  <2>3. ChildType'
    BY DEF ChildType, loopVars, procVars, pipeVars
  <2>. QED BY <2>1, <2>2, <2>3
<1>2. CASE CallReuse(c, s)
  <2> USE <1>2 DEF CallReuse, TakeId
  <2>0. cur[s] \in Procs
    BY DEF Reusable, ManagedType
  <2>1. ManagedType'
    BY <2>0 DEF ManagedType, mapVars, stopVars
  <2>2. CallType'
    BY <2>0 DEF CallType, ManagedType, Outcomes
  <2>3. ChildType'
    BY <2>0 DEF ChildType, loopVars, procVars
  <2>. QED BY <2>1, <2>2, <2>3
<1>3. CASE CallNoStdin(c, s)
  <2> USE <1>3 DEF CallNoStdin, TakeId
  <2>0. cur[s] \in Procs
    BY DEF Reusable, ManagedType
  <2>1. ManagedType'
    BY <2>0 DEF ManagedType, mapVars, stopVars
  <2>2. CallType'
    BY <2>0 DEF CallType, ManagedType, Outcomes
  <2>3. ChildType'
    BY <2>0 DEF ChildType, loopVars, procVars, pipeVars
  <2>. QED BY <2>1, <2>2, <2>3
<1>4. CASE CallSpawn(c, s)
  <2> DEFINE p == spawned + 1
             stale == IF cur[s] = 0 THEN {} ELSE pending[cur[s]]
  <2>0. p \in Procs
    BY <1>4 DEF CallSpawn
  <2>1. ManagedType'
    <3>1. pending' = [q \in Procs |-> IF q = p THEN {c}
                                      ELSE IF q = cur[s] THEN {} ELSE pending[q]]
      BY <1>4 DEF CallSpawn
    <3>2. pending' \in [Procs -> SUBSET Calls]
      BY <3>1 DEF ManagedType
    <3>a. /\ nextId' = [nextId EXCEPT ![p] = nextId[p] + 1]
          /\ cur' = [cur EXCEPT ![s] = p]
          /\ spawned' = p
      BY <1>4 DEF CallSpawn, TakeId
    <3>3. /\ nextId' \in [Procs -> Nat]
          /\ cur' \in [Servers -> 0..MaxProcs]
          /\ spawned' \in 0..MaxProcs
      BY <2>0, <3>a, BridgeAssumption DEF ManagedType
    <3>. QED
      BY <1>4, <3>2, <3>3 DEF CallSpawn, ManagedType, stopVars
  <2>2. CallType'
    <3>a. owner' = [owner EXCEPT ![c] = p] /\ id' = [id EXCEPT ![c] = nextId[p]]
      BY <1>4 DEF CallSpawn, TakeId
    <3>1. owner' \in [Calls -> 0..MaxProcs] /\ id' \in [Calls -> Nat]
      BY <2>0, <3>a, BridgeAssumption DEF ManagedType, CallType
    <3>2. outcome' = [d \in Calls |-> IF d = c THEN "waiting"
                        ELSE IF d \in stale /\ outcome[d] = "waiting"
                        THEN "restart" ELSE outcome[d]]
      BY <1>4 DEF CallSpawn
    <3>3. settles' = [d \in Calls |-> IF d \in stale THEN settles[d] + 1 ELSE settles[d]]
      BY <1>4 DEF CallSpawn
    <3>4. armed' = (armed \ stale) \cup {c}
      BY <1>4 DEF CallSpawn
    <3>5. got' = got
      BY <1>4 DEF CallSpawn, TakeId
    <3> HIDE DEF stale
    <3>. QED
      BY <3>1, <3>2, <3>3, <3>4, <3>5 DEF CallType, Outcomes
  <2>3. ChildType'
    BY <1>4, <2>0 DEF CallSpawn, ChildType, loopVars, procVars
  <2>. QED BY <2>1, <2>2, <2>3
<1>. QED BY <1>1, <1>2, <1>3, <1>4

(* TypeOK is kept by the request timer and the timers of shutdownOne. *)
LEMMA TypeTimers ==
  ASSUME TypeOK, Timers
  PROVE  TypeOK'
<1>1. ASSUME NEW c \in Calls, TimeoutFires(c) PROVE TypeOK'
  <2>1. ManagedType'
    BY <1>1 DEF TimeoutFires, ManagedType, managedVars, mapVars, stopVars
  <2>2. CallType'
    BY <1>1, SettleType DEF TimeoutFires, CallType, callVars, Outcomes
  <2>3. ChildType'
    BY <1>1 DEF TimeoutFires, ChildType, loopVars, procVars, pipeVars
  <2>. QED BY <2>1, <2>2, <2>3
<1>2. ASSUME NEW p \in Procs, GraceExpires(p) PROVE TypeOK'
  BY <1>2 DEF GraceExpires, ManagedType, CallType, ChildType, managedVars, loopVars,
     settleVars, callVars, mapVars, pipeVars
<1>3. ASSUME NEW p \in Procs, CeilingExpires(p) PROVE TypeOK'
  <2>1. ManagedType'
    BY <1>3, BridgeAssumption DEF CeilingExpires, Settled, ManagedType, managedVars
  <2>2. CallType' /\ ChildType'
    BY <1>3 DEF CeilingExpires, CallType, ChildType, loopVars, settleVars, callVars,
       procVars, pipeVars
  <2>. QED BY <2>1, <2>2
<1>. QED BY <1>1, <1>2, <1>3 DEF Timers

(* TypeOK is kept by the line loop of the "data" listener. *)
LEMMA TypeLoop ==
  ASSUME TypeOK, HandleLine \/ EndChunk
  PROVE  TypeOK'
<1>1. CASE SkipBlank
  BY <1>1, LineType DEF SkipBlank, ManagedType, CallType, ChildType, managedVars,
     settleVars, callVars, procVars, mapVars, stopVars, pipeVars
<1>2. CASE HandleOversized
  <2>0. NextLine /\ rejectOldestPending(handler)
    BY <1>2 DEF HandleOversized
  <2>a. /\ pending' \in [Procs -> SUBSET Calls]
        /\ outcome' \in [Calls -> Outcomes]
        /\ settles' \in [Calls -> Nat]
        /\ armed' \in SUBSET Calls
    BY <2>0, LineType, RejectType DEF Outcomes
  <2>1. ManagedType'
    BY <1>2, <2>a DEF HandleOversized, ManagedType, managedVars, mapVars, stopVars
  <2>2. CallType'
    BY <1>2, <2>a DEF HandleOversized, CallType, callVars
  <2>3. ChildType'
    BY <1>2, <2>0, LineType DEF HandleOversized, ChildType, procVars, pipeVars
  <2>. QED BY <2>1, <2>2, <2>3
<1>3. CASE HandleNonJson
  <2>0. NextLine
    BY <1>3 DEF HandleNonJson
  <2>a. /\ pending' \in [Procs -> SUBSET Calls]
        /\ outcome' \in [Calls -> Outcomes]
        /\ settles' \in [Calls -> Nat]
        /\ armed' \in SUBSET Calls
    <3>1. CASE TripsFailFast(handler)
      BY <1>3, <2>0, <3>1, LineType, RejectType DEF HandleNonJson, Outcomes
    <3>2. CASE ~TripsFailFast(handler)
      BY <1>3, <3>2 DEF HandleNonJson, ManagedType, CallType, settleVars
    <3>. QED BY <3>1, <3>2
  <2>b. broken' \in [Procs -> BOOLEAN]
    BY <1>3 DEF HandleNonJson, ManagedType
  <2>1. ManagedType'
    BY <1>3, <2>0, <2>a, <2>b, LineType DEF HandleNonJson, ManagedType, mapVars, stopVars
  <2>2. CallType'
    BY <1>3, <2>a DEF HandleNonJson, CallType, callVars
  <2>3. ChildType'
    BY <1>3, <2>0, LineType DEF HandleNonJson, ChildType, pipeVars
  <2>. QED BY <2>1, <2>2, <2>3
<1>4. CASE HandleJson
  <2>0. NextLine
    BY <1>4 DEF HandleJson
  <2>1. ManagedType'
    BY <1>4, <2>0 DEF HandleJson, ManagedType, mapVars, stopVars
  <2>2. CallType'
    <3>1. line.to \in Calls \cup {NoCall}
      BY <2>0, LineType DEF Line
    <3>2. got' \in [Calls -> Calls \cup {NoCall}]
      BY <1>4, <3>1 DEF HandleJson, CallType
    <3>3. PICK why \in Outcomes : Settle(Addressee(handler, line), why)
      BY <1>4 DEF HandleJson, Outcomes
    <3>. QED
      BY <1>4, <3>2, <3>3, SettleType DEF HandleJson, CallType
  <2>3. ChildType'
    BY <1>4, <2>0, LineType DEF HandleJson, ChildType, procVars, pipeVars
  <2>. QED BY <2>1, <2>2, <2>3
<1>5. CASE EndChunk
  <2>0. handler \in Procs
    BY <1>5 DEF EndChunk, ChildType
  <2>a. /\ pending' \in [Procs -> SUBSET Calls]
        /\ outcome' \in [Calls -> Outcomes]
        /\ settles' \in [Calls -> Nat]
        /\ armed' \in SUBSET Calls
    <3>1. CASE OverCap(buffer[handler])
      BY <1>5, <2>0, <3>1, RejectType DEF EndChunk, Outcomes
    <3>2. CASE ~OverCap(buffer[handler])
      BY <1>5, <3>2 DEF EndChunk, ManagedType, CallType, settleVars
    <3>. QED BY <3>1, <3>2
  <2>b. buffer' \in [Procs -> Nat] /\ discarding' \in [Procs -> BOOLEAN]
    <3>1. \/ /\ buffer' = [buffer EXCEPT ![handler] = 0]
             /\ discarding' = [discarding EXCEPT ![handler] = TRUE]
          \/ UNCHANGED <<buffer, discarding>>
      BY <1>5 DEF EndChunk
    <3>2. buffer' \in [Procs -> Nat]
      BY <3>1 DEF ManagedType
    <3>3. discarding' \in [Procs -> BOOLEAN]
      BY <3>1 DEF ManagedType
    <3>. QED BY <3>2, <3>3
  <2>1. ManagedType'
    BY <1>5, <2>a, <2>b DEF EndChunk, ManagedType, mapVars, stopVars
  <2>2. CallType'
    BY <1>5, <2>a DEF EndChunk, CallType, callVars
  <2>3. ChildType'
    <3>1. handler' = 0 /\ UNCHANGED <<lines, procVars, pipeVars>>
      BY <1>5 DEF EndChunk
    <3>2. 0 \in 0..MaxProcs
      BY BridgeAssumption
    <3>. QED
      BY <3>1, <3>2 DEF ChildType, procVars, pipeVars
  <2>. QED BY <2>1, <2>2, <2>3
<1>. QED BY <1>1, <1>2, <1>3, <1>4, <1>5 DEF HandleLine

(* TypeOK is kept by a chunk that reaches the "data" listener. *)
LEMMA TypeData ==
  ASSUME TypeOK, PartFits, NEW p \in Procs, Data(p)
  PROVE  TypeOK'
<1>1. ASSUME NEW k \in Bytes(p, 0), DiscardChunk(p, k) PROVE TypeOK'
  <2>1. k \in Nat
    BY <1>1 DEF Bytes
  <2>. QED
    BY <1>1, <2>1 DEF DiscardChunk, ManagedType, CallType, ChildType, managedVars,
       loopVars, settleVars, callVars, procVars, mapVars, stopVars
<1>2. ASSUME NEW j \in 0..Len(out[p]), NEW k \in Bytes(p, j), ReceiveChunk(p, j, k)
      PROVE  TypeOK'
  <2>0. k \in Nat
    BY <1>2 DEF Bytes
  <2>1. out[p] \in Seq(Line) /\ buffer[p] \in Nat /\ part[p] \in Bytes(p, 0)
    BY DEF ManagedType, ChildType, PartFits
  <2>2. lines' \in Seq(Line)
    <3>1. CASE j = 0
      BY <1>2, <3>1 DEF ReceiveChunk
    <3>2. CASE j # 0 /\ discarding[p]
      BY <1>2, <2>1, <3>2 DEF ReceiveChunk
    <3>3. CASE j # 0 /\ ~discarding[p]
      <4> DEFINE n == buffer[p] + (out[p][1].size - part[p])
                 first == [out[p][1] EXCEPT !.size = n]
      <4>0. Len(out[p]) > 0
        BY <1>2, <2>1, <3>3
      <4>1. out[p][1] \in Line /\ part[p] <= out[p][1].size
        <5>1. out[p][1] \in Line
          BY <2>1, <4>0
        <5>. QED
          BY <2>1, <4>0, <5>1 DEF Bytes
      <4>2. n \in Nat
        <5>1. out[p][1].size \in Nat /\ part[p] \in Nat
          BY <4>1 DEF Line, ChildType
        <5>. QED
          BY <2>1, <4>1, <5>1
      <4> HIDE DEF n
      <4>3. first \in Line
        BY <4>1, <4>2 DEF Line
      <4> HIDE DEF first
      <4>4. lines' = [i \in 1..j |-> IF i = 1 THEN first ELSE out[p][i]]
        BY <1>2, <3>3 DEF ReceiveChunk, first, n
      <4>5. \A i \in 1..j : out[p][i] \in Line
        BY <2>1
      <4>. QED
        BY <4>3, <4>4, <4>5
    <3>. QED BY <3>1, <3>2, <3>3
  <2>3. buffer' \in [Procs -> Nat]
    <3>1. CASE j = 0
      <4>1. buffer[p] + (k - part[p]) \in Nat
        BY <1>2, <2>0, <2>1, <3>1 DEF ReceiveChunk, ChunkEnd, Bytes
      <4>. QED
        BY <1>2, <3>1, <4>1 DEF ReceiveChunk, Leftover, ManagedType
    <3>2. CASE j # 0
      BY <1>2, <2>0, <3>2 DEF ReceiveChunk, Leftover, ManagedType
    <3>. QED BY <3>1, <3>2
  <2>4. out' \in [Procs -> Seq(Line)] /\ part' \in [Procs -> Nat]
    BY <1>2, <2>0, <2>1 DEF ReceiveChunk, ChildType
  <2>6. ManagedType'
    BY <1>2, <2>3 DEF ReceiveChunk, ManagedType, mapVars, stopVars
  <2>7. CallType'
    BY <1>2 DEF ReceiveChunk, CallType, callVars, settleVars
  <2>8. handler' \in 0..MaxProcs
    BY <1>2, BridgeAssumption DEF ReceiveChunk
  <2>9. ChildType'
    BY <1>2, <2>2, <2>4, <2>8 DEF ReceiveChunk, ChildType, procVars
  <2>. QED BY <2>6, <2>7, <2>9
<1>. QED BY <1>1, <1>2 DEF Data

(* TypeOK is kept by what a child process does. *)
LEMMA TypeChild ==
  ASSUME TypeOK, NEW p \in Procs, Child(p)
  PROVE  TypeOK'
<1>1. ASSUME NEW l \in Line, Write(p, l)
      PROVE  out' \in [Procs -> Seq(Line)] /\ bigLines' \in [Procs -> Nat]
  <2>1. out' \in [Procs -> Seq(Line)]
    <3>1. out \in [Procs -> Seq(Line)] /\ out' = [out EXCEPT ![p] = Append(out[p], l)]
      BY <1>1 DEF Write, ChildType
    <3>2. Append(out[p], l) \in Seq(Line)
      BY <1>1, <3>1
    <3>. QED BY <3>1, <3>2
  <2>2. \/ bigLines' = [bigLines EXCEPT ![p] = bigLines[p] + 1]
        \/ bigLines' = [bigLines EXCEPT ![p] = bigLines[p]]
    BY <1>1 DEF Write
  <2>3. bigLines \in [Procs -> Nat] /\ bigLines[p] \in Nat /\ bigLines[p] + 1 \in Nat
    BY DEF ChildType
  <2>. QED
    BY <2>1, <2>2, <2>3
<1>2. ASSUME NEW c \in Calls, NEW kind \in Answers, NEW size \in Sizes,
             Answer(p, c, kind, size)
      PROVE  TypeOK'
  <2> DEFINE l == [kind |-> kind, id |-> id[c], to |-> c, size |-> size]
  <2>1. l \in Line
    BY BridgeAssumption DEF Line, Kinds, CallType
  <2>2. Write(p, l)
    BY <1>2 DEF Answer
  <2>3. ManagedType' /\ CallType'
    BY <1>2 DEF Answer, ManagedType, CallType, managedVars, settleVars, callVars,
       mapVars, stopVars
  <2>4. ChildType'
    BY <1>1, <1>2, <2>1, <2>2 DEF Answer, ChildType, loopVars, procVars
  <2>. QED BY <2>3, <2>4
<1>3. ASSUME NEW kind \in ChatterKinds, NEW size \in ChatterSizes,
             kind \in Kinds, Chatter(p, kind, size)
      PROVE  TypeOK'
  <2> DEFINE l == [kind |-> kind, id |-> IF kind = "request" THEN chatter'[p] ELSE 0,
                   to |-> NoCall, size |-> size]
  <2>0. chatter' \in [Procs -> Nat]
    BY <1>3 DEF Chatter, ChildType
  <2>1. l \in Line
    BY <1>3, <2>0, BridgeAssumption DEF Line
  <2>2. Write(p, l)
    BY <1>3 DEF Chatter
  <2>3. ManagedType' /\ CallType'
    BY <1>3 DEF Chatter, ManagedType, CallType, managedVars, settleVars, callVars,
       mapVars, stopVars
  <2>4. ChildType'
    BY <1>1, <1>3, <2>0, <2>1, <2>2 DEF Chatter, ChildType, loopVars, procVars
  <2>. QED BY <2>3, <2>4
<1>4. ASSUME NEW how \in {"code", "signal"}, Exits(p, how) PROVE TypeOK'
  <2>0. /\ pending' \in [Procs -> SUBSET Calls]
        /\ outcome' \in [Calls -> Outcomes]
        /\ settles' \in [Calls -> Nat]
        /\ armed' \in SUBSET Calls
    BY <1>4, RejectType DEF Exits, Outcomes
  <2>1. phase' \in {"running", "stopping", "cleared"} /\ cur' \in [Servers -> 0..MaxProcs]
    BY <1>4, BridgeAssumption DEF Exits, Settled, ManagedType
  <2>2. ManagedType'
    BY <1>4, <2>0, <2>1 DEF Exits, ManagedType, managedVars
  <2>3. CallType'
    BY <1>4, <2>0 DEF Exits, CallType, callVars
  <2>4. ChildType'
    BY <1>4 DEF Exits, ChildType, loopVars, pipeVars
  <2>. QED BY <2>2, <2>3, <2>4
<1>5. CASE StdinError(p)
  <2>0. /\ pending' \in [Procs -> SUBSET Calls]
        /\ outcome' \in [Calls -> Outcomes]
        /\ settles' \in [Calls -> Nat]
        /\ armed' \in SUBSET Calls
    BY <1>5, RejectType DEF StdinError, Outcomes
  <2>2. ManagedType'
    BY <1>5, <2>0 DEF StdinError, ManagedType, managedVars, mapVars, stopVars
  <2>3. CallType'
    BY <1>5, <2>0 DEF StdinError, CallType, callVars
  <2>4. ChildType'
    BY <1>5 DEF StdinError, ChildType, loopVars, pipeVars
  <2>. QED BY <2>2, <2>3, <2>4
<1>. QED BY <1>2, <1>3, <1>4, <1>5, BridgeAssumption DEF Child, Kinds

(* TypeOK is kept by the start and the end of shutdown(). *)
LEMMA TypeShutdown ==
  ASSUME TypeOK, Shutdown
  PROVE  TypeOK'
<1>1. CallType'
  BY SettleType DEF Shutdown, CallType, callVars, Outcomes
<1>2. ManagedType'
  <2>1. phase' \in {"running", "stopping", "cleared"} /\ cur' \in [Servers -> 0..MaxProcs]
    BY BridgeAssumption DEF Shutdown, ManagedType
  <2>. QED
    BY <2>1 DEF Shutdown, ManagedType, managedVars
<1>3. ChildType'
  <2>1. signalled' \in [Procs -> BOOLEAN]
    BY DEF Shutdown, ChildType
  <2>. QED
    BY <2>1 DEF Shutdown, ChildType, loopVars, pipeVars
<1>. QED BY <1>1, <1>2, <1>3

(* Every step of the bridge keeps TypeOK, given that what is in the pipes   *)
(* fits the buffers (PartFits).                                             *)
THEOREM TypeNext ==
  ASSUME TypeOK, PartFits, [Next]_vars
  PROVE  TypeOK'
<1>1. CASE UNCHANGED vars
  BY <1>1 DEF vars, ManagedType, CallType, ChildType, managedVars, loopVars,
     settleVars, callVars, procVars, mapVars, stopVars, pipeVars
<1>2. CASE Next
  BY <1>2, TypeCall, TypeTimers, TypeLoop, TypeData, TypeChild, TypeShutdown DEF Next
<1>. QED BY <1>1, <1>2

-----------------------------------------------------------------------------
(* PartFits: only the "data" listener and the child's writes touch the pipe. *)
LEMMA PartKept ==
  ASSUME PartFits, UNCHANGED <<out, part>>
  PROVE  PartFits'
BY DEF PartFits, Bytes

(* PartFits is kept when a chunk arrives: the cut moves with it. *)
LEMMA PartData ==
  ASSUME TypeOK, PartFits, NEW p \in Procs, Data(p)
  PROVE  PartFits'
<1>1. ASSUME NEW k \in Bytes(p, 0), DiscardChunk(p, k) PROVE PartFits'
  BY <1>1 DEF DiscardChunk, PartFits, Bytes, ChildType
<1>2. ASSUME NEW j \in 0..Len(out[p]), NEW k \in Bytes(p, j), ReceiveChunk(p, j, k)
      PROVE  PartFits'
  <2>1. out'[p] = SubSeq(out[p], j + 1, Len(out[p])) /\ part'[p] = k
    BY <1>2 DEF ReceiveChunk, ChildType
  <2>2. Bytes(p, 0)' = Bytes(p, j)
    BY <1>2, <2>1 DEF Bytes, ChildType
  <2>3. \A q \in Procs \ {p} : out'[q] = out[q] /\ part'[q] = part[q]
    BY <1>2 DEF ReceiveChunk, ChildType
  <2>. QED
    BY <1>2, <2>1, <2>2, <2>3 DEF Bytes, PartFits
<1>. QED BY <1>1, <1>2 DEF Data

(* PartFits is kept when a child writes a line behind the others. *)
LEMMA PartWrite ==
  ASSUME TypeOK, PartFits, NEW p \in Procs, NEW l \in Line, Write(p, l), part' = part
  PROVE  PartFits'
<1>1. \A q \in Procs \ {p} : out'[q] = out[q]
  BY DEF Write, ChildType
<1>2. out'[p] = Append(out[p], l) /\ out[p] \in Seq(Line)
  BY DEF Write, ChildType
<1>3. part[p] \in Bytes(p, 0)
  BY DEF PartFits
<1>4. part[p] \in Bytes(p, 0)'
  <2>1. CASE out[p] = <<>>
    <3>1. part[p] = 0
      BY <1>3, <2>1 DEF Bytes
    <3>2. out'[p][1] = l /\ Len(out'[p]) = 1 /\ l.size \in Nat
      BY <1>2, <2>1 DEF Line
    <3>. QED
      BY <3>1, <3>2 DEF Bytes
  <2>2. CASE out[p] # <<>>
    <3>1. out'[p][1] = out[p][1] /\ Len(out'[p]) > 0 /\ Len(out[p]) > 0
      BY <1>2, <2>2
    <3>. QED
      BY <1>3, <3>1 DEF Bytes
  <2>. QED BY <2>1, <2>2
<1>. QED
  BY <1>1, <1>4 DEF PartFits, Bytes

-----------------------------------------------------------------------------
(* Every step that is not a call settles some set of waiting calls (none,   *)
(* mostly), for one reason, and leaves the numbering alone.                 *)
Reasons == Outcomes \ {"idle", "waiting"}
Settling(S, why) ==
  /\ S \in SUBSET Waiting /\ why \in Reasons
  /\ Settle(S, why)
  /\ pending' = [p \in Procs |-> pending[p] \ S]
  /\ UNCHANGED <<owner, id, nextId>>

(* A step that touches no call settles the empty set. *)
LEMMA QuietSettles ==
  ASSUME TypeOK, UNCHANGED <<settleVars, pending, owner, id, nextId>>
  PROVE  Settling({}, "exit")
BY DEF Settling, Settle, settleVars, ManagedType, CallType, Reasons, Outcomes

(* Settling some of the calls of one process, and dropping them from its    *)
(* pending map, is Settling.                                                *)
LEMMA PartOfPendingSettles ==
  ASSUME TypeOK, ExactlyOnce, NEW p \in Procs, NEW S \in SUBSET pending[p],
         NEW why \in Reasons, Settle(S, why),
         pending' = [pending EXCEPT ![p] = @ \ S], UNCHANGED <<owner, id, nextId>>
  PROVE  Settling(S, why)
<1>1. S \in SUBSET Waiting
  BY DEF ExactlyOnce
<1>2. \A q \in Procs : q # p => pending[q] \ S = pending[q]
  BY DEF ExactlyOnce
<1>3. pending' = [q \in Procs |-> pending[q] \ S]
  BY <1>2 DEF ManagedType
<1>. QED BY <1>1, <1>3 DEF Settling

(* rejectAllPending settles the calls of the process. *)
LEMMA RejectAllSettles ==
  ASSUME TypeOK, ExactlyOnce, NEW p \in Procs, NEW why \in Reasons,
         rejectAllPending(p, why), UNCHANGED <<owner, id, nextId>>
  PROVE  Settling(pending[p], why)
<1>1. pending' = [pending EXCEPT ![p] = @ \ pending[p]]
  BY DEF rejectAllPending, ManagedType
<1>. QED
  BY <1>1, PartOfPendingSettles DEF rejectAllPending

(* rejectOldestPending settles at most the oldest call of the process. *)
LEMMA RejectOldestSettles ==
  ASSUME TypeOK, ExactlyOnce, NEW p \in Procs,
         rejectOldestPending(p), UNCHANGED <<owner, id, nextId>>
  PROVE  Settling(Oldest(p), "size")
<1>1. Oldest(p) \in SUBSET pending[p]
  BY DEF Oldest
<1>. QED
  BY <1>1, PartOfPendingSettles DEF rejectOldestPending, Reasons, Outcomes

(* A JSON line settles the call it is addressed to, if any. *)
LEMMA JsonSettles ==
  ASSUME TypeOK, ExactlyOnce, HandleJson
  PROVE  \E why \in Reasons :
           /\ Settling(Addressee(handler, line), why)
           /\ why = IF line.kind = "error" THEN "error" ELSE "resolved"
<1>1. handler \in Procs
  BY LineType DEF HandleJson
<1>2. Addressee(handler, line) \in SUBSET pending[handler]
  BY DEF Addressee
<1>. QED
  BY <1>1, <1>2, PartOfPendingSettles DEF HandleJson, Reasons, Outcomes

(* Every step that is not a call is Settling. *)
LEMMA StepSettles ==
  ASSUME IInv, Next, ~Call
  PROVE  \E S \in SUBSET Waiting, why \in Reasons : Settling(S, why)
<1> USE DEF IInv
<1>0. ASSUME UNCHANGED <<settleVars, pending, owner, id, nextId>>
      PROVE  \E S \in SUBSET Waiting, why \in Reasons : Settling(S, why)
  BY <1>0, QuietSettles DEF Settling
<1>1. ASSUME NEW p \in Procs, Data(p)
      PROVE  UNCHANGED <<settleVars, pending, owner, id, nextId>>
  BY <1>1 DEF Data, DiscardChunk, ReceiveChunk, managedVars, callVars
<1>2. ASSUME NEW p \in Procs, Child(p)
      PROVE  \E S \in SUBSET Waiting, why \in Reasons : Settling(S, why)
  <2>1. CASE \/ \E c \in Calls, kind \in Answers, size \in Sizes : Answer(p, c, kind, size)
             \/ \E kind \in ChatterKinds, size \in ChatterSizes : Chatter(p, kind, size)
    BY <1>0, <2>1 DEF Answer, Chatter, managedVars, callVars
  <2>2. ASSUME NEW how \in {"code", "signal"}, Exits(p, how)
        PROVE  Settling(pending[p], "exit")
    BY <2>2, RejectAllSettles DEF Exits, managedVars, callVars, Reasons, Outcomes
  <2>3. CASE StdinError(p)
    BY <2>3, RejectAllSettles DEF StdinError, managedVars, callVars, Reasons, Outcomes,
       Settling
  <2>. QED BY <1>2, <2>1, <2>2, <2>3 DEF Child, Settling
<1>3. CASE HandleLine
  <2>1. CASE SkipBlank
    BY <1>0, <2>1 DEF SkipBlank, managedVars, callVars
  <2>2. CASE HandleOversized
    BY <2>2, LineType, RejectOldestSettles DEF HandleOversized, managedVars, callVars,
       Settling
  <2>3. CASE HandleNonJson
    <3>1. CASE TripsFailFast(handler)
      <4>1. handler \in Procs
        BY <2>3, LineType DEF HandleNonJson
      <4>2. Settling(pending[handler], "broken")
        BY <2>3, <3>1, <4>1, RejectAllSettles DEF HandleNonJson, callVars, Reasons,
           Outcomes
      <4>. QED BY <4>2 DEF Settling
    <3>2. CASE ~TripsFailFast(handler)
      BY <1>0, <2>3, <3>2 DEF HandleNonJson, callVars
    <3>. QED BY <3>1, <3>2
  <2>4. CASE HandleJson
    BY <2>4, JsonSettles DEF Settling
  <2>. QED BY <1>3, <2>1, <2>2, <2>3, <2>4 DEF HandleLine
<1>4. CASE EndChunk
  <2>1. handler \in Procs
    BY <1>4 DEF EndChunk, ChildType
  <2>2. CASE OverCap(buffer[handler])
    BY <1>4, <2>1, <2>2, RejectOldestSettles DEF EndChunk, callVars, Settling
  <2>3. CASE ~OverCap(buffer[handler])
    BY <1>0, <1>4, <2>3 DEF EndChunk, callVars
  <2>. QED BY <2>2, <2>3
<1>5. CASE Timers
  <2>1. ASSUME NEW c \in Calls, TimeoutFires(c)
        PROVE  Settling({c}, "timeout")
    <3>1. c \in Waiting /\ owner[c] \in Procs /\ c \in pending[owner[c]]
      BY <2>1 DEF TimeoutFires, ExactlyOnce, Waiting, RequestsKnown, CallType
    <3>. QED
      BY <2>1, <3>1, PartOfPendingSettles DEF TimeoutFires, managedVars, callVars,
         Reasons, Outcomes
  <2>2. ASSUME NEW p \in Procs, GraceExpires(p) \/ CeilingExpires(p)
        PROVE  UNCHANGED <<settleVars, pending, owner, id, nextId>>
    BY <2>2 DEF GraceExpires, CeilingExpires, managedVars, callVars
  <2>. QED BY <1>0, <1>5, <2>1, <2>2 DEF Timers, Settling
<1>6. CASE Shutdown
  <2> DEFINE lost == UNION {pending[p] : p \in Managed}
  <2>1. Managed \in SUBSET Procs
    BY DEF Managed, ManagedType
  <2>2. lost \in SUBSET Waiting
    BY <2>1 DEF ExactlyOnce
  <2>3. \A p \in Procs : pending[p] \ lost = IF p \in Managed THEN {} ELSE pending[p]
    BY <2>1 DEF ExactlyOnce
  <2>4. pending' = [p \in Procs |-> pending[p] \ lost]
    BY <1>6, <2>3 DEF Shutdown
  <2>5. Settling(lost, "shutdown")
    BY <1>6, <2>2, <2>4 DEF Settling, Shutdown, managedVars, callVars, Reasons, Outcomes
  <2>. QED BY <2>2, <2>5 DEF Settling
<1>. QED BY <1>0, <1>1, <1>2, <1>3, <1>4, <1>5, <1>6 DEF Next

-----------------------------------------------------------------------------
(* ExactlyOnce *)
LEMMA OnceSettling ==
  ASSUME TypeOK, ExactlyOnce, NEW S, NEW why, Settling(S, why)
  PROVE  ExactlyOnce' /\ Waiting' = Waiting \ S
<1>1. outcome' = [c \in Calls |-> IF c \in S THEN why ELSE outcome[c]]
  BY DEF Settling, Settle, Waiting
<1>2. Waiting' = Waiting \ S
  BY <1>1 DEF Waiting, Settling, Reasons
<1>3. armed' = Waiting'
  BY <1>2 DEF Settling, Settle, ExactlyOnce
<1>4. \A c \in Calls :
        settles'[c] = IF outcome'[c] \in {"idle", "waiting"} THEN 0 ELSE 1
  <2> SUFFICES ASSUME NEW c \in Calls
               PROVE settles'[c] = IF outcome'[c] \in {"idle", "waiting"} THEN 0 ELSE 1
    OBVIOUS
  <2>1. CASE c \in S
    <3>1. settles[c] = 0 /\ outcome'[c] = why
      BY <1>1, <2>1 DEF Settling, ExactlyOnce, Waiting
    <3>2. settles'[c] = settles[c] + 1
      BY <2>1 DEF Settling, Settle
    <3>. QED BY <3>1, <3>2 DEF Settling, Reasons
  <2>2. CASE c \notin S
    BY <1>1, <2>2 DEF Settling, Settle, ExactlyOnce
  <2>. QED BY <2>1, <2>2
<1>5. \A p \in Procs : pending'[p] = {c \in Waiting' : owner'[c] = p}
  BY <1>2 DEF Settling, ExactlyOnce
<1>. QED BY <1>2, <1>3, <1>4, <1>5 DEF ExactlyOnce

(* A call that fails at once: it was idle, and nothing else changes. *)
LEMMA OnceRefused ==
  ASSUME TypeOK, ExactlyOnce, NEW c \in Calls, outcome[c] = "idle",
         NEW why \in Reasons, outcome' = [outcome EXCEPT ![c] = why],
         settles' = [settles EXCEPT ![c] = @ + 1], UNCHANGED <<armed, pending>>,
         \A d \in Calls \ {c} : owner'[d] = owner[d]
  PROVE  ExactlyOnce'
<1>1. Waiting' = Waiting /\ c \notin Waiting
  BY DEF Waiting, CallType, Reasons
<1>2. \A d \in Calls :
        settles'[d] = IF outcome'[d] \in {"idle", "waiting"} THEN 0 ELSE 1
  <2>1. settles'[c] = 1 /\ outcome'[c] = why
    BY DEF ExactlyOnce, CallType
  <2>2. \A d \in Calls \ {c} : settles'[d] = settles[d] /\ outcome'[d] = outcome[d]
    BY DEF CallType
  <2>. QED BY <2>1, <2>2 DEF ExactlyOnce, Reasons
<1>3. \A p \in Procs : pending'[p] = {d \in Waiting' : owner'[d] = p}
  BY <1>1 DEF ExactlyOnce, Waiting
<1>. QED BY <1>1, <1>2, <1>3 DEF ExactlyOnce

(* A call that is sent: it joins the pending map of its process only. *)
LEMMA OnceSent ==
  ASSUME TypeOK, ExactlyOnce, NEW c \in Calls, outcome[c] = "idle", NEW p \in Procs,
         outcome' = [outcome EXCEPT ![c] = "waiting"], settles' = settles,
         armed' = armed \cup {c}, pending' = [pending EXCEPT ![p] = @ \cup {c}],
         owner' = [owner EXCEPT ![c] = p]
  PROVE  ExactlyOnce'
<1>1. Waiting' = Waiting \cup {c} /\ c \notin Waiting
  BY DEF Waiting, CallType
<1>2. \A d \in Calls :
        settles'[d] = IF outcome'[d] \in {"idle", "waiting"} THEN 0 ELSE 1
  BY DEF ExactlyOnce, CallType
<1>3. \A q \in Procs : pending'[q] = {d \in Waiting' : owner'[d] = q}
  <2>1. owner'[c] = p /\ \A d \in Waiting : owner'[d] = owner[d]
    BY <1>1 DEF CallType, Waiting
  <2>2. pending'[p] = pending[p] \cup {c}
    BY DEF ManagedType
  <2>3. \A q \in Procs \ {p} : pending'[q] = pending[q]
    BY DEF ManagedType
  <2>. QED BY <1>1, <2>1, <2>2, <2>3 DEF ExactlyOnce
<1>. QED BY <1>1, <1>2, <1>3 DEF ExactlyOnce

(* The restart path finds nothing to reject: the process it replaces exited  *)
(* with a code, so it lost its stdin and its calls; and the new number is    *)
(* nobody's yet.                                                             *)
LEMMA SpawnRejectsNobody ==
  ASSUME IInv, NEW c \in Calls, NEW s \in Servers, CallSpawn(c, s)
  PROVE  /\ spawned + 1 \in Procs
         /\ cur[s] # 0 => exit[cur[s]] = "code" /\ pending[cur[s]] = {}
         /\ pending[spawned + 1] = {}
         /\ outcome' = [outcome EXCEPT ![c] = "waiting"] /\ settles' = settles
         /\ armed' = armed \cup {c}
         /\ pending' = [pending EXCEPT ![spawned + 1] = @ \cup {c}]
         /\ owner' = [owner EXCEPT ![c] = spawned + 1]
         /\ id' = [id EXCEPT ![c] = nextId[spawned + 1]]
<1> DEFINE p == spawned + 1
           stale == IF cur[s] = 0 THEN {} ELSE pending[cur[s]]
<1>1. p \in Procs /\ spawned \in Nat
  BY BridgeAssumption DEF CallSpawn, IInv, ManagedType
<1>2. cur[s] # 0 => exit[cur[s]] = "code" /\ pending[cur[s]] = {}
  <2>1. cur[s] # 0 => cur[s] \in Procs
    BY DEF IInv, ManagedType
  <2>2. cur[s] # 0 => exit[cur[s]] = "code"
    BY DEF CallSpawn, Respawns
  <2>. QED BY <2>1, <2>2 DEF IInv, DeadHoldNothing
<1>3. stale = {}
  BY <1>2
<1>4. pending[p] = {}
  <2>1. \A d \in Calls : owner[d] \in Nat /\ owner[d] <= spawned
    BY DEF IInv, RequestsKnown, CallType
  <2>2. \A d \in Calls : owner[d] # p
    BY <1>1, <2>1
  <2>. QED BY <1>1, <2>2 DEF IInv, ExactlyOnce, Waiting
<1>5. outcome' = [d \in Calls |-> IF d = c THEN "waiting"
                    ELSE IF d \in stale /\ outcome[d] = "waiting"
                    THEN "restart" ELSE outcome[d]]
  BY DEF CallSpawn
<1>6. settles' = [d \in Calls |-> IF d \in stale THEN settles[d] + 1 ELSE settles[d]]
  BY DEF CallSpawn
<1>7. armed' = (armed \ stale) \cup {c}
  BY DEF CallSpawn
<1>8. pending' = [q \in Procs |-> IF q = p THEN {c}
                                  ELSE IF q = cur[s] THEN {} ELSE pending[q]]
  BY DEF CallSpawn
<1>9. owner' = [owner EXCEPT ![c] = p] /\ id' = [id EXCEPT ![c] = nextId[p]]
  BY DEF CallSpawn, TakeId
<1> HIDE DEF p, stale
<1>10. outcome' = [outcome EXCEPT ![c] = "waiting"] /\ settles' = settles
  BY <1>3, <1>5, <1>6 DEF IInv, CallType
<1>11. armed' = armed \cup {c}
  BY <1>3, <1>7
<1>12. pending' = [pending EXCEPT ![p] = @ \cup {c}]
  <2>1. \A q \in Procs : q = cur[s] => pending[q] = {}
    BY <1>2 DEF IInv, SpawnedInOrder
  <2>2. pending = [q \in Procs |-> pending[q]]
    BY DEF IInv, ManagedType
  <2>. QED BY <1>1, <1>4, <1>8, <2>1, <2>2
<1>. QED BY <1>1, <1>2, <1>4, <1>9, <1>10, <1>11, <1>12 DEF p

(* ExactlyOnce is kept by a call. *)
LEMMA OnceCall ==
  ASSUME IInv, Call
  PROVE  ExactlyOnce'
<1> PICK c \in Calls, s \in Servers :
      CallBroken(c, s) \/ CallReuse(c, s) \/ CallNoStdin(c, s) \/ CallSpawn(c, s)
  BY DEF Call
<1> USE DEF IInv
<1>1. CASE CallBroken(c, s)
  BY <1>1, OnceRefused DEF CallBroken, MayCall, callVars, Reasons, Outcomes
<1>2. CASE CallReuse(c, s)
  <2>1. cur[s] \in Procs
    BY <1>2 DEF CallReuse, Reusable, ManagedType
  <2>. QED
    BY <1>2, <2>1, OnceSent DEF CallReuse, TakeId, MayCall
<1>3. CASE CallNoStdin(c, s)
  <2>1. \A d \in Calls \ {c} : owner'[d] = owner[d]
    BY <1>3 DEF CallNoStdin, TakeId, CallType
  <2>. QED
    BY <1>3, <2>1, OnceRefused DEF CallNoStdin, MayCall, Reasons, Outcomes
<1>4. CASE CallSpawn(c, s)
  <2>1. outcome[c] = "idle"
    BY <1>4 DEF CallSpawn, MayCall
  <2>. QED
    BY <1>4, <2>1, OnceSent, SpawnRejectsNobody
<1>. QED BY <1>1, <1>2, <1>3, <1>4

(* ExactlyOnce is kept by every step: each call is settled at most once, and *)
(* is in the one pending map of its process until then.                     *)
LEMMA OnceNext ==
  ASSUME IInv, Next
  PROVE  ExactlyOnce'
BY StepSettles, OnceSettling, OnceCall DEF IInv

-----------------------------------------------------------------------------
(* What a step that is not a call may do to the process table: nothing is    *)
(* spawned, and whoever loses its stdin, dies or is declared broken loses    *)
(* its calls in the same step.                                               *)
Table ==
  /\ spawned' = spawned
  /\ phase = "cleared" => phase' = "cleared"
  /\ cur' = cur \/ (phase' = "cleared" /\ \A s \in Servers : cur'[s] = 0)
  /\ handler' = handler \/ handler' <= spawned
Processes ==
  \A p \in Procs :
    /\ inbox'[p] \subseteq inbox[p]
    /\ sawJson[p] => sawJson'[p]
    /\ \/ exit'[p] = exit[p]
       \/ exit[p] = "running" /\ p <= spawned /\ ~stdinOpen'[p]
    /\ \/ stdinOpen'[p] = stdinOpen[p]
       \/ p <= spawned /\ ~stdinOpen'[p] /\ pending'[p] = {}
    /\ \/ broken'[p] = broken[p]
       \/ p <= spawned /\ ~sawJson[p] /\ pending'[p] = {} /\ outcome' =
            [c \in Calls |-> IF c \in pending[p] THEN "broken" ELSE outcome[c]]
Answered ==
  \A c \in Calls : outcome[c] = "waiting" /\ outcome'[c] \in {"resolved", "error"}
                     => sawJson'[owner[c]]
Frame == Table /\ Processes /\ Answered

(* A step that leaves the process table alone is within the frame. *)
LEMMA FrameQuiet ==
  ASSUME UNCHANGED <<spawned, phase, cur, inbox, exit, stdinOpen, broken, pending>>,
         handler' = handler \/ handler' <= spawned,
         \A p \in Procs : sawJson[p] => sawJson'[p],
         \A c \in Calls : outcome[c] = "waiting" => outcome'[c] \notin {"resolved", "error"}
  PROVE  Frame
BY DEF Frame, Table, Processes, Answered

(* Steps that settle nothing, or settle without an answer. *)
LEMMA FrameTimers ==
  ASSUME IInv, Timers
  PROVE  Frame
<1>1. ASSUME NEW c \in Calls, TimeoutFires(c) PROVE Frame
  <2>1. \A p \in Procs : pending'[p] \subseteq pending[p]
    BY <1>1 DEF TimeoutFires, IInv, ManagedType
  <2>2. \A d \in Calls : outcome[d] = "waiting" => outcome'[d] \notin {"resolved", "error"}
    BY <1>1 DEF TimeoutFires, Settle
  <2>. QED
    BY <1>1, <2>2 DEF TimeoutFires, Frame, Table, Processes, Answered, managedVars,
       loopVars, procVars, mapVars, stopVars, pipeVars
<1>2. ASSUME NEW p \in Procs, GraceExpires(p) PROVE Frame
  BY <1>2, FrameQuiet DEF GraceExpires, managedVars, loopVars, settleVars, mapVars, pipeVars
<1>3. ASSUME NEW p \in Procs, CeilingExpires(p) PROVE Frame
  <2>1. Table
    BY <1>3 DEF CeilingExpires, Settled, Table, loopVars
  <2>. QED
    BY <1>3, <2>1 DEF CeilingExpires, Frame, Processes, Answered, managedVars,
       settleVars, procVars, pipeVars
<1>. QED BY <1>1, <1>2, <1>3 DEF Timers

(* Shutdown is within the frame. *)
LEMMA FrameShutdown ==
  ASSUME IInv, Shutdown
  PROVE  Frame
<1>1. Table
  BY DEF Shutdown, Table, loopVars
<1>2. Processes
  BY DEF Shutdown, Processes, managedVars, pipeVars
<1>3. Answered
  BY DEF Shutdown, Settle, Answered
<1>. QED BY <1>1, <1>2, <1>3 DEF Frame

(* What a child does is within the frame: it exits once, and takes its      *)
(* stdin and its pending calls with it.                                     *)
LEMMA FrameChild ==
  ASSUME IInv, NEW p \in Procs, Child(p)
  PROVE  Frame
<1>1. ASSUME NEW c \in Calls, NEW kind \in Answers, NEW size \in Sizes,
             Answer(p, c, kind, size)
      PROVE  Frame
  <2>1. \A q \in Procs : inbox'[q] \subseteq inbox[q]
    BY <1>1 DEF Answer, IInv, ChildType
  <2>. QED
    BY <1>1, <2>1 DEF Answer, Frame, Table, Processes, Answered, managedVars, loopVars,
       settleVars, procVars, mapVars, stopVars
<1>2. ASSUME NEW kind \in ChatterKinds, NEW size \in ChatterSizes, Chatter(p, kind, size)
      PROVE  Frame
  BY <1>2, FrameQuiet DEF Chatter, managedVars, loopVars, settleVars, procVars, mapVars,
     stopVars
<1>3. ASSUME NEW how \in {"code", "signal"}, Exits(p, how)
      PROVE  Frame
  <2>1. Table
    BY <1>3 DEF Exits, Settled, Table, loopVars
  <2>2. Processes
    <3>1. pending'[p] = {} /\ ~stdinOpen'[p] /\ p <= spawned /\ exit[p] = "running"
      BY <1>3 DEF Exits, Live, rejectAllPending, IInv, ManagedType, ChildType
    <3>2. \A q \in Procs \ {p} : exit'[q] = exit[q] /\ stdinOpen'[q] = stdinOpen[q]
      BY <1>3 DEF Exits, IInv, ChildType
    <3>. QED
      BY <1>3, <3>1, <3>2 DEF Exits, Processes, managedVars, pipeVars
  <2>3. Answered
    BY <1>3 DEF Exits, rejectAllPending, Settle, Answered
  <2>. QED BY <2>1, <2>2, <2>3 DEF Frame
<1>4. CASE StdinError(p)
  <2>1. Table
    BY <1>4 DEF StdinError, Table, loopVars, mapVars, stopVars
  <2>2. Processes
    <3>1. pending'[p] = {} /\ ~stdinOpen'[p] /\ p <= spawned
      BY <1>4 DEF StdinError, Live, rejectAllPending, IInv, ManagedType, ChildType
    <3>2. \A q \in Procs \ {p} : stdinOpen'[q] = stdinOpen[q]
      BY <1>4 DEF StdinError, IInv, ChildType
    <3>. QED
      BY <1>4, <3>1, <3>2 DEF StdinError, Processes, managedVars, pipeVars
  <2>3. Answered
    BY <1>4 DEF StdinError, rejectAllPending, Settle, Answered
  <2>. QED BY <2>1, <2>2, <2>3 DEF Frame
<1>. QED BY <1>1, <1>2, <1>3, <1>4 DEF Child

(* The arrival of a chunk is within the frame. *)
LEMMA FrameData ==
  ASSUME IInv, NEW p \in Procs, Data(p)
  PROVE  Frame
<1>1. ASSUME NEW k, DiscardChunk(p, k) PROVE Frame
  BY <1>1, FrameQuiet DEF DiscardChunk, managedVars, loopVars, settleVars, procVars,
     mapVars, stopVars
<1>2. ASSUME NEW j, NEW k, ReceiveChunk(p, j, k) PROVE Frame
  BY <1>2, FrameQuiet DEF ReceiveChunk, ChunkEnd, settleVars, procVars, mapVars, stopVars
<1>. QED BY <1>1, <1>2 DEF Data

(* The line loop is within the frame: it breaks a process only before the   *)
(* first JSON of it, and with all its calls rejected.                       *)
LEMMA FrameLoop ==
  ASSUME IInv, HandleLine \/ EndChunk
  PROVE  Frame
<1>0. ASSUME UNCHANGED <<spawned, phase, cur, inbox, exit, stdinOpen, broken, sawJson>>,
             handler' \in {0, handler},
             \A c \in Calls : outcome[c] = "waiting" => outcome'[c] \notin {"resolved", "error"}
      PROVE  Frame
  <2>1. spawned \in Nat
    BY BridgeAssumption DEF IInv, ManagedType
  <2>. QED BY <1>0, <2>1 DEF Frame, Table, Processes, Answered
<1>1. CASE SkipBlank
  BY <1>0, <1>1 DEF SkipBlank, managedVars, settleVars, procVars, mapVars, stopVars, pipeVars
<1>2. CASE HandleOversized
  <2>1. \A c \in Calls : outcome[c] = "waiting" => outcome'[c] \notin {"resolved", "error"}
    BY <1>2 DEF HandleOversized, rejectOldestPending, Settle
  <2>. QED
    BY <1>0, <1>2, <2>1 DEF HandleOversized, managedVars, procVars, mapVars, stopVars,
       pipeVars
<1>3. CASE EndChunk
  <2>1. \A c \in Calls : outcome[c] = "waiting" => outcome'[c] \notin {"resolved", "error"}
    BY <1>3 DEF EndChunk, rejectOldestPending, Settle, settleVars
  <2>. QED
    BY <1>0, <1>3, <2>1 DEF EndChunk, procVars, mapVars, stopVars, pipeVars
<1>4. CASE HandleNonJson
  <2>1. handler \in Procs /\ handler <= spawned
    BY <1>4, LineType DEF HandleNonJson, IInv, SpawnedInOrder
  <2>2. CASE ~TripsFailFast(handler)
    BY <1>0, <1>4, <2>2 DEF HandleNonJson, settleVars, mapVars, stopVars, pipeVars
  <2>3. CASE TripsFailFast(handler)
    <3>1. pending'[handler] = {} /\ ~sawJson[handler]
      BY <1>4, <2>1, <2>3 DEF HandleNonJson, TripsFailFast, rejectAllPending, IInv,
         ManagedType
    <3>2. \A q \in Procs \ {handler} : broken'[q] = broken[q]
      BY <1>4, <2>1, <2>3 DEF HandleNonJson, IInv, ManagedType
    <3>3. outcome' = [c \in Calls |-> IF c \in pending[handler] THEN "broken" ELSE outcome[c]]
      BY <1>4, <2>1, <2>3 DEF HandleNonJson, rejectAllPending, Settle, IInv, ExactlyOnce,
         Waiting
    <3>. QED
      BY <1>4, <2>1, <2>3, <3>1, <3>2, <3>3 DEF HandleNonJson, Frame, Table, Processes,
         Answered, mapVars, stopVars, pipeVars
  <2>. QED BY <2>2, <2>3
<1>5. CASE HandleJson
  <2>1. handler \in Procs
    BY <1>5, LineType DEF HandleJson, IInv
  <2>2. \A c \in Calls : outcome'[c] # outcome[c] => owner[c] = handler
    BY <1>5, <2>1 DEF HandleJson, Settle, Addressee, IInv, ExactlyOnce
  <2>3. sawJson'[handler] /\ \A q \in Procs : sawJson[q] => sawJson'[q]
    BY <1>5, <2>1 DEF HandleJson, IInv, ManagedType
  <2>. QED
    BY <1>5, <2>1, <2>2, <2>3 DEF HandleJson, Frame, Table, Processes, Answered, procVars,
       mapVars, stopVars, pipeVars
<1>. QED BY <1>1, <1>2, <1>3, <1>4, <1>5 DEF HandleLine

(* Every step that is not a call is within the frame. *)
LEMMA StepFrame ==
  ASSUME IInv, Next, ~Call
  PROVE  Frame
BY FrameTimers, FrameShutdown, FrameChild, FrameData, FrameLoop DEF Next

-----------------------------------------------------------------------------
(* The parts of the strengthening, one lemma each: a step that is not a call *)
(* by Settling and Frame, a call by its four ways.                           *)
LEMMA CallWays ==
  ASSUME IInv, Call
  PROVE  \E c \in Calls, s \in Servers :
           /\ outcome[c] = "idle" /\ owner[c] = 0
           /\ CallBroken(c, s) \/ CallReuse(c, s) \/ CallNoStdin(c, s) \/ CallSpawn(c, s)
BY DEF Call, CallBroken, CallReuse, CallNoStdin, CallSpawn, MayCall, IInv, RequestsKnown

(* RequestsKnown *)
LEMMA KnownTaken ==
  ASSUME TypeOK, RequestsKnown, NEW c \in Calls, outcome[c] = "idle", NEW p \in Procs,
         TakeId(c, p), p <= spawned', spawned <= spawned', spawned' \in Nat,
         NEW w \in Reasons \cup {"waiting"}, w # "idle",
         outcome' = [outcome EXCEPT ![c] = w],
         \A q \in Procs : inbox'[q] \subseteq IF q = p THEN inbox[q] \cup {c} ELSE inbox[q]
  PROVE  RequestsKnown'
<1>1. owner[c] = 0
  BY DEF RequestsKnown
<1>2. /\ owner'[c] = p /\ id'[c] = nextId[p] /\ nextId'[p] = nextId[p] + 1
      /\ \A d \in Calls \ {c} : owner'[d] = owner[d] /\ id'[d] = id[d]
      /\ \A q \in Procs \ {p} : nextId'[q] = nextId[q]
      /\ outcome'[c] = w /\ \A d \in Calls \ {c} : outcome'[d] = outcome[d]
  BY DEF TakeId, ManagedType, CallType
<1>3. \A d \in Calls : owner'[d] <= spawned'
  <2>1. spawned \in Nat /\ \A d \in Calls : owner[d] \in Nat /\ owner[d] <= spawned
    BY BridgeAssumption DEF RequestsKnown, ManagedType, CallType
  <2>. QED BY <1>2, <2>1
<1>4. \A d \in Calls : outcome'[d] = "idle" => owner'[d] = 0
  BY <1>2 DEF RequestsKnown
<1>5. \A d \in Calls : outcome'[d] \in {"waiting", "resolved", "error"} => owner'[d] # 0
  BY <1>2 DEF RequestsKnown
<1>6. \A d \in Calls : owner'[d] # 0 => id'[d] < nextId'[owner'[d]]
  <2> SUFFICES ASSUME NEW d \in Calls, owner'[d] # 0 PROVE id'[d] < nextId'[owner'[d]]
    OBVIOUS
  <2>1. CASE d = c
    BY <1>2, <2>1 DEF ManagedType
  <2>2. CASE d # c
    <3>1. id[d] < nextId[owner[d]] /\ owner[d] \in Procs /\ id[d] \in Nat
      BY <1>2, <2>2 DEF RequestsKnown, CallType
    <3>2. nextId'[owner[d]] \in {nextId[owner[d]], nextId[owner[d]] + 1}
      BY <1>2, <3>1
    <3>3. nextId[owner[d]] \in Nat
      BY <3>1 DEF ManagedType
    <3>4. id[d] < nextId'[owner[d]]
      BY <3>1, <3>2, <3>3
    <3>. QED BY <1>2, <2>2, <3>4
  <2>. QED BY <2>1, <2>2
<1>7. \A d, e \in Calls :
        owner'[d] # 0 /\ owner'[d] = owner'[e] /\ id'[d] = id'[e] => d = e
  <2>1. \A d \in Calls \ {c} : owner'[d] = p => id'[d] # nextId[p]
    <3> SUFFICES ASSUME NEW d \in Calls \ {c}, owner'[d] = p PROVE id'[d] # nextId[p]
      OBVIOUS
    <3>1. id[d] < nextId[p] /\ id[d] \in Nat /\ nextId[p] \in Nat
      BY <1>2 DEF RequestsKnown, ManagedType, CallType
    <3>. QED BY <1>2, <3>1
  <2>. QED BY <1>2, <2>1 DEF RequestsKnown
<1>8. \A q \in Procs : \A d \in inbox'[q] : owner'[d] = q
  BY <1>1, <1>2 DEF RequestsKnown, ChildType
<1>. QED BY <1>3, <1>4, <1>5, <1>6, <1>7, <1>8 DEF RequestsKnown

(* RequestsKnown is kept: what a child may answer was sent to it. *)
LEMMA KnownNext ==
  ASSUME IInv, Next
  PROVE  RequestsKnown'
<1> USE DEF IInv
<1>1. CASE ~Call
  <2> PICK S \in SUBSET Waiting, why \in Reasons : Settling(S, why)
    BY <1>1, StepSettles
  <2>1. Frame
    BY <1>1, StepFrame
  <2>2. \A c \in Calls : outcome'[c] = IF c \in S THEN why ELSE outcome[c]
    BY DEF Settling, Settle, Waiting
  <2>3. \A c \in S : outcome[c] = "waiting"
    BY DEF Waiting
  <2>. QED
    BY <2>1, <2>2, <2>3 DEF Settling, RequestsKnown, Frame, Table, Processes, Reasons
<1>2. CASE Call
  <2> PICK c \in Calls, s \in Servers :
        /\ outcome[c] = "idle" /\ owner[c] = 0
        /\ CallBroken(c, s) \/ CallReuse(c, s) \/ CallNoStdin(c, s) \/ CallSpawn(c, s)
    BY <1>2, CallWays
  <2>0. spawned \in Nat /\ (Reusable(s) => cur[s] \in Procs /\ cur[s] <= spawned)
    BY BridgeAssumption DEF Reusable, SpawnedInOrder, ManagedType
  <2>1. CASE CallBroken(c, s)
    BY <2>1 DEF CallBroken, RequestsKnown, managedVars, callVars, mapVars, pipeVars,
       CallType
  <2>2. CASE CallReuse(c, s)
    <3>1. \A q \in Procs : inbox'[q] \subseteq IF q = cur[s] THEN inbox[q] \cup {c} ELSE inbox[q]
      BY <2>2 DEF CallReuse, ChildType
    <3>2. /\ cur[s] \in Procs /\ cur[s] <= spawned' /\ spawned <= spawned'
          /\ spawned' \in Nat /\ TakeId(c, cur[s])
          /\ outcome' = [outcome EXCEPT ![c] = "waiting"]
      BY <2>0, <2>2 DEF CallReuse, mapVars
    <3> HIDE DEF IInv
    <3>. QED BY <3>1, <3>2, KnownTaken DEF IInv
  <2>3. CASE CallNoStdin(c, s)
    <3>1. /\ cur[s] \in Procs /\ cur[s] <= spawned' /\ spawned <= spawned'
          /\ spawned' \in Nat /\ TakeId(c, cur[s])
          /\ outcome' = [outcome EXCEPT ![c] = "stdin"] /\ "stdin" \in Reasons
      BY <2>0, <2>3 DEF CallNoStdin, mapVars, Reasons, Outcomes
    <3>2. \A q \in Procs : inbox'[q] \subseteq IF q = cur[s] THEN inbox[q] \cup {c} ELSE inbox[q]
      BY <2>3 DEF CallNoStdin, pipeVars
    <3>3. "stdin" \in Reasons \cup {"waiting"}
      BY <3>1
    <3> HIDE DEF IInv
    <3>. QED BY <3>1, <3>2, <3>3, KnownTaken DEF IInv
  <2>4. CASE CallSpawn(c, s)
    <3>1. \A q \in Procs : inbox'[q] \subseteq
                             IF q = spawned + 1 THEN inbox[q] \cup {c} ELSE inbox[q]
      BY <2>4 DEF CallSpawn, ChildType
    <3>2. spawned' = spawned + 1 /\ TakeId(c, spawned + 1)
      BY <2>4 DEF CallSpawn
    <3>3. /\ spawned + 1 \in Procs /\ spawned <= spawned' /\ spawned + 1 <= spawned'
          /\ spawned' \in Nat /\ outcome' = [outcome EXCEPT ![c] = "waiting"]
      BY <2>0, <2>4, <3>2, SpawnRejectsNobody
    <3>. QED BY <3>1, <3>2, <3>3, KnownTaken
  <2>. QED BY <2>1, <2>2, <2>3, <2>4
<1>. QED BY <1>1, <1>2

(* PartFits and LinesTruthful: the pipes.  Identities are never taken back,  *)
(* so a truthful line stays truthful.                                        *)
LEMMA SentStaysSent ==
  ASSUME IInv, Next
  PROVE  \A d \in Calls : owner[d] # 0 => owner'[d] = owner[d] /\ id'[d] = id[d]
<1>1. CASE ~Call
  BY <1>1, StepSettles DEF Settling
<1>2. CASE Call
  <2> PICK c \in Calls, s \in Servers :
        /\ outcome[c] = "idle" /\ owner[c] = 0
        /\ CallBroken(c, s) \/ CallReuse(c, s) \/ CallNoStdin(c, s) \/ CallSpawn(c, s)
    BY <1>2, CallWays
  <2>1. UNCHANGED <<owner, id>> \/ \E p : TakeId(c, p)
    BY DEF CallBroken, CallReuse, CallNoStdin, CallSpawn, callVars
  <2>. QED BY <2>1 DEF TakeId, IInv, CallType
<1>. QED BY <1>1, <1>2

TruthfulAfter(p, l) ==
  /\ l.kind \in Answers => l.to \in Calls /\ owner'[l.to] = p /\ id'[l.to] = l.id
  /\ l.kind = "request" => "request" \in ChatterKinds

(* A truthful line stays truthful. *)
LEMMA TruthfulKept ==
  ASSUME IInv, Next, NEW p \in Procs, NEW l, Truthful(p, l)
  PROVE  TruthfulAfter(p, l)
BY SentStaysSent DEF Truthful, TruthfulAfter

(* To show LinesTruthful after a step, judge every line by the identities   *)
(* after it.                                                                *)
LEMMA LinesTruthfulAfter ==
  ASSUME \A p \in Procs : \A i \in 1..Len(out'[p]) : TruthfulAfter(p, out'[p][i]),
         \A i \in 1..Len(lines') : handler' # 0 => TruthfulAfter(handler', lines'[i])
  PROVE  LinesTruthful'
BY DEF LinesTruthful, Truthful, TruthfulAfter

(* The pipes when nothing enters them. *)
LEMMA PipesQuiet ==
  ASSUME IInv, Next, UNCHANGED <<out, part>>,
         \/ UNCHANGED <<handler, lines>>
         \/ handler' = handler /\ handler \in Procs /\ lines # <<>> /\ lines' = Tail(lines)
         \/ handler' = 0
  PROVE  PartFits' /\ LinesTruthful'
<1>1. PartFits'
  BY PartKept DEF IInv
<1>2. \A p \in Procs : \A i \in 1..Len(out'[p]) : TruthfulAfter(p, out'[p][i])
  BY TruthfulKept DEF LinesTruthful, IInv
<1>3. \A i \in 1..Len(lines') : handler' # 0 => TruthfulAfter(handler', lines'[i])
  <2>1. CASE UNCHANGED <<handler, lines>>
    BY <2>1, TruthfulKept DEF LinesTruthful, ChildType, IInv
  <2>2. CASE handler' = handler /\ handler \in Procs /\ lines # <<>> /\ lines' = Tail(lines)
    <3>1. \A i \in 1..Len(lines') : i + 1 \in 1..Len(lines) /\ lines'[i] = lines[i + 1]
      BY <2>2 DEF ChildType, IInv
    <3>2. \A i \in 1..Len(lines') : Truthful(handler, lines'[i])
      BY <2>2, <3>1 DEF LinesTruthful, IInv
    <3>. QED BY <2>2, <3>2, TruthfulKept
  <2>. QED BY <2>1, <2>2
<1>. QED BY <1>1, <1>2, <1>3, LinesTruthfulAfter

(* The pipes when a child writes a truthful line. *)
LEMMA PipesWrite ==
  ASSUME IInv, Next, NEW p \in Procs, NEW l \in Line, Write(p, l), Truthful(p, l),
         UNCHANGED <<part, handler, lines>>
  PROVE  PartFits' /\ LinesTruthful'
<1>1. PartFits'
  BY PartWrite DEF IInv
<1>2. /\ out'[p] = Append(out[p], l) /\ out[p] \in Seq(Line)
      /\ \A q \in Procs \ {p} : out'[q] = out[q]
  BY DEF Write, ChildType, IInv
<1>3. \A q \in Procs : \A i \in 1..Len(out'[q]) : Truthful(q, out'[q][i])
  BY <1>2 DEF LinesTruthful, IInv
<1>4. \A q \in Procs : \A i \in 1..Len(out'[q]) : TruthfulAfter(q, out'[q][i])
  BY <1>3, TruthfulKept
<1>5. \A i \in 1..Len(lines') : handler' # 0 => TruthfulAfter(handler', lines'[i])
  BY TruthfulKept DEF LinesTruthful, ChildType, IInv
<1>. QED BY <1>1, <1>4, <1>5, LinesTruthfulAfter

(* The pipes when a chunk is taken: the lines are among those that were     *)
(* written.                                                                 *)
LEMMA PipesReceive ==
  ASSUME IInv, Next, NEW p \in Procs, NEW j \in 0..Len(out[p]), NEW k \in Bytes(p, j),
         ReceiveChunk(p, j, k)
  PROVE  LinesTruthful'
<1> USE DEF IInv
<1> DEFINE first == [out[p][1] EXCEPT !.size = buffer[p] + (@ - part[p])]
<1>0. out[p] \in Seq(Line) /\ handler' = p /\ UNCHANGED <<owner, id>>
  BY DEF ReceiveChunk, ChildType, callVars
<1>1. \A q \in Procs : \A i \in 1..Len(out'[q]) : Truthful(q, out'[q][i])
  <2>1. out'[p] = SubSeq(out[p], j + 1, Len(out[p]))
    BY DEF ReceiveChunk, ChildType
  <2>2. \A q \in Procs \ {p} : out'[q] = out[q]
    BY DEF ReceiveChunk, ChildType
  <2>3. \A i \in 1..Len(out'[p]) : i + j \in 1..Len(out[p]) /\ out'[p][i] = out[p][i + j]
    BY <1>0, <2>1
  <2>. QED BY <2>2, <2>3 DEF LinesTruthful
<1>2. \A i \in 1..Len(lines') : Truthful(p, lines'[i])
  <2>1. CASE j = 0
    BY <2>1 DEF ReceiveChunk
  <2>2. CASE j > 0 /\ discarding[p]
    <3>1. lines' = SubSeq(out[p], 2, j)
      BY <2>2 DEF ReceiveChunk
    <3>2. \A i \in 1..Len(lines') : i + 1 \in 1..Len(out[p]) /\ lines'[i] = out[p][i + 1]
      BY <1>0, <3>1
    <3>. QED BY <3>2 DEF LinesTruthful
  <2>3. CASE j > 0 /\ ~discarding[p]
    <3>1. lines' = [i \in 1..j |-> IF i = 1 THEN first ELSE out[p][i]]
      BY <2>3 DEF ReceiveChunk
    <3>2. Len(lines') = j /\ \A i \in 1..j : i \in 1..Len(out[p]) /\ out[p][i] \in Line
      BY <1>0, <3>1
    <3>3. Truthful(p, first)
      <4>1. Truthful(p, out[p][1]) /\ out[p][1] \in Line
        BY <2>3, <3>2 DEF LinesTruthful
      <4>2. first.kind = out[p][1].kind /\ first.to = out[p][1].to /\ first.id = out[p][1].id
        BY <4>1 DEF Line
      <4>. QED BY <4>1, <4>2 DEF Truthful
    <3> HIDE DEF first
    <3>. QED BY <3>1, <3>2, <3>3 DEF LinesTruthful
  <2>. QED BY <2>1, <2>2, <2>3
<1>3. \A q \in Procs : \A i \in 1..Len(out'[q]) : TruthfulAfter(q, out'[q][i])
  BY <1>1, TruthfulKept
<1>4. \A i \in 1..Len(lines') : TruthfulAfter(p, lines'[i])
  BY <1>2, TruthfulKept
<1>. QED BY <1>0, <1>3, <1>4, LinesTruthfulAfter

(* The pipes after any step. *)
LEMMA PipesNext ==
  ASSUME IInv, Next
  PROVE  PartFits' /\ LinesTruthful'
<1> USE DEF IInv
<1>1. CASE Call
  BY <1>1, PipesQuiet DEF Call, CallBroken, CallReuse, CallNoStdin, CallSpawn, loopVars,
     pipeVars
<1>2. ASSUME NEW p \in Procs, Data(p) PROVE PartFits' /\ LinesTruthful'
  <2>1. PartFits'
    BY <1>2, PartData
  <2>2. ASSUME NEW k \in Bytes(p, 0), DiscardChunk(p, k) PROVE LinesTruthful'
    <3>1. UNCHANGED <<out, handler, lines>>
      BY <2>2 DEF DiscardChunk, loopVars
    <3>2. \A q \in Procs : \A i \in 1..Len(out'[q]) : TruthfulAfter(q, out'[q][i])
      BY <3>1, TruthfulKept DEF LinesTruthful
    <3>3. \A i \in 1..Len(lines') : handler' # 0 => TruthfulAfter(handler', lines'[i])
      BY <3>1, TruthfulKept DEF LinesTruthful, ChildType
    <3>. QED BY <3>2, <3>3, LinesTruthfulAfter
  <2>. QED BY <1>2, <2>1, <2>2, PipesReceive DEF Data
<1>3. ASSUME NEW p \in Procs, Child(p) PROVE PartFits' /\ LinesTruthful'
  <2>1. ASSUME NEW c \in Calls, NEW kind \in Answers, NEW size \in Sizes,
               Answer(p, c, kind, size)
        PROVE  PartFits' /\ LinesTruthful'
    <3> DEFINE l == [kind |-> kind, id |-> id[c], to |-> c, size |-> size]
    <3>1. l \in Line /\ Write(p, l)
      BY <2>1, BridgeAssumption DEF Answer, Line, Kinds, CallType
    <3>2. Truthful(p, l)
      BY <2>1 DEF Answer, Truthful, RequestsKnown, Answers
    <3>. QED
      BY <2>1, <3>1, <3>2, PipesWrite DEF Answer, loopVars
  <2>2. ASSUME NEW kind \in ChatterKinds, NEW size \in ChatterSizes, Chatter(p, kind, size)
        PROVE  PartFits' /\ LinesTruthful'
    <3> DEFINE l == [kind |-> kind, id |-> IF kind = "request" THEN chatter'[p] ELSE 0,
                     to |-> NoCall, size |-> size]
    <3>1. chatter'[p] \in Nat
      BY <2>2 DEF Chatter, ChildType
    <3>2. l \in Line /\ Write(p, l)
      BY <2>2, <3>1, BridgeAssumption DEF Chatter, Line, Kinds
    <3>3. Truthful(p, l)
      BY <2>2, BridgeAssumption DEF Truthful, Answers
    <3>. QED
      BY <2>2, <3>2, <3>3, PipesWrite DEF Chatter, loopVars
  <2>3. ASSUME NEW how \in {"code", "signal"}, Exits(p, how)
        PROVE  PartFits' /\ LinesTruthful'
    BY <2>3, PipesQuiet DEF Exits, loopVars, pipeVars
  <2>4. CASE StdinError(p)
    BY <2>4, PipesQuiet DEF StdinError, loopVars, pipeVars
  <2>. QED BY <1>3, <2>1, <2>2, <2>3, <2>4 DEF Child
<1>4. CASE HandleLine
  <2>1. handler \in Procs /\ handler' = handler /\ lines # <<>> /\ lines' = Tail(lines)
    BY <1>4, LineType DEF HandleLine, SkipBlank, HandleOversized, HandleNonJson, HandleJson,
       NextLine
  <2>2. UNCHANGED <<out, part>>
    BY <1>4 DEF HandleLine, SkipBlank, HandleOversized, HandleNonJson, HandleJson, pipeVars
  <2>. QED BY <2>1, <2>2, PipesQuiet
<1>5. CASE EndChunk
  BY <1>5, PipesQuiet DEF EndChunk, pipeVars
<1>6. CASE Timers
  BY <1>6, PipesQuiet DEF Timers, TimeoutFires, GraceExpires, CeilingExpires, loopVars,
     pipeVars
<1>7. CASE Shutdown
  BY <1>7, PipesQuiet DEF Shutdown, loopVars, pipeVars
<1>. QED BY <1>1, <1>2, <1>3, <1>4, <1>5, <1>6, <1>7 DEF Next

(* SpawnedInOrder and DeadHoldNothing *)
LEMMA TableNext ==
  ASSUME IInv, Next
  PROVE  SpawnedInOrder' /\ DeadHoldNothing'
<1>0. /\ spawned \in 0..MaxProcs /\ cur \in [Servers -> 0..MaxProcs]
      /\ handler \in 0..MaxProcs /\ MaxProcs \in Nat
  BY BridgeAssumption DEF IInv, ManagedType, ChildType
<1>1. CASE ~Call
  <2> PICK S \in SUBSET Waiting, why \in Reasons : Settling(S, why)
    BY <1>1, StepSettles
  <2>1. Frame
    BY <1>1, StepFrame
  <2>2. SpawnedInOrder'
    <3>1. handler' <= spawned'
      BY <2>1 DEF Frame, Table, IInv, SpawnedInOrder
    <3>2. \A s \in Servers : cur'[s] <= spawned'
      BY <1>0, <2>1 DEF Frame, Table, IInv, SpawnedInOrder
    <3>3. \A p \in Procs : p > spawned' => exit'[p] = "running" /\ stdinOpen'[p] /\ ~broken'[p]
      BY <1>0, <2>1 DEF Frame, Table, Processes, IInv, SpawnedInOrder
    <3>. QED BY <3>1, <3>2, <3>3 DEF SpawnedInOrder
  <2>3. \A p \in Procs : pending'[p] \subseteq pending[p]
    BY DEF Settling
  <2>. QED BY <2>1, <2>2, <2>3 DEF Frame, Processes, IInv, DeadHoldNothing
<1>2. CASE Call
  <2> PICK c \in Calls, s \in Servers :
        /\ outcome[c] = "idle" /\ owner[c] = 0
        /\ CallBroken(c, s) \/ CallReuse(c, s) \/ CallNoStdin(c, s) \/ CallSpawn(c, s)
    BY <1>2, CallWays
  <2>1. CASE CallBroken(c, s) \/ CallReuse(c, s) \/ CallNoStdin(c, s)
    <3>1. UNCHANGED <<handler, cur, spawned, exit, stdinOpen, broken>>
      BY <2>1 DEF CallBroken, CallReuse, CallNoStdin, loopVars, mapVars, procVars,
         managedVars
    <3>2. \A p \in Procs : ~stdinOpen[p] => pending'[p] = pending[p]
      BY <2>1 DEF CallBroken, CallReuse, CallNoStdin, IInv, ManagedType
    <3>. QED BY <3>1, <3>2 DEF IInv, SpawnedInOrder, DeadHoldNothing
  <2>2. CASE CallSpawn(c, s)
    <3>1. /\ UNCHANGED <<handler, exit, stdinOpen, broken>>
          /\ spawned' = spawned + 1 /\ cur' = [cur EXCEPT ![s] = spawned + 1]
      BY <2>2 DEF CallSpawn, loopVars, procVars
    <3>2. SpawnedInOrder'
      BY <1>0, <3>1 DEF IInv, SpawnedInOrder
    <3>3. stdinOpen[spawned + 1] /\ spawned + 1 \in Procs
      BY <1>0, <2>2, SpawnRejectsNobody DEF IInv, SpawnedInOrder
    <3>4. \A p \in Procs : ~stdinOpen[p] => pending'[p] = pending[p]
      BY <2>2, <3>3, SpawnRejectsNobody DEF IInv, ManagedType
    <3>. QED BY <3>1, <3>2, <3>4 DEF IInv, DeadHoldNothing
  <2>. QED BY <2>1, <2>2
<1>. QED BY <1>1, <1>2

(* AnswersAreJson and BrokenServedNobody *)
LEMMA BrokenNext ==
  ASSUME IInv, Next
  PROVE  AnswersAreJson' /\ BrokenServedNobody'
<1>0. /\ spawned \in Nat
      /\ \A c \in Calls : outcome[c] \in {"waiting", "resolved", "error"} => owner[c] \in Procs
  BY BridgeAssumption DEF IInv, RequestsKnown, CallType, ManagedType
<1>1. CASE ~Call
  <2> PICK S \in SUBSET Waiting, why \in Reasons : Settling(S, why)
    BY <1>1, StepSettles
  <2>1. Frame
    BY <1>1, StepFrame
  <2>2. /\ \A c \in Calls : outcome'[c] = IF c \in S THEN why ELSE outcome[c]
        /\ owner' = owner
    BY DEF Settling, Settle, Waiting
  <2>3. \A c \in S : outcome[c] = "waiting"
    BY DEF Waiting
  <2>4. AnswersAreJson'
    BY <1>0, <2>1, <2>2, <2>3 DEF Frame, Processes, Answered, IInv, AnswersAreJson
  <2>5. ASSUME NEW p \in Procs, broken'[p], NEW c \in Calls, owner'[c] = p
        PROVE  outcome'[c] \notin {"waiting", "resolved", "error"}
    <3>1. CASE broken[p]
      <4>1. outcome[c] \notin {"waiting", "resolved", "error"}
        BY <2>2, <2>5, <3>1 DEF IInv, BrokenServedNobody
      <4>. QED BY <2>2, <2>3, <4>1
    <3>2. CASE ~broken[p]
      <4>1. /\ ~sawJson[p]
            /\ outcome' = [d \in Calls |-> IF d \in pending[p] THEN "broken" ELSE outcome[d]]
        BY <2>1, <2>5, <3>2 DEF Frame, Processes, IInv, ManagedType
      <4>2. outcome[c] \notin {"resolved", "error"}
        BY <2>2, <2>5, <4>1 DEF IInv, AnswersAreJson
      <4>3. outcome[c] = "waiting" => c \in pending[p]
        BY <2>2, <2>5 DEF IInv, ExactlyOnce, Waiting
      <4>. QED BY <4>1, <4>2, <4>3
    <3>. QED BY <3>1, <3>2
  <2>. QED BY <2>4, <2>5 DEF BrokenServedNobody
<1>2. CASE Call
  <2> PICK c \in Calls, s \in Servers :
        /\ outcome[c] = "idle" /\ owner[c] = 0
        /\ CallBroken(c, s) \/ CallReuse(c, s) \/ CallNoStdin(c, s) \/ CallSpawn(c, s)
    BY <1>2, CallWays
  <2>1. UNCHANGED <<sawJson, broken>>
    BY DEF CallBroken, CallReuse, CallNoStdin, CallSpawn, managedVars
  <2>2. \A d \in Calls \ {c} : outcome'[d] = outcome[d] /\ owner'[d] = owner[d]
    BY SpawnRejectsNobody DEF CallBroken, CallReuse, CallNoStdin, TakeId, callVars, IInv,
       CallType
  <2>3. /\ outcome'[c] \in {"broken", "stdin"} \/ ~broken[owner'[c]]
        /\ outcome'[c] \notin {"resolved", "error"}
    <3>1. CASE CallSpawn(c, s)
      <4>1. outcome'[c] = "waiting" /\ owner'[c] = spawned + 1 /\ spawned + 1 \in Procs
        BY <3>1, SpawnRejectsNobody DEF IInv, CallType
      <4>. QED BY <1>0, <4>1 DEF IInv, SpawnedInOrder
    <3>2. CASE CallReuse(c, s)
      BY <3>2 DEF CallReuse, Reusable, TakeId, IInv, CallType
    <3>3. CASE CallBroken(c, s) \/ CallNoStdin(c, s)
      BY <3>3 DEF CallBroken, CallNoStdin, IInv, CallType
    <3>. QED BY <3>1, <3>2, <3>3
  <2>4. AnswersAreJson'
    BY <2>1, <2>2, <2>3 DEF IInv, AnswersAreJson
  <2>5. BrokenServedNobody'
    BY <2>1, <2>2, <2>3 DEF IInv, BrokenServedNobody
  <2>. QED BY <2>4, <2>5
<1>. QED BY <1>1, <1>2

(* OneLiveChild *)
LEMMA OneLiveNext ==
  ASSUME IInv, Next
  PROVE  OneLiveChild'
<1>0. /\ spawned \in 0..MaxProcs /\ cur \in [Servers -> 0..MaxProcs] /\ MaxProcs \in Nat
  BY BridgeAssumption DEF IInv, ManagedType
<1>1. CASE ~Call
  <2>1. Frame
    BY <1>1, StepFrame
  <2>2. CASE phase' # "cleared"
    <3>1. cur' = cur /\ spawned' = spawned /\ phase # "cleared"
      BY <2>1, <2>2 DEF Frame, Table
    <3>2. \A p \in Procs : exit'[p] = "running" => exit[p] = "running"
      BY <2>1 DEF Frame, Processes
    <3>. QED BY <3>1, <3>2 DEF IInv, OneLiveChild, Live, Managed
  <2>. QED BY <2>2 DEF OneLiveChild
<1>2. CASE Call
  <2> PICK c \in Calls, s \in Servers :
        /\ outcome[c] = "idle" /\ owner[c] = 0
        /\ CallBroken(c, s) \/ CallReuse(c, s) \/ CallNoStdin(c, s) \/ CallSpawn(c, s)
    BY <1>2, CallWays
  <2>1. UNCHANGED <<phase, exit>>
    BY DEF CallBroken, CallReuse, CallNoStdin, CallSpawn, stopVars, procVars
  <2>2. CASE CallBroken(c, s) \/ CallReuse(c, s) \/ CallNoStdin(c, s)
    <3>1. UNCHANGED <<cur, spawned>>
      BY <2>2 DEF CallBroken, CallReuse, CallNoStdin, mapVars
    <3>. QED BY <2>1, <3>1 DEF IInv, OneLiveChild, Live, Managed
  <2>3. CASE CallSpawn(c, s)
    <3>1. /\ spawned' = spawned + 1
          /\ cur'[s] = spawned + 1 /\ \A t \in Servers \ {s} : cur'[t] = cur[t]
          /\ cur[s] # 0 => exit[cur[s]] = "code"
      BY <1>0, <2>3 DEF CallSpawn, Respawns
    <3>2. ASSUME NEW p \in Procs, phase # "cleared", p <= spawned + 1, exit[p] = "running"
          PROVE  \E t \in Servers : cur'[t] = p
      <4>1. CASE p = spawned + 1
        BY <3>1, <4>1
      <4>2. CASE p <= spawned
        <5>1. PICK t \in Servers : cur[t] = p
          BY <3>2, <4>2 DEF IInv, OneLiveChild, Live, Managed
        <5>. QED BY <3>1, <3>2, <5>1
      <4>. QED BY <1>0, <3>2, <4>1, <4>2
    <3>. QED BY <2>1, <3>1, <3>2 DEF OneLiveChild, Live, Managed
  <2>. QED BY <2>2, <2>3
<1>. QED BY <1>1, <1>2
-----------------------------------------------------------------------------
(* The inductive invariant.                                                  *)
LEMMA IInvInit == Init => IInv
<1> SUFFICES ASSUME Init PROVE IInv
  OBVIOUS
<1>1. TypeOK
  BY TypeInit
<1>2. PartFits /\ LinesTruthful
  BY DEF Init, PartFits, Bytes, LinesTruthful
<1>3. ExactlyOnce
  BY DEF Init, ExactlyOnce, Waiting
<1>4. RequestsKnown
  BY BridgeAssumption DEF Init, RequestsKnown
<1>5. SpawnedInOrder /\ DeadHoldNothing
  BY DEF Init, SpawnedInOrder, DeadHoldNothing
<1>6. AnswersAreJson /\ BrokenServedNobody
  BY DEF Init, AnswersAreJson, BrokenServedNobody
<1>7. OneLiveChild
  BY DEF Init, OneLiveChild, Live
<1>. QED BY <1>1, <1>2, <1>3, <1>4, <1>5, <1>6, <1>7 DEF IInv

(* The inductive invariant is inductive. *)
LEMMA IInvNext == IInv /\ [Next]_vars => IInv'
<1> SUFFICES ASSUME IInv, [Next]_vars PROVE IInv'
  OBVIOUS
<1>1. CASE UNCHANGED vars
  <2> USE <1>1 DEF vars, managedVars, loopVars, settleVars, callVars, procVars, mapVars,
      stopVars, pipeVars, IInv
  <2>1. TypeOK' /\ PartFits'
    BY TypeNext, PartKept
  <2>2. ExactlyOnce' /\ BrokenServedNobody'
    BY DEF ExactlyOnce, Waiting, BrokenServedNobody
  <2>3. RequestsKnown' /\ AnswersAreJson'
    BY DEF RequestsKnown, AnswersAreJson
  <2>4. LinesTruthful'
    BY DEF LinesTruthful, Truthful
  <2>5. SpawnedInOrder' /\ DeadHoldNothing'
    BY DEF SpawnedInOrder, DeadHoldNothing
  <2>6. OneLiveChild'
    BY DEF OneLiveChild, Live, Managed
  <2>. QED BY <2>1, <2>2, <2>3, <2>4, <2>5, <2>6
<1>2. CASE Next
  <2>1. TypeOK'
    BY <1>2, TypeNext DEF IInv
  <2>2. PartFits' /\ LinesTruthful'
    BY <1>2, PipesNext
  <2>3. ExactlyOnce' /\ RequestsKnown'
    BY <1>2, OnceNext, KnownNext
  <2>4. SpawnedInOrder' /\ DeadHoldNothing'
    BY <1>2, TableNext
  <2>5. AnswersAreJson' /\ BrokenServedNobody' /\ OneLiveChild'
    BY <1>2, BrokenNext, OneLiveNext
  <2>. QED BY <2>1, <2>2, <2>3, <2>4, <2>5 DEF IInv
<1>. QED BY <1>1, <1>2

(* The bridge's invariant holds in every reachable state. *)
THEOREM Invariant == Spec => []IInv
BY IInvInit, IInvNext, PTL DEF Spec

(* The bridge's state is well typed, for any calls, servers, sizes, bounds. *)
THEOREM TypeCorrect == Spec => []TypeOK
<1>1. IInv => TypeOK
  BY DEF IInv
<1>. QED BY <1>1, Invariant, PTL

(* Every call settles at most once, and holds its timer and its place in the *)
(* pending map of its process exactly while it waits.                        *)
THEOREM SettledExactlyOnce == Spec => []ExactlyOnce
<1>1. IInv => ExactlyOnce
  BY DEF IInv
<1>. QED BY <1>1, Invariant, PTL

(* A process that was declared broken has nobody waiting and answered nobody. *)
THEOREM BrokenAnsweredNobody == Spec => []BrokenServedNobody
<1>1. IInv => BrokenServedNobody
  BY DEF IInv
<1>. QED BY <1>1, Invariant, PTL

(* While the bridge runs, a live child is always the one in the map. *)
THEOREM LiveChildIsManaged == Spec => []OneLiveChild
<1>1. IInv => OneLiveChild
  BY DEF IInv
<1>. QED BY <1>1, Invariant, PTL

(* The map never gives up a process that was declared broken, short of the   *)
(* shutdown that clears it.                                                  *)
THEOREM BrokenStaysFinal == Spec => BrokenIsFinal
<1> DEFINE Kept == \A s \in Servers : cur[s] # 0 /\ broken[cur[s]] /\ phase' # "cleared"
                                        => cur'[s] = cur[s]
<1>1. IInv /\ [Next]_vars => [Kept]_vars
  <2> SUFFICES ASSUME IInv, Next PROVE Kept
    OBVIOUS
  <2>1. CASE ~Call
    BY <2>1, StepFrame DEF Frame, Table
  <2>2. CASE Call
    BY <2>2 DEF Call, CallBroken, CallReuse, CallNoStdin, CallSpawn, Respawns, mapVars, IInv,
       ManagedType
  <2>. QED BY <2>1, <2>2
<1>. QED BY <1>1, Invariant, PTL DEF Spec, BrokenIsFinal
-----------------------------------------------------------------------------
(* Answers, when no child sends requests of its own: only the line that      *)
(* answers a call resolves it.                                               *)
Replies(S, why) ==
  /\ got' = [c \in Calls |-> IF c \in S /\ why = "resolved" THEN c ELSE got[c]]
  /\ why = "resolved" => \A c, d \in S : c = d

(* Only a JSON line resolves a call. *)
LEMMA Unanswered ==
  ASSUME IInv, Next, ~Call, ~HandleJson
  PROVE  got' = got /\ \A c \in Waiting : outcome'[c] # "resolved"
<1>0. ASSUME UNCHANGED <<got, outcome>>
      PROVE  got' = got /\ \A c \in Waiting : outcome'[c] # "resolved"
  BY <1>0 DEF Waiting
<1>1. ASSUME NEW S, NEW why, why # "resolved", Settle(S, why), UNCHANGED got
      PROVE  got' = got /\ \A c \in Waiting : outcome'[c] # "resolved"
  BY <1>1 DEF Settle, Waiting
<1>2. CASE Timers
  BY <1>0, <1>1, <1>2 DEF Timers, TimeoutFires, GraceExpires, CeilingExpires, settleVars,
     callVars
<1>3. CASE Shutdown
  BY <1>1, <1>3 DEF Shutdown, callVars
<1>4. CASE EndChunk
  BY <1>0, <1>1, <1>4 DEF EndChunk, rejectOldestPending, settleVars, callVars
<1>5. CASE HandleLine
  BY <1>0, <1>1, <1>5 DEF HandleLine, SkipBlank, HandleOversized, HandleNonJson,
     rejectOldestPending, rejectAllPending, settleVars, callVars
<1>6. ASSUME NEW p \in Procs, Data(p) PROVE UNCHANGED <<got, outcome>>
  BY <1>6 DEF Data, DiscardChunk, ReceiveChunk, settleVars, callVars
<1>7. ASSUME NEW p \in Procs, Child(p)
      PROVE  got' = got /\ \A c \in Waiting : outcome'[c] # "resolved"
  BY <1>0, <1>1, <1>7 DEF Child, Answer, Chatter, Exits, StdinError, rejectAllPending,
     settleVars, callVars
<1>. QED BY <1>0, <1>2, <1>3, <1>4, <1>5, <1>6, <1>7 DEF Next

(* A JSON line answers a call with the response to its own request, when no *)
(* child sends requests of its own.                                         *)
LEMMA JsonReplies ==
  ASSUME IInv, HandleJson, "request" \notin ChatterKinds
  PROVE  \E S \in SUBSET Waiting, why \in Reasons : Settling(S, why) /\ Replies(S, why)
<1> DEFINE S == Addressee(handler, line)
<1> PICK why \in Reasons :
      Settling(S, why) /\ why = IF line.kind = "error" THEN "error" ELSE "resolved"
  BY JsonSettles DEF IInv
<1>1. handler \in Procs /\ line \in Line /\ lines # <<>> /\ Truthful(handler, line)
  <2>1. handler \in Procs /\ line \in Line /\ lines # <<>> /\ lines \in Seq(Line)
    BY LineType DEF HandleJson, NextLine, IInv, ChildType
  <2>2. 1 \in 1..Len(lines) /\ line = lines[1]
    BY <2>1 DEF line
  <2>. QED BY <2>1, <2>2 DEF IInv, LinesTruthful
<1>2. ASSUME NEW c \in S PROVE c \in Calls /\ c = line.to
  <2>1. c \in Calls /\ owner[c] = handler /\ id[c] = line.id /\ line.kind # "note"
    BY <1>1, <1>2 DEF Addressee, IInv, ExactlyOnce, Waiting
  <2>2. line.kind \in Answers
    BY <1>1, <2>1 DEF HandleJson, Line, Kinds, Truthful, Answers
  <2>3. line.to \in Calls /\ owner[line.to] = handler /\ id[line.to] = line.id
    BY <1>1, <2>2 DEF Truthful
  <2>. QED BY <1>1, <2>1, <2>3 DEF IInv, RequestsKnown
<1>3. Replies(S, why)
  <2>1. got' = [c \in Calls |-> IF c \in S /\ line.kind # "error" THEN line.to ELSE got[c]]
    BY DEF HandleJson
  <2>. QED BY <1>2, <2>1 DEF Replies
<1>. QED BY <1>3 DEF Settling

(* Every step that is not a call is a set of replies of the abstract        *)
(* transport.                                                               *)
LEMMA StepReplies ==
  ASSUME IInv, Next, ~Call, "request" \notin ChatterKinds
  PROVE  \E S \in SUBSET Waiting, why \in Reasons : Settling(S, why) /\ Replies(S, why)
<1>1. CASE HandleJson
  BY <1>1, JsonReplies
<1>2. CASE ~HandleJson
  <2> PICK S \in SUBSET Waiting, why \in Reasons : Settling(S, why)
    BY StepSettles
  <2>1. got' = got /\ \A c \in Waiting : outcome'[c] # "resolved"
    BY <1>2, Unanswered
  <2>2. \A c \in S : outcome'[c] = why
    BY DEF Settling, Settle, Waiting
  <2>3. why = "resolved" => S = {}
    BY <2>1, <2>2
  <2>4. got = [c \in Calls |-> got[c]]
    BY DEF IInv, CallType
  <2>. QED BY <2>1, <2>3, <2>4 DEF Replies
<1>. QED BY <1>1, <1>2

(* A call leaves every promise but its own alone, and does not resolve it.   *)
LEMMA CallReplies ==
  ASSUME IInv, Call
  PROVE  \E c \in Calls, w \in Reasons \cup {"waiting"} :
           /\ outcome[c] = "idle" /\ w # "resolved" /\ got' = got
           /\ outcome' = [outcome EXCEPT ![c] = w]
<1> PICK c \in Calls, s \in Servers :
      /\ outcome[c] = "idle" /\ owner[c] = 0
      /\ CallBroken(c, s) \/ CallReuse(c, s) \/ CallNoStdin(c, s) \/ CallSpawn(c, s)
  BY CallWays
<1>1. got' = got
  BY DEF CallBroken, CallReuse, CallNoStdin, CallSpawn, TakeId, callVars
<1>2. \E w \in {"broken", "waiting", "stdin"} : outcome' = [outcome EXCEPT ![c] = w]
  BY SpawnRejectsNobody DEF CallBroken, CallReuse, CallNoStdin
<1>. QED BY <1>1, <1>2 DEF Reasons, Outcomes

(* No call gets the response to another one, provided the children send no   *)
(* requests of their own.                                                    *)
THEOREM OwnResponses == "request" \notin ChatterKinds => (Spec => []OwnResponse)
<1> SUFFICES ASSUME "request" \notin ChatterKinds PROVE Spec => []OwnResponse
  OBVIOUS
<1>1. Init => OwnResponse
  BY DEF Init, OwnResponse
<1>2. IInv /\ OwnResponse /\ [Next]_vars => OwnResponse'
  <2> SUFFICES ASSUME IInv, OwnResponse, [Next]_vars PROVE OwnResponse'
    OBVIOUS
  <2>1. CASE UNCHANGED vars
    BY <2>1 DEF vars, settleVars, callVars, OwnResponse
  <2>2. CASE Next /\ Call
    BY <2>2, CallReplies DEF OwnResponse, IInv, CallType
  <2>3. CASE Next /\ ~Call
    <3> PICK S \in SUBSET Waiting, why \in Reasons : Settling(S, why) /\ Replies(S, why)
      BY <2>3, StepReplies
    <3>1. \A c \in Calls : outcome'[c] = IF c \in S THEN why ELSE outcome[c]
      BY DEF Settling, Settle, Waiting
    <3>. QED BY <3>1 DEF Replies, OwnResponse
  <2>. QED BY <2>1, <2>2, <2>3
<1>. QED BY <1>1, <1>2, Invariant, PTL DEF Spec

(* Under the same condition the bridge implements Transport: every step      *)
(* issues, refuses, resolves or rejects calls as an McpTransport may.        *)
THEOREM ImplementsTransport == "request" \notin ChatterKinds => (Spec => TransportSpec)
<1> SUFFICES ASSUME "request" \notin ChatterKinds PROVE Spec => TransportSpec
  OBVIOUS
<1>1. Init => T!Init
  BY DEF Init, T!Init, State
<1>2. IInv /\ [Next]_vars => [T!Next]_(T!vars)
  <2> SUFFICES ASSUME IInv, [Next]_vars PROVE [T!Next]_(T!vars)
    OBVIOUS
  <2>1. CASE UNCHANGED vars
    BY <2>1 DEF vars, settleVars, callVars, T!vars, State
  <2>2. CASE Next /\ Call
    <3> PICK c \in Calls, w \in Reasons \cup {"waiting"} :
          /\ outcome[c] = "idle" /\ w # "resolved" /\ got' = got
          /\ outcome' = [outcome EXCEPT ![c] = w]
      BY <2>2, CallReplies
    <3>1. State(c) = "idle" /\ \A d \in Calls \ {c} : State(d)' = State(d)
      BY DEF State, IInv, CallType
    <3>2. CASE w = "waiting"
      <4>1. State(c)' = "waiting"
        BY <3>2 DEF State, IInv, CallType
      <4>2. T!Issue(c)
        BY <3>1, <4>1 DEF T!Issue
      <4>. QED BY <4>2 DEF T!Next
    <3>3. CASE w # "waiting"
      <4>1. State(c)' = "rejected"
        BY <3>3 DEF State, IInv, CallType, Reasons
      <4>2. T!Refuse(c)
        BY <3>1, <4>1 DEF T!Refuse
      <4>. QED BY <4>2 DEF T!Next
    <3>. QED BY <3>2, <3>3
  <2>3. CASE Next /\ ~Call
    <3> PICK S \in SUBSET Waiting, why \in Reasons : Settling(S, why) /\ Replies(S, why)
      BY <2>3, StepReplies
    <3>1. /\ \A c \in Calls : outcome'[c] = IF c \in S THEN why ELSE outcome[c]
          /\ \A c \in S : c \in Calls /\ outcome[c] = "waiting"
      BY DEF Settling, Settle, Waiting
    <3>2. /\ \A c \in S : State(c) = "waiting"
          /\ \A c \in Calls \ S : State(c)' = State(c)
      BY <3>1 DEF State
    <3>3. CASE why # "resolved"
      <4>1. \A c \in S : State(c)' = "rejected"
        BY <3>1, <3>3 DEF State, Reasons
      <4>2. got' = got
        BY <3>3 DEF Replies, IInv, CallType
      <4>3. S \in SUBSET Calls
        BY <3>1
      <4>4. T!Reject(S)
        BY <3>2, <4>1, <4>2, <4>3 DEF T!Reject
      <4>. QED BY <4>3, <4>4 DEF T!Next
    <3>4. CASE why = "resolved" /\ S = {}
      BY <3>2, <3>4 DEF Replies, IInv, CallType, T!vars
    <3>5. CASE why = "resolved" /\ S # {}
      <4> PICK c \in S : S = {c}
        BY <3>5 DEF Replies
      <4>1. State(c)' = "resolved" /\ c \in Calls
        BY <3>1, <3>5 DEF State
      <4>2. got' = [got EXCEPT ![c] = c]
        BY <3>5 DEF Replies, IInv, CallType
      <4>3. T!Resolve(c)
        BY <3>2, <4>1, <4>2 DEF T!Resolve
      <4>. QED BY <4>1, <4>3 DEF T!Next
    <3>. QED BY <3>3, <3>4, <3>5
  <2>. QED BY <2>1, <2>2, <2>3
<1>. QED BY <1>1, <1>2, Invariant, PTL DEF Spec, TransportSpec, T!Spec
-----------------------------------------------------------------------------
(* Shutdown, when no call() is made once it has begun.                       *)

(* StopKnown holds at the start. *)
LEMMA StopInit == Init => StopKnown
BY DEF Init, StopKnown, Live

(* A process that is alive when shutdown() begins is in the map. *)
LEMMA StopShutdown ==
  ASSUME IInv, StopKnown, Shutdown
  PROVE  StopKnown'
<1>1. /\ phase = "running" /\ Managed \in SUBSET Procs
      /\ \A p \in Procs : Live(p) => p \in Managed
  BY DEF Shutdown, IInv, OneLiveChild, Managed, ManagedType
<1>2. \A p \in Procs : Live(p)' <=> Live(p)
  BY DEF Shutdown, Live
<1>3. \A p \in Procs : Live(p) => stop'[p] = "grace"
  BY <1>1 DEF Shutdown, Live
<1>4. Waiting' = {}
  <2>1. \A c \in Waiting : c \in UNION {pending[p] : p \in Managed}
    <3> SUFFICES ASSUME NEW c \in Waiting PROVE \E p \in Managed : c \in pending[p]
      OBVIOUS
    <3>1. owner[c] \in Procs /\ c \in pending[owner[c]] /\ owner[c] <= spawned
      BY BridgeAssumption DEF IInv, ExactlyOnce, RequestsKnown, Waiting, CallType
    <3>2. exit[owner[c]] = "running"
      BY <3>1 DEF IInv, DeadHoldNothing
    <3>. QED BY <1>1, <3>1, <3>2 DEF Live
  <2>2. \A c \in Calls : c \in UNION {pending[p] : p \in Managed} =>
          outcome'[c] # "waiting"
    BY DEF Shutdown, Settle
  <2>3. \A c \in Calls : outcome[c] # "waiting" => outcome'[c] # "waiting"
    BY DEF Shutdown, Settle
  <2>. QED BY <2>1, <2>2, <2>3 DEF Waiting
<1>5. phase' # "running" /\ (phase' = "cleared" => \A p \in Procs : stop'[p] # "grace")
  BY DEF Shutdown, Stopped
<1>. QED BY <1>2, <1>3, <1>4, <1>5 DEF StopKnown

(* StopKnown is kept as long as no call arrives after shutdown(). *)
LEMMA StopNext ==
  ASSUME IInv, StopKnown, Next, ~LateCalls
  PROVE  StopKnown'
<1>1. CASE Shutdown
  BY <1>1, StopShutdown
<1>2. CASE Call
  BY <1>2 DEF Call, CallBroken, CallReuse, CallNoStdin, CallSpawn, MayCall, stopVars,
     StopKnown
<1>3. CASE ~Call /\ ~Shutdown
  <2> PICK S \in SUBSET Waiting, why \in Reasons : Settling(S, why)
    BY <1>3, StepSettles
  <2>1. Frame
    BY <1>3, StepFrame
  <2>2. Waiting' \subseteq Waiting
    BY OnceSettling DEF IInv
  <2>3. \A p \in Procs : Live(p)' => Live(p)
    BY <2>1 DEF Frame, Table, Processes, Live
  <2>4. CASE UNCHANGED <<phase, stop>>
    BY <2>2, <2>3, <2>4 DEF StopKnown
  <2>5. CASE \E p \in Procs : GraceExpires(p)
    <3> PICK p \in Procs : GraceExpires(p)
      BY <2>5
    <3>1. /\ phase' = phase /\ stop[p] = "grace" /\ stop'[p] = "ceiling"
          /\ \A q \in Procs \ {p} : stop'[q] = stop[q]
      BY DEF GraceExpires, IInv, ManagedType
    <3>. QED BY <2>2, <2>3, <3>1 DEF StopKnown
  <2>6. CASE \E p \in Procs : CeilingExpires(p) \/ \E how \in {"code", "signal"} : Exits(p, how)
    <3> PICK p \in Procs : CeilingExpires(p) \/ \E how \in {"code", "signal"} : Exits(p, how)
      BY <2>6
    <3>1. /\ Settled(stop') /\ \A q \in Procs \ {p} : stop'[q] = stop[q]
          /\ \/ stop'[p] = "leaked" /\ stop[p] = "ceiling"
             \/ ~Live(p)' /\ (stop[p] = "no" => stop'[p] = "no")
      BY DEF CeilingExpires, Exits, Live, IInv, ManagedType, ChildType
    <3>2. \/ phase' = phase
          \/ phase = "stopping" /\ phase' = "cleared" /\ Stopped(stop')
      BY <3>1 DEF Settled
    <3>. QED BY <2>2, <2>3, <3>1, <3>2 DEF StopKnown, Stopped
  <2>7. UNCHANGED <<phase, stop>> \/ (\E p \in Procs : GraceExpires(p))
        \/ \E p \in Procs : CeilingExpires(p) \/ \E how \in {"code", "signal"} : Exits(p, how)
    <3>1. ASSUME NEW p \in Procs, Data(p) PROVE UNCHANGED <<phase, stop>>
      BY <3>1 DEF Data, DiscardChunk, ReceiveChunk, stopVars
    <3>2. ASSUME NEW p \in Procs, Child(p)
          PROVE  UNCHANGED <<phase, stop>> \/ \E how \in {"code", "signal"} : Exits(p, how)
      BY <3>2 DEF Child, Answer, Chatter, StdinError, stopVars
    <3>3. HandleLine \/ EndChunk => UNCHANGED <<phase, stop>>
      BY DEF HandleLine, SkipBlank, HandleOversized, HandleNonJson, HandleJson, EndChunk,
         stopVars
    <3>4. Timers => \/ UNCHANGED <<phase, stop>>
                    \/ \E p \in Procs : GraceExpires(p) \/ CeilingExpires(p)
      BY DEF Timers, TimeoutFires, stopVars
    <3>. QED BY <1>3, <3>1, <3>2, <3>3, <3>4 DEF Next
  <2>. QED BY <2>4, <2>5, <2>6, <2>7
<1>. QED BY <1>1, <1>2, <1>3

(* When shutdown() resolves, every child has exited or was given up after    *)
(* SIGKILL, and no call waits.                                               *)
THEOREM ShutdownLeaves == ~LateCalls => (Spec => []ShutdownLeavesNothing)
<1> SUFFICES ASSUME ~LateCalls PROVE Spec => []ShutdownLeavesNothing
  OBVIOUS
<1>1. IInv /\ StopKnown /\ [Next]_vars => StopKnown'
  <2>1. ASSUME UNCHANGED vars, StopKnown PROVE StopKnown'
    BY <2>1 DEF vars, mapVars, procVars, stopVars, settleVars, StopKnown, Live, Waiting
  <2>. QED BY <2>1, StopNext
<1>2. StopKnown => ShutdownLeavesNothing
  BY DEF StopKnown, ShutdownLeavesNothing
<1>. QED BY <1>1, <1>2, StopInit, Invariant, PTL DEF Spec
=============================================================================
