--------------------------- MODULE StdioCapProofs ---------------------------
(***************************************************************************)
(* What the cap on a line (maxResponseBytes, stdio-bridge.ts) costs, and   *)
(* whom, for any lines, however they are cut into chunks.                  *)
(***************************************************************************)
EXTENDS StdioBridgeProofs, SequenceTheorems, FiniteSetTheorems

USE DEF Procs, TypeOK

(* The bytes of a line are counted once, and those that are dropped never.  *)
BufInv == \A p \in Procs : buffer[p] = IF discarding[p] THEN 0 ELSE part[p]
-----------------------------------------------------------------------------
(* The buffer.                                                              *)

LEMMA BufStarts == Init => BufInv
BY DEF Init, BufInv

LEMMA BufKeeps ==
  ASSUME IInv, BufInv, [Next]_vars
  PROVE  BufInv'
<1>1. ASSUME UNCHANGED <<buffer, discarding, part>> PROVE BufInv'
  BY <1>1 DEF BufInv
<1>2. ASSUME NEW p \in Procs, Data(p) PROVE BufInv'
  <2>1. ASSUME NEW k \in Bytes(p, 0), DiscardChunk(p, k) PROVE BufInv'
    BY <2>1 DEF DiscardChunk, BufInv, managedVars, IInv, ChildType
  <2>2. ASSUME NEW j \in 0..Len(out[p]), NEW k \in Bytes(p, j), ReceiveChunk(p, j, k) PROVE BufInv'
    <3>1. buffer' = [buffer EXCEPT ![p] = Leftover(p, j, k)] /\ part' = [part EXCEPT ![p] = k]
          /\ discarding' = [discarding EXCEPT ![p] = FALSE]
      BY <2>2 DEF ReceiveChunk
    <3>2. Leftover(p, j, k) = k
      <4>1. k \in Nat
        BY <2>2 DEF Bytes
      <4>3. part[p] \in Nat
        BY DEF IInv, ChildType
      <4>2. j = 0 => buffer[p] = part[p]
        BY <2>2 DEF ReceiveChunk, BufInv
      <4>. QED BY <4>1, <4>2, <4>3 DEF Leftover
    <3>3. buffer'[p] = k /\ part'[p] = k /\ ~discarding'[p]
      BY <3>1, <3>2 DEF IInv, ChildType, ManagedType
    <3>4. \A q \in Procs \ {p} : buffer'[q] = buffer[q] /\ part'[q] = part[q] /\ discarding'[q] = discarding[q]
      BY <3>1 DEF IInv, ChildType, ManagedType
    <3>. QED BY <3>3, <3>4 DEF BufInv
  <2>. QED BY <1>2, <2>1, <2>2 DEF Data
<1>3. CASE EndChunk
  <2>1. part' = part
    BY <1>3 DEF EndChunk, pipeVars
  <2>2. CASE OverCap(buffer[handler])
    <3>1. buffer' = [buffer EXCEPT ![handler] = 0] /\ discarding' = [discarding EXCEPT ![handler] = TRUE]
      BY <1>3, <2>2 DEF EndChunk
    <3>2. \A q \in Procs : buffer'[q] = (IF q = handler THEN 0 ELSE buffer[q])
                          /\ discarding'[q] = (q = handler \/ discarding[q])
      BY <3>1 DEF IInv, ManagedType
    <3>. QED BY <2>1, <3>2 DEF BufInv
  <2>3. CASE ~OverCap(buffer[handler])
    BY <1>1, <1>3, <2>1, <2>3 DEF EndChunk
  <2>. QED BY <2>2, <2>3
<1>4. CASE HandleLine
  BY <1>1, <1>4 DEF HandleLine, SkipBlank, HandleOversized, HandleNonJson, HandleJson, managedVars, pipeVars
<1>5. CASE Call
  BY <1>1, <1>5 DEF Call, CallBroken, CallReuse, CallNoStdin, CallSpawn, managedVars, pipeVars
<1>6. ASSUME NEW p \in Procs, Child(p) PROVE BufInv'
  BY <1>1, <1>6 DEF Child, Answer, Chatter, Exits, StdinError, managedVars, pipeVars
<1>7. CASE Timers
  BY <1>1, <1>7 DEF Timers, TimeoutFires, GraceExpires, CeilingExpires, managedVars, pipeVars
<1>8. CASE Shutdown
  BY <1>1, <1>8 DEF Shutdown, managedVars, pipeVars
<1>9. CASE UNCHANGED vars
  BY <1>1, <1>9 DEF vars, managedVars, pipeVars
<1>. QED BY <1>2, <1>3, <1>4, <1>5, <1>6, <1>7, <1>8, <1>9 DEF Next

(* No bytes of one line are counted as another's (the listener of stdout in *)
(* getOrSpawn), at any cut and with any line dropped.                       *)
THEOREM BufferHoldsPart == Spec => []BufferIsPart
<1>1. BufInv => BufferIsPart
  BY DEF BufInv, BufferIsPart
<1>2. Spec => []BufInv
  BY BufStarts, BufKeeps, Invariant, PTL DEF Spec
<1>. QED BY <1>1, <1>2, PTL
-----------------------------------------------------------------------------
(* The stream under every step.                                             *)

LEMMA OverCapPart ==
  ASSUME IInv, BufInv, NEW h \in Procs, OverCap(buffer[h])
  PROVE  ~discarding[h] /\ out[h] # <<>> /\ OverCap(out[h][1].size)
<1>1. ~discarding[h] /\ part[h] = buffer[h] /\ part[h] \in Nat /\ Cap \in Nat /\ part[h] > Cap /\ Cap > 0
  BY BridgeAssumption DEF BufInv, OverCap, IInv, ChildType
<1>2. part[h] \in Bytes(h, 0) /\ out[h] \in Seq(Line)
  BY DEF IInv, PartFits, ChildType
<1>3. CASE Len(out[h]) > 0
  <2>1. out[h] # <<>> /\ out[h][1] \in Line
    BY <1>2, <1>3
  <2>2. part[h] <= out[h][1].size /\ out[h][1].size \in Nat
    BY <1>2, <1>3, <2>1 DEF Bytes, Line
  <2>. QED BY <1>1, <2>1, <2>2 DEF OverCap
<1>4. CASE ~(Len(out[h]) > 0)
  <2>1. part[h] \in 0..0
    BY <1>2, <1>4 DEF Bytes
  <2>. QED BY <1>1, <2>1
<1>. QED BY <1>3, <1>4

(* A line that is being dropped is still to be written to its end. *)
Dropped == \A p \in Procs : discarding[p] => out[p] # <<>>

LEMMA DroppedStarts == Init => Dropped
BY DEF Init, Dropped

LEMMA DroppedKeeps ==
  ASSUME IInv, BufInv, Dropped, [Next]_vars
  PROVE  Dropped'
<1>1. ASSUME UNCHANGED <<out, discarding>> PROVE Dropped'
  BY <1>1 DEF Dropped
<1>2. ASSUME NEW p \in Procs, NEW j, NEW k, ReceiveChunk(p, j, k) PROVE Dropped'
  <2>1. ~discarding'[p] /\ \A q \in Procs \ {p} : discarding'[q] = discarding[q] /\ out'[q] = out[q]
    BY <1>2 DEF ReceiveChunk, IInv, ManagedType, ChildType
  <2>. QED BY <2>1 DEF Dropped
<1>3. ASSUME NEW p \in Procs, NEW l, Write(p, l), discarding' = discarding PROVE Dropped'
  <2>1. /\ out'[p] = Append(out[p], l) /\ out[p] \in Seq(Line)
        /\ \A q \in Procs \ {p} : out'[q] = out[q]
    BY <1>3 DEF Write, IInv, ChildType
  <2>2. Append(out[p], l) # <<>>
    BY <2>1
  <2>. QED BY <1>3, <2>1, <2>2 DEF Dropped
<1>4. CASE EndChunk
  <2>1. PICK h \in Procs : h = handler
    BY <1>4 DEF EndChunk, IInv, ChildType
  <2>2. out' = out
    BY <1>4 DEF EndChunk, pipeVars
  <2>3. CASE OverCap(buffer[h])
    <3>1. out[h] # <<>> /\ discarding' = [discarding EXCEPT ![h] = TRUE]
      BY <1>4, <2>1, <2>3, OverCapPart DEF EndChunk
    <3>2. \A q \in Procs \ {h} : discarding'[q] = discarding[q]
      BY <3>1 DEF IInv, ManagedType
    <3>. QED BY <2>2, <3>1, <3>2 DEF Dropped
  <2>4. CASE ~OverCap(buffer[h])
    BY <1>1, <1>4, <2>1, <2>2, <2>4 DEF EndChunk
  <2>. QED BY <2>3, <2>4
<1>5. ASSUME NEW p \in Procs, Data(p) PROVE Dropped'
  <2>1. ASSUME NEW k, DiscardChunk(p, k) PROVE Dropped'
    BY <1>1, <2>1 DEF DiscardChunk, managedVars
  <2>. QED BY <1>2, <1>5, <2>1 DEF Data
<1>6. CASE HandleLine
  BY <1>1, <1>6 DEF HandleLine, SkipBlank, HandleOversized, HandleNonJson, HandleJson, managedVars, pipeVars
<1>7. CASE Call
  BY <1>1, <1>7 DEF Call, CallBroken, CallReuse, CallNoStdin, CallSpawn, managedVars, pipeVars
<1>8. ASSUME NEW p \in Procs, Child(p) PROVE Dropped'
  <2>1. ASSUME NEW how, Exits(p, how) \/ StdinError(p) PROVE Dropped'
    BY <1>1, <2>1 DEF Exits, StdinError, managedVars, pipeVars
  <2>2. ASSUME NEW c, NEW kind, NEW size, Answer(p, c, kind, size) \/ Chatter(p, kind, size) PROVE Dropped'
    <3>1. discarding' = discarding /\ \E l : Write(p, l)
      BY <2>2 DEF Answer, Chatter, managedVars
    <3>. QED BY <1>3, <3>1
  <2>. QED BY <1>8, <2>1, <2>2 DEF Child
<1>9. CASE Timers
  BY <1>1, <1>9 DEF Timers, TimeoutFires, GraceExpires, CeilingExpires, managedVars, pipeVars
<1>10. CASE Shutdown
  BY <1>1, <1>10 DEF Shutdown, managedVars, pipeVars
<1>11. CASE UNCHANGED vars
  BY <1>1, <1>11 DEF vars, managedVars, pipeVars
<1>. QED BY <1>4, <1>5, <1>6, <1>7, <1>8, <1>9, <1>10, <1>11 DEF Next

(* All that a child has written and the bridge has not handled is one stream *)
(* of lines, but for a line that is being dropped: it has been dealt with.   *)
(* A step leaves a stream as it is, takes its head, or adds a last line, and *)
(* no cut into chunks disturbs it.                                           *)
Here(p)   == IF handler = p THEN lines ELSE <<>>
Rest(p)   == IF discarding[p] /\ out[p] # <<>> THEN Tail(out[p]) ELSE out[p]
Stream(p) == Here(p) \o Rest(p)

LEMMA StreamParts ==
  ASSUME IInv, NEW p \in Procs
  PROVE  Here(p) \in Seq(Line) /\ Rest(p) \in Seq(Line) /\ out[p] \in Seq(Line)
<1>1. out[p] \in Seq(Line) /\ lines \in Seq(Line)
  BY DEF IInv, ChildType
<1>2. out[p] # <<>> => Tail(out[p]) \in Seq(Line)
  BY <1>1, HeadTailProperties
<1>. QED BY <1>1, <1>2 DEF Rest, Here

LEMMA StreamType ==
  ASSUME IInv, NEW p \in Procs
  PROVE  Stream(p) \in Seq(Line)
BY StreamParts, ConcatProperties DEF Stream

LEMMA StreamQuiet ==
  ASSUME UNCHANGED <<out, handler, lines, discarding>>
  PROVE  \A p \in Procs : Stream(p)' = Stream(p)
BY DEF Stream, Rest, Here

(* A line that is handled was the head of the stream. *)
LEMMA StreamLine ==
  ASSUME IInv, NextLine, UNCHANGED <<handler, out, discarding>>
  PROVE  \E h \in Procs : /\ h = handler /\ Stream(h) # <<>> /\ line = Stream(h)[1]
                         /\ Stream(h)' = Tail(Stream(h))
                         /\ \A p \in Procs \ {h} : Stream(p)' = Stream(p)
<1>0. PICK h : h = handler
  OBVIOUS
<1>1. h \in Procs /\ lines \in Seq(Line) /\ lines # <<>> /\ lines' = Tail(lines)
  BY <1>0, LineType DEF IInv, ChildType, NextLine
<1>2. Here(h) = lines /\ Here(h)' = Tail(lines) /\ Rest(h)' = Rest(h) /\ Rest(h) \in Seq(Line)
  BY <1>0, <1>1, StreamParts DEF Here, Rest
<1>3. \A p \in Procs \ {h} : Here(p) = <<>> /\ Here(p)' = <<>> /\ Rest(p)' = Rest(p)
  BY <1>0 DEF Here, Rest
<1>4. \A p \in Procs : Stream(p)' = Here(p)' \o Rest(p)'
  BY DEF Stream
<1>5. PICK a, b, s : a = lines /\ b = Rest(h) /\ s = a \o b
  OBVIOUS
<1>6. a \in Seq(Line) /\ a # <<>> /\ b \in Seq(Line)
  BY <1>1, <1>2, <1>5
<1>7. s # <<>> /\ s[1] = a[1] /\ Tail(s) = Tail(a) \o b
  <2>1. PICK n \in Nat, m \in Nat : Len(a) = n + 1 /\ Len(b) = m
    <3>1. Len(a) \in Nat \ {0} /\ Len(b) \in Nat
      BY <1>6, EmptySeq, LenProperties
    <3>2. Len(a) = (Len(a) - 1) + 1 /\ Len(a) - 1 \in Nat
      BY <3>1
    <3>. QED BY <3>1, <3>2
  <2>2. /\ s \in Seq(Line) /\ Len(s) = n + 1 + m
        /\ \A i \in 1..(n + 1 + m) : s[i] = IF i <= n + 1 THEN a[i] ELSE b[i - (n + 1)]
    BY <1>5, <1>6, <2>1, ConcatProperties
  <2>3. Tail(a) \in Seq(Line) /\ Len(Tail(a)) = n /\ \A i \in 1..n : Tail(a)[i] = a[i + 1]
    BY <1>6, <2>1, HeadTailProperties
  <2>4. PICK t : t = Tail(a) /\ t \in Seq(Line) /\ Len(t) = n /\ \A i \in 1..n : t[i] = a[i + 1]
    BY <2>3
  <2>5. /\ t \o b \in Seq(Line) /\ Len(t \o b) = n + m
        /\ \A i \in 1..(n + m) : (t \o b)[i] = IF i <= n THEN t[i] ELSE b[i - n]
    <3>1. /\ t \o b \in Seq(Line) /\ Len(t \o b) = Len(t) + Len(b)
          /\ \A i \in 1..(Len(t) + Len(b)) : (t \o b)[i] = IF i <= Len(t) THEN t[i] ELSE b[i - Len(t)]
      BY <1>6, <2>4, ConcatProperties
    <3>. QED BY <2>1, <2>4, <3>1
  <2>6. s # <<>>
    BY <2>2
  <2>7. Tail(s) \in Seq(Line) /\ Len(Tail(s)) = n + m /\ \A i \in 1..(n + m) : Tail(s)[i] = s[i + 1]
    BY <2>2, <2>6, HeadTailProperties
  <2>8. ASSUME NEW i \in 1..(n + m) PROVE Tail(s)[i] = (t \o b)[i]
    <3>1. i + 1 \in 1..(n + 1 + m) /\ (i + 1) - (n + 1) = i - n /\ (i + 1 <= n + 1 <=> i <= n)
      BY <2>8
    <3>2. i <= n => i \in 1..n
      OBVIOUS
    <3>3. Tail(s)[i] = IF i <= n THEN a[i + 1] ELSE b[i - n]
      <4>1. s[i + 1] = IF i + 1 <= n + 1 THEN a[i + 1] ELSE b[(i + 1) - (n + 1)]
        BY <2>2, <3>1
      <4>2. Tail(s)[i] = s[i + 1]
        BY <2>7
      <4>. QED BY <3>1, <4>1, <4>2
    <3>4. (t \o b)[i] = IF i <= n THEN a[i + 1] ELSE b[i - n]
      BY <2>4, <2>5, <3>2
    <3>5. CASE i <= n
      BY <3>3, <3>4, <3>5
    <3>6. CASE ~(i <= n)
      BY <3>3, <3>4, <3>6
    <3>. QED BY <3>5, <3>6
  <2>9. Tail(s) = t \o b
    BY <2>5, <2>7, <2>8, SeqEqual
  <2>10. 1 \in 1..(n + 1 + m) /\ 1 <= n + 1
    OBVIOUS
  <2>. QED BY <2>2, <2>4, <2>6, <2>9, <2>10
<1>8. Stream(h) = s /\ Stream(h)' = Tail(s)
  BY <1>1, <1>2, <1>4, <1>5, <1>7 DEF Stream
<1>9. line = lines[1]
  BY DEF line, IInv, ChildType, NextLine
<1>10. \A p \in Procs \ {h} : Stream(p)' = Stream(p)
  BY <1>3, <1>4 DEF Stream
<1>. QED BY <1>0, <1>1, <1>5, <1>7, <1>8, <1>9, <1>10

(* A line that begins to be dropped was the head of the stream. *)
LEMMA StreamDrop ==
  ASSUME IInv, BufInv, EndChunk
  PROVE  \E h \in Procs :
           /\ h = handler
           /\ \A p \in Procs \ {h} : Stream(p)' = Stream(p)
           /\ IF OverCap(buffer[h])
              THEN /\ Stream(h) # <<>> /\ OverCap(Stream(h)[1].size)
                   /\ Stream(h)' = Tail(Stream(h))
              ELSE Stream(h)' = Stream(h)
<1>0. PICK h \in Procs : h = handler
  BY DEF EndChunk, IInv, ChildType
<1>1. lines = <<>> /\ lines' = lines /\ handler' = 0 /\ out' = out
  BY DEF EndChunk, pipeVars
<1>2. \A p \in Procs : Here(p) = <<>> /\ Here(p)' = <<>>
  BY <1>1 DEF Here
<1>3. \A p \in Procs : Stream(p) = Rest(p) /\ Stream(p)' = Rest(p)'
  <2>1. \A p \in Procs : Rest(p) \in Seq(Line)
    BY StreamParts
  <2>2. out' \in [Procs -> Seq(Line)]
    BY <1>1 DEF IInv, ChildType
  <2>3. \A p \in Procs : Rest(p)' \in Seq(Line)
    BY <2>2, HeadTailProperties DEF Rest
  <2>4. \A p \in Procs : Stream(p) = <<>> \o Rest(p) /\ Stream(p)' = <<>> \o Rest(p)'
    BY <1>2 DEF Stream
  <2>. QED BY <2>1, <2>3, <2>4, ConcatEmptySeq
<1>4. CASE OverCap(buffer[h])
  <2>1. ~discarding[h] /\ out[h] # <<>> /\ OverCap(out[h][1].size)
    BY <1>4, OverCapPart
  <2>2. discarding' = [discarding EXCEPT ![h] = TRUE]
    BY <1>0, <1>4 DEF EndChunk
  <2>3. discarding'[h] /\ \A p \in Procs \ {h} : discarding'[p] = discarding[p]
    BY <2>2 DEF IInv, ManagedType
  <2>4. Rest(h) = out[h] /\ Rest(h)' = Tail(out[h]) /\ \A p \in Procs \ {h} : Rest(p)' = Rest(p)
    BY <1>1, <2>1, <2>3 DEF Rest
  <2>. QED BY <1>0, <1>3, <1>4, <2>1, <2>4
<1>5. CASE ~OverCap(buffer[h])
  <2>1. discarding' = discarding
    BY <1>0, <1>5 DEF EndChunk
  <2>2. \A p \in Procs : Rest(p)' = Rest(p)
    BY <1>1, <2>1 DEF Rest
  <2>. QED BY <1>0, <1>3, <1>5, <2>2
<1>. QED BY <1>4, <1>5

(* A line that is written is the last of the stream. *)
LEMMA StreamWrite ==
  ASSUME IInv, Dropped, NEW p \in Procs, NEW l \in Line, Write(p, l), UNCHANGED <<handler, lines, discarding>>
  PROVE  /\ Stream(p)' = Append(Stream(p), l)
         /\ \A q \in Procs \ {p} : Stream(q)' = Stream(q)
<1>1. out'[p] = Append(out[p], l) /\ \A q \in Procs \ {p} : out'[q] = out[q]
  BY DEF Write, IInv, ChildType
<1>2. \A q \in Procs : Here(q)' = Here(q) /\ Here(q) \in Seq(Line) /\ Rest(q) \in Seq(Line) /\ out[q] \in Seq(Line)
  BY StreamParts DEF Here
<1>3. Rest(p)' = Append(Rest(p), l)
  <2>1. Append(out[p], l) # <<>>
    <3>1. out[p] \in Seq(Line)
      BY <1>2
    <3>. QED BY <3>1, AppendProperties
  <2>2. CASE discarding[p]
    <3>1. out[p] # <<>>
      BY <2>2 DEF Dropped
    <3>2. Tail(Append(out[p], l)) = Append(Tail(out[p]), l)
      BY <1>2, <3>1, HeadTailAppend
    <3>. QED BY <1>1, <2>1, <2>2, <3>1, <3>2 DEF Rest
  <2>3. CASE ~discarding[p]
    BY <1>1, <2>3 DEF Rest
  <2>. QED BY <2>2, <2>3
<1>4. \A q \in Procs \ {p} : Rest(q)' = Rest(q)
  BY <1>1 DEF Rest
<1>5. \A q \in Procs : Stream(q)' = Here(q)' \o Rest(q)'
  BY DEF Stream
<1>6. PICK a, b : a = Here(p) /\ b = Rest(p) /\ a \in Seq(Line) /\ b \in Seq(Line)
  BY <1>2
<1>7. a \o Append(b, l) = Append(a \o b, l)
  <2>1. Append(b, l) = b \o <<l>> /\ Append(a \o b, l) = (a \o b) \o <<l>>
    BY <1>6, AppendIsConcat, ConcatProperties
  <2>2. <<l>> \in Seq(Line)
    OBVIOUS
  <2>. QED BY <1>6, <2>1, <2>2, ConcatAssociative
<1>. QED BY <1>2, <1>3, <1>4, <1>5, <1>6, <1>7 DEF Stream

(* A chunk hands over the lines it ends, and takes nothing from the stream. *)
LEMMA StreamReceive ==
  ASSUME IInv, IInv', BufInv, NEW p \in Procs, NEW j \in 0..Len(out[p]), NEW k, ReceiveChunk(p, j, k)
  PROVE  \A q \in Procs : Stream(q)' = Stream(q)
<1>0. PICK s : s = out[p]
  OBVIOUS
<1>1. /\ handler = 0 /\ handler' = p /\ out' = [out EXCEPT ![p] = SubSeq(@, j + 1, Len(@))]
      /\ discarding' = [discarding EXCEPT ![p] = FALSE]
  BY DEF ReceiveChunk, ChunkEnd, Idle
<1>2. /\ s \in Seq(Line) /\ out'[p] = SubSeq(s, j + 1, Len(s)) /\ ~discarding'[p]
      /\ \A q \in Procs \ {p} : out'[q] = out[q] /\ discarding'[q] = discarding[q]
  <2>1. out \in [Procs -> Seq(Line)] /\ discarding \in [Procs -> BOOLEAN]
    BY DEF IInv, ChildType, ManagedType
  <2>2. out'[p] = SubSeq(s, j + 1, Len(s)) /\ \A q \in Procs \ {p} : out'[q] = out[q]
    BY <1>0, <1>1, <2>1
  <2>3. ~discarding'[p] /\ \A q \in Procs \ {p} : discarding'[q] = discarding[q]
    BY <1>1, <2>1
  <2>. QED BY <1>0, <2>1, <2>2, <2>3
<1>3. PICK n \in Nat : n = Len(s)
  BY <1>2, LenProperties
<1>4. j \in Nat /\ j <= n
  BY <1>0, <1>3
<1>5. PICK u : u = out'[p]
  OBVIOUS
<1>6. u \in Seq(Line) /\ Len(u) = n - j /\ \A i \in 1..(n - j) : u[i] = s[j + i]
  <2>1. \A i \in (j + 1)..n : s[i] \in Line
    BY <1>2, <1>3, <1>4
  <2>2. /\ u \in Seq(Line) /\ Len(u) = IF j + 1 <= n THEN n - (j + 1) + 1 ELSE 0
        /\ \A i \in 1..(n - (j + 1) + 1) : u[i] = s[(j + 1) + i - 1]
    <3>1. u = SubSeq(s, j + 1, n) /\ j + 1 \in Int /\ n \in Int
      BY <1>2, <1>3, <1>4, <1>5
    <3>. QED BY <1>2, <2>1, <3>1, SubSeqProperties
  <2>3. n - (j + 1) + 1 = n - j
    BY <1>4
  <2>4. Len(u) = n - j
    BY <1>4, <2>2
  <2>5. ASSUME NEW i \in 1..(n - j) PROVE u[i] = s[j + i]
    <3>1. i \in 1..(n - (j + 1) + 1) /\ (j + 1) + i - 1 = j + i
      BY <1>4, <2>3
    <3>. QED BY <2>2, <3>1
  <2>. QED BY <2>2, <2>4, <2>5
<1>7. lines' \in Seq(Line)
  BY DEF IInv, ChildType
<1>8. \A q \in Procs : Stream(q)' = Here(q)' \o Rest(q)'
  BY DEF Stream
<1>9. \A q \in Procs : Here(q) = <<>> /\ Rest(q) \in Seq(Line)
  BY <1>1, StreamParts DEF Here
<1>10. ASSUME NEW q \in Procs \ {p} PROVE Stream(q)' = Stream(q)
  <2>1. Rest(q)' = Rest(q) /\ Here(q)' = <<>>
    BY <1>1, <1>2 DEF Rest, Here
  <2>. QED BY <1>8, <1>9, <2>1 DEF Stream
<1>11. Stream(p) = Rest(p)
  BY <1>9, ConcatEmptySeq DEF Stream
<1>12. PICK h, t : h = lines' /\ t = Rest(p)
  OBVIOUS
<1>13. Here(p)' = h /\ Rest(p)' = u
  BY <1>1, <1>2, <1>5, <1>12 DEF Here, Rest
<1>14. /\ t \in Seq(Line) /\ h \in Seq(Line) /\ Len(t) = Len(h) + Len(u)
       /\ \A i \in 1..Len(h) : t[i] = h[i]
       /\ \A i \in 1..Len(u) : t[Len(h) + i] = u[i]
  <2>1. CASE j = 0
    <3>1. h = <<>> /\ t = s /\ Len(h) = 0
      BY <1>0, <1>12, <2>1 DEF ReceiveChunk, Rest
    <3>2. n - j = n /\ \A i \in 1..n : j + i = i /\ 0 + i = i
      BY <2>1
    <3>. QED BY <1>2, <1>3, <1>6, <1>7, <1>12, <2>1, <3>1, <3>2
  <2>2. CASE j > 0 /\ discarding[p]
    <3>1. h = SubSeq(s, 2, j) /\ t = Tail(s) /\ s # <<>>
      <4>1. s # <<>>
        BY <1>3, <1>4, <2>2
      <4>. QED BY <1>0, <1>12, <2>2, <4>1 DEF ReceiveChunk, Rest
    <3>2. t \in Seq(Line) /\ Len(t) = n - 1 /\ \A i \in 1..(n - 1) : t[i] = s[i + 1]
      BY <1>2, <1>3, <3>1, HeadTailProperties
    <3>3. Len(h) = j - 1 /\ \A i \in 1..(j - 1) : h[i] = s[i + 1]
      <4>1. j \in Int /\ 2 \in Int /\ \A i \in 2..j : s[i] \in Line
        BY <1>2, <1>3, <1>4
      <4>2. Len(h) = (IF 2 <= j THEN j - 2 + 1 ELSE 0) /\ \A i \in 1..(j - 2 + 1) : h[i] = s[2 + i - 1]
        BY <1>2, <3>1, <4>1, SubSeqProperties
      <4>3. j - 2 + 1 = j - 1 /\ \A i \in Int : 2 + i - 1 = i + 1
        BY <1>4
      <4>4. Len(h) = j - 1
        BY <1>4, <2>2, <4>2
      <4>. QED BY <4>2, <4>3, <4>4
    <3>4. \A i \in 1..(j - 1) : i \in 1..(n - 1)
      BY <1>4
    <3>5. \A i \in 1..(n - j) : (j - 1) + i \in 1..(n - 1) /\ ((j - 1) + i) + 1 = j + i
      BY <1>4, <2>2
    <3>6. n - 1 = (j - 1) + (n - j)
      BY <1>4
    <3>7. h \in Seq(Line) /\ Len(t) = Len(h) + Len(u)
      BY <1>6, <1>7, <1>12, <3>2, <3>3, <3>6
    <3>8. \A i \in 1..(j - 1) : t[i] = h[i]
      BY <3>2, <3>3, <3>4
    <3>9. \A i \in 1..(n - j) : t[(j - 1) + i] = u[i]
      BY <1>6, <1>7, <3>2, <3>5
    <3>10. Len(u) = n - j
      BY <1>6, <1>7
    <3>. QED BY <3>2, <3>3, <3>7, <3>8, <3>9, <3>10
  <2>3. CASE j > 0 /\ ~discarding[p]
    <3>1. PICK first : first = [s[1] EXCEPT !.size = buffer[p] + (@ - part[p])]
      OBVIOUS
    <3>2. h = [i \in 1..j |-> IF i = 1 THEN first ELSE s[i]] /\ t = s
      BY <1>0, <1>12, <2>3, <3>1 DEF ReceiveChunk, Rest
    <3>3. first = s[1]
      <4>1. s[1] \in Line
        BY <1>2, <1>3, <1>4, <2>3
      <4>2. s[1].size \in Nat /\ buffer[p] = part[p] /\ part[p] \in Nat
        BY <2>3, <4>1 DEF Line, BufInv, IInv, ChildType
      <4>3. buffer[p] + (s[1].size - part[p]) = s[1].size
        BY <4>2
      <4>. QED BY <3>1, <4>1, <4>3 DEF Line
    <3>4. Len(h) = j /\ \A i \in 1..j : h[i] = s[i]
      BY <1>4, <3>2, <3>3
    <3>5. n = j + (n - j)
      BY <1>4
    <3>. QED BY <1>2, <1>3, <1>6, <1>7, <1>12, <3>2, <3>4, <3>5
  <2>. QED BY <1>4, <2>1, <2>2, <2>3
<1>15. h \o u = t
  <2>1. PICK a \in Nat, b \in Nat : a = Len(h) /\ b = Len(u)
    BY <1>6, <1>14, LenProperties
  <2>2. /\ h \o u \in Seq(Line) /\ Len(h \o u) = a + b
        /\ \A i \in 1..(a + b) : (h \o u)[i] = IF i <= a THEN h[i] ELSE u[i - a]
    BY <1>6, <1>14, <2>1, ConcatProperties
  <2>3. ASSUME NEW i \in 1..(a + b) PROVE (h \o u)[i] = t[i]
    <3>1. CASE i <= a
      BY <1>14, <2>1, <2>2, <3>1
    <3>2. CASE ~(i <= a)
      <4>1. i - a \in 1..b /\ a + (i - a) = i
        BY <3>2
      <4>. QED BY <1>14, <2>1, <2>2, <3>2, <4>1
    <3>. QED BY <3>1, <3>2
  <2>. QED BY <1>14, <2>1, <2>2, <2>3, SeqEqual
<1>. QED BY <1>8, <1>10, <1>11, <1>12, <1>13, <1>15
-----------------------------------------------------------------------------
(* Counting lines.                                                          *)

Big(s) == {i \in 1..Len(s) : OverCap(s[i].size)}

LEMMA BigFinite ==
  ASSUME NEW s \in Seq(Line)
  PROVE  IsFiniteSet(Big(s)) /\ Cardinality(Big(s)) \in Nat
<1>1. Len(s) \in Nat /\ IsFiniteSet(1..Len(s))
  BY LenProperties, FS_Interval
<1>2. Big(s) \in SUBSET (1..Len(s))
  BY DEF Big
<1>. QED BY <1>1, <1>2, FS_Subset, FS_CardinalityType

LEMMA BigSplit ==
  ASSUME NEW s \in Seq(Line), NEW t \in Seq(Line), NEW u \in Seq(Line), Len(s) = Len(t) + Len(u),
         \A i \in 1..Len(t) : s[i].size = t[i].size,
         \A i \in 1..Len(u) : s[Len(t) + i].size = u[i].size
  PROVE  Cardinality(Big(s)) = Cardinality(Big(t)) + Cardinality(Big(u))
<1>. DEFINE n == Len(t)
            W == {i \in Big(s) : i > n}
            f == [i \in Big(u) |-> n + i]
<1>1. n \in Nat /\ Len(u) \in Nat /\ Len(s) = n + Len(u)
  BY LenProperties
<1>2. IsFiniteSet(Big(t)) /\ IsFiniteSet(Big(u))
  BY BigFinite
<1>3. f \in Bijection(Big(u), W)
  <2>1. f \in [Big(u) -> W]
    <3>1. ASSUME NEW i \in Big(u) PROVE n + i \in W
      BY <1>1 DEF Big
    <3>. QED BY <3>1
  <2>2. \A a, b \in Big(u) : f[a] = f[b] => a = b
    BY <1>1 DEF Big
  <2>3. \A w \in W : \E i \in Big(u) : f[i] = w
    <3>1. ASSUME NEW w \in W PROVE w - n \in Big(u) /\ n + (w - n) = w
      <4>1. w \in 1..Len(s) /\ w > n /\ OverCap(s[w].size)
        BY DEF Big
      <4>2. w - n \in 1..Len(u) /\ n + (w - n) = w
        BY <1>1, <4>1
      <4>3. s[n + (w - n)].size = u[w - n].size
        BY <4>2
      <4>. QED BY <4>1, <4>2, <4>3 DEF Big
    <3>. QED BY <3>1
  <2>. HIDE DEF f, W
  <2>4. DOMAIN f = Big(u)
    BY <2>1
  <2>. QED BY <2>1, <2>2, <2>3, <2>4 DEF Bijection, Injection, Surjection, IsInjective
<1>4. Big(s) = Big(t) \cup W /\ Big(t) \cap W = {}
  BY <1>1 DEF Big
<1>. HIDE DEF f, W
<1>5. ExistsBijection(Big(u), W)
  BY <1>3 DEF ExistsBijection
<1>6. IsFiniteSet(W) /\ Cardinality(W) = Cardinality(Big(u))
  BY <1>2, <1>5, FS_Bijection
<1>7. Cardinality(Big(s)) = Cardinality(Big(t)) + Cardinality(W) - Cardinality({})
  BY <1>2, <1>4, <1>6, FS_Union
<1>8. Cardinality({}) = 0
  BY FS_EmptySet
<1>9. Cardinality(Big(t)) \in Nat /\ Cardinality(Big(u)) \in Nat
  BY BigFinite
<1>. QED BY <1>6, <1>7, <1>8, <1>9

One(l) == IF OverCap(l.size) THEN 1 ELSE 0

LEMMA BigOne ==
  ASSUME NEW l \in Line
  PROVE  <<l>> \in Seq(Line) /\ Len(<<l>>) = 1 /\ <<l>>[1] = l /\ Cardinality(Big(<<l>>)) = One(l)
<1>1. <<l>> \in Seq(Line) /\ Len(<<l>>) = 1 /\ <<l>>[1] = l
  OBVIOUS
<1>2. Big(<<l>>) = IF OverCap(l.size) THEN {1} ELSE {}
  BY <1>1 DEF Big
<1>. QED BY <1>1, <1>2, FS_EmptySet, FS_Singleton DEF One

LEMMA BigEmpty == Cardinality(Big(<<>>)) = 0
<1>1. Big(<<>>) = {}
  BY DEF Big
<1>. QED BY <1>1, FS_EmptySet

LEMMA BigTail ==
  ASSUME NEW s \in Seq(Line), s # <<>>
  PROVE  /\ s[1] \in Line /\ Tail(s) \in Seq(Line) /\ Len(Tail(s)) = Len(s) - 1 /\ Len(s) \in Nat \ {0}
         /\ Cardinality(Big(s)) = One(s[1]) + Cardinality(Big(Tail(s)))
<1>. DEFINE l == s[1]
            t == <<l>>
            u == Tail(s)
<1>1. /\ l \in Line /\ u \in Seq(Line) /\ Len(u) = Len(s) - 1 /\ Len(s) \in Nat \ {0}
      /\ \A i \in 1..Len(u) : u[i] = s[i + 1]
  BY HeadTailProperties, ElementOfSeq, EmptySeq, LenProperties
<1>2. t \in Seq(Line) /\ Len(t) = 1 /\ t[1] = l /\ Cardinality(Big(t)) = One(l)
  BY <1>1, BigOne
<1>. HIDE DEF t, u
<1>3. /\ Len(s) = Len(t) + Len(u)
      /\ \A i \in 1..Len(t) : s[i].size = t[i].size
      /\ \A i \in 1..Len(u) : s[Len(t) + i].size = u[i].size
  BY <1>1, <1>2
<1>4. Cardinality(Big(s)) = Cardinality(Big(t)) + Cardinality(Big(u))
  BY <1>1, <1>2, <1>3, BigSplit
<1>. QED BY <1>1, <1>2, <1>4 DEF u

LEMMA BigAppend ==
  ASSUME NEW s \in Seq(Line), NEW l \in Line
  PROVE  Append(s, l) \in Seq(Line) /\ Cardinality(Big(Append(s, l))) = Cardinality(Big(s)) + One(l)
<1>. DEFINE a == Append(s, l)
            u == <<l>>
<1>1. a \in Seq(Line) /\ Len(a) = Len(s) + 1 /\ Len(s) \in Nat /\ a[Len(s) + 1] = l
      /\ \A i \in 1..Len(s) : a[i] = s[i]
  BY AppendProperties, LenProperties
<1>2. u \in Seq(Line) /\ Len(u) = 1 /\ u[1] = l /\ Cardinality(Big(u)) = One(l)
  BY BigOne
<1>. HIDE DEF a, u
<1>3. /\ Len(a) = Len(s) + Len(u)
      /\ \A i \in 1..Len(s) : a[i].size = s[i].size
      /\ \A i \in 1..Len(u) : a[Len(s) + i].size = u[i].size
  BY <1>1, <1>2
<1>4. Cardinality(Big(a)) = Cardinality(Big(s)) + Cardinality(Big(u))
  BY <1>1, <1>2, <1>3, BigSplit
<1>. QED BY <1>1, <1>2, <1>4 DEF a
-----------------------------------------------------------------------------
(* What is due and what has been paid.                                      *)

(* Lines over the cap that may still cost a call.                           *)
Due(p)  == Cardinality(Big(Stream(p)))
Paid(p) == /\ IsFiniteSet(SizeRejections(p))
           /\ Cardinality(SizeRejections(p)) + Due(p) <= bigLines[p]
CapInv  == \A p \in Procs : Paid(p)

LEMMA DueType == IInv => \A p \in Procs : Due(p) \in Nat /\ bigLines[p] \in Nat
BY StreamType, BigFinite DEF Due, IInv, ChildType

LEMMA DueNext ==
  ASSUME IInv'
  PROVE  \A p \in Procs : Due(p)' = Cardinality(Big(Stream(p)')) /\ Due(p)' \in Nat
<1>1. IInv' => (\A p \in Procs : Due(p) \in Nat /\ bigLines[p] \in Nat)'
  BY DueType, PTL
<1>. QED BY <1>1 DEF Due, Big

(* Nobody is rejected, and the lines due are no more than the lines written. *)
LEMMA PaidStill ==
  ASSUME IInv, IInv', NEW p \in Procs, Paid(p), SizeRejections(p)' \subseteq SizeRejections(p),
         NEW n \in Nat, bigLines'[p] = bigLines[p] + n, Due(p)' <= Due(p) + n
  PROVE  Paid(p)'
<1>1. Due(p) \in Nat /\ Due(p)' \in Nat /\ bigLines[p] \in Nat
  BY DueType, DueNext
<1>2. /\ IsFiniteSet(SizeRejections(p)') /\ Cardinality(SizeRejections(p)') <= Cardinality(SizeRejections(p))
      /\ Cardinality(SizeRejections(p)) \in Nat /\ Cardinality(SizeRejections(p)') \in Nat
  <2>1. IsFiniteSet(SizeRejections(p)) /\ SizeRejections(p)' \in SUBSET SizeRejections(p)
    BY DEF Paid
  <2>. HIDE DEF SizeRejections
  <2>. QED BY <2>1, FS_Subset, FS_CardinalityType
<1>3. Cardinality(SizeRejections(p)') + Due(p)' <= bigLines'[p]
  BY <1>1, <1>2 DEF Paid
<1>. QED BY <1>2, <1>3 DEF Paid

(* One call is rejected, and one line less is due. *)
LEMMA PaidByOne ==
  ASSUME IInv, IInv', NEW p \in Procs, Paid(p), NEW x, SizeRejections(p)' \subseteq SizeRejections(p) \cup {x},
         bigLines' = bigLines, Due(p)' <= Due(p) - 1
  PROVE  Paid(p)'
<1>1. Due(p) \in Nat /\ Due(p)' \in Nat /\ bigLines[p] \in Nat
  BY DueType, DueNext
<1>2. /\ IsFiniteSet(SizeRejections(p)') /\ Cardinality(SizeRejections(p)') <= Cardinality(SizeRejections(p)) + 1
      /\ Cardinality(SizeRejections(p)) \in Nat /\ Cardinality(SizeRejections(p)') \in Nat
  <2>. DEFINE S == SizeRejections(p)
              V == SizeRejections(p)'
              U == S \cup {x}
  <2>1. IsFiniteSet(S) /\ V \in SUBSET U
    BY DEF Paid
  <2>. HIDE DEF S, V
  <2>2. IsFiniteSet(U) /\ Cardinality(U) <= Cardinality(S) + 1 /\ Cardinality(S) \in Nat
    BY <2>1, FS_AddElement, FS_CardinalityType
  <2>. HIDE DEF U
  <2>3. IsFiniteSet(V) /\ Cardinality(V) <= Cardinality(U) /\ Cardinality(V) \in Nat /\ Cardinality(U) \in Nat
    BY <2>1, <2>2, FS_Subset, FS_CardinalityType
  <2>4. IsFiniteSet(V) /\ Cardinality(V) <= Cardinality(S) + 1 /\ Cardinality(S) \in Nat /\ Cardinality(V) \in Nat
    BY <2>2, <2>3
  <2>. QED BY <2>4 DEF S, V
<1>3. Cardinality(SizeRejections(p)') + Due(p)' <= bigLines'[p]
  BY <1>1, <1>2 DEF Paid
<1>. QED BY <1>2, <1>3 DEF Paid

(* A step that rejects nobody for a size. *)
Spares == \A c \in Calls : outcome'[c] = "size" => outcome[c] = "size" /\ owner'[c] = owner[c]

LEMMA SparesSays == Spares => \A p \in Procs : SizeRejections(p)' \subseteq SizeRejections(p)
BY DEF Spares, SizeRejections

LEMMA SettleSpares ==
  ASSUME NEW S, NEW why, why # "size", Settle(S, why), owner' = owner
  PROVE  Spares
BY DEF Spares, Settle

(* A step that leaves the streams alone, and rejects nobody for a size. *)
LEMMA QuietCap ==
  ASSUME IInv, IInv', CapInv, Spares, bigLines' = bigLines, \A p \in Procs : Stream(p)' = Stream(p)
  PROVE  CapInv'
<1>. SUFFICES ASSUME NEW p \in Procs PROVE Paid(p)'
  BY DEF CapInv
<1>1. Paid(p) /\ Due(p)' = Due(p) /\ Due(p) \in Nat /\ bigLines[p] \in Nat
  BY DueType, DueNext DEF CapInv, Due
<1>2. 0 \in Nat /\ bigLines'[p] = bigLines[p] + 0 /\ Due(p)' <= Due(p) + 0
  BY <1>1
<1>. QED BY <1>1, <1>2, SparesSays, PaidStill

(* The oldest call of a process is one at most, and no other process's. *)
LEMMA OldestIsOne ==
  ASSUME IInv, NEW p \in Procs
  PROVE  \E x : Oldest(p) \subseteq {x}
<1>1. \A c, d \in Oldest(p) : c = d
  <2>. SUFFICES ASSUME NEW c \in Oldest(p), NEW d \in Oldest(p) PROVE c = d
    OBVIOUS
  <2>1. c \in pending[p] /\ d \in pending[p] /\ id[c] <= id[d] /\ id[d] <= id[c]
    BY DEF Oldest
  <2>2. c \in Calls /\ d \in Calls /\ owner[c] = p /\ owner[d] = p
    BY <2>1 DEF IInv, ExactlyOnce, Waiting
  <2>3. id[c] \in Nat /\ id[d] \in Nat
    BY <2>2 DEF IInv, CallType
  <2>4. id[c] = id[d] /\ p # 0
    BY <2>1, <2>3
  <2>. QED BY <2>2, <2>4 DEF IInv, RequestsKnown
<1>. QED BY <1>1

LEMMA OldestPays ==
  ASSUME IInv, NEW h \in Procs, rejectOldestPending(h), owner' = owner
  PROVE  /\ \E x : SizeRejections(h)' \subseteq SizeRejections(h) \cup {x}
         /\ \A p \in Procs \ {h} : SizeRejections(p)' \subseteq SizeRejections(p)
<1>1. Settle(Oldest(h), "size")
  BY DEF rejectOldestPending
<1>2. \A c \in Calls : outcome'[c] = "size" => outcome[c] = "size" \/ c \in Oldest(h)
  BY <1>1 DEF Settle
<1>3. \A c \in Oldest(h) : owner[c] = h
  BY DEF Oldest, IInv, ExactlyOnce
<1>4. PICK x : Oldest(h) \subseteq {x}
  BY OldestIsOne
<1>5. SizeRejections(h)' \subseteq SizeRejections(h) \cup {x}
  BY <1>2, <1>4 DEF SizeRejections
<1>6. \A p \in Procs \ {h} : SizeRejections(p)' \subseteq SizeRejections(p)
  BY <1>2, <1>3 DEF SizeRejections
<1>. QED BY <1>5, <1>6
-----------------------------------------------------------------------------
(* Who is rejected for a size.                                              *)

(* Only the two checks of the cap reject anybody for a size. *)
LEMMA OnlyCapRejects ==
  ASSUME IInv, Next, ~HandleOversized, ~EndChunk
  PROVE  Spares
<1>1. ASSUME UNCHANGED <<outcome, owner>> PROVE Spares
  BY <1>1 DEF Spares
<1>2. CASE Call
  <2>1. PICK c \in Calls, w \in Reasons \cup {"waiting"} :
          outcome[c] = "idle" /\ outcome' = [outcome EXCEPT ![c] = w]
    BY <1>2, CallReplies
  <2>2. w # "size" /\ \A d \in Calls : outcome[d] # "idle" => owner'[d] = owner[d]
    <3>1. PICK d \in Calls, s \in Servers :
            CallBroken(d, s) \/ CallReuse(d, s) \/ CallNoStdin(d, s) \/ CallSpawn(d, s)
      BY <1>2 DEF Call
    <3>2. outcome[d] = "idle" /\ outcome'[d] # "idle" /\ outcome'[d] # "size"
      BY <3>1 DEF CallBroken, CallReuse, CallNoStdin, CallSpawn, MayCall, IInv, CallType
    <3>3. c = d /\ outcome'[c] = w
      BY <2>1, <3>2 DEF IInv, CallType
    <3>4. owner' = owner \/ \E p : owner' = [owner EXCEPT ![d] = p]
      BY <3>1 DEF CallBroken, CallReuse, CallNoStdin, CallSpawn, TakeId, callVars
    <3>. QED BY <3>2, <3>3, <3>4 DEF IInv, CallType
  <2>. QED BY <2>1, <2>2 DEF Spares, IInv, CallType
<1>3. ASSUME NEW p \in Procs, Data(p) PROVE Spares
  BY <1>1, <1>3 DEF Data, DiscardChunk, ReceiveChunk, settleVars, callVars
<1>4. ASSUME NEW p \in Procs, Child(p) PROVE Spares
  BY <1>1, <1>4, SettleSpares DEF Child, Answer, Chatter, Exits, StdinError, rejectAllPending,
     settleVars, callVars
<1>5. CASE HandleLine
  <2>1. SkipBlank \/ HandleNonJson => Spares
    BY <1>1, SettleSpares DEF SkipBlank, HandleNonJson, rejectAllPending, settleVars, callVars
  <2>2. CASE HandleJson
    <3>1. owner' = owner /\ \E why : why # "size" /\ Settle(Addressee(handler, line), why)
      BY <2>2 DEF HandleJson
    <3>. QED BY <3>1, SettleSpares
  <2>. QED BY <1>5, <2>1, <2>2 DEF HandleLine
<1>6. CASE Timers
  BY <1>1, <1>6, SettleSpares DEF Timers, TimeoutFires, GraceExpires, CeilingExpires, settleVars, callVars
<1>7. CASE Shutdown
  BY <1>7, SettleSpares DEF Shutdown, callVars
<1>. QED BY <1>2, <1>3, <1>4, <1>5, <1>6, <1>7 DEF Next

(* A line over the cap leaves the stream, and one call is rejected for it.  *)
LEMMA PaysCap ==
  ASSUME IInv, IInv', CapInv, NEW h \in Procs, rejectOldestPending(h), owner' = owner, bigLines' = bigLines,
         Stream(h) # <<>>, OverCap(Stream(h)[1].size), Stream(h)' = Tail(Stream(h)),
         \A p \in Procs \ {h} : Stream(p)' = Stream(p)
  PROVE  CapInv'
<1>1. Paid(h)'
  <2>1. PICK x : SizeRejections(h)' \subseteq SizeRejections(h) \cup {x}
    BY OldestPays
  <2>2. Due(h)' <= Due(h) - 1
    <3>1. PICK s : s = Stream(h)
      OBVIOUS
    <3>2. Cardinality(Big(s)) = One(s[1]) + Cardinality(Big(Tail(s))) /\ One(s[1]) = 1
      BY <3>1, StreamType, BigTail DEF One
    <3>3. Due(h) = Cardinality(Big(s)) /\ Due(h)' = Cardinality(Big(Tail(s))) /\ Due(h)' \in Nat
      BY <3>1, DueNext DEF Due
    <3>. QED BY <3>2, <3>3
  <2>. QED BY <2>1, <2>2, PaidByOne DEF CapInv
<1>2. ASSUME NEW p \in Procs \ {h} PROVE Paid(p)'
  <2>1. Due(p)' = Due(p) /\ Due(p) \in Nat /\ bigLines[p] \in Nat
    BY DueType, DueNext DEF Due
  <2>2. Due(p)' <= Due(p) + 0 /\ bigLines'[p] = bigLines[p] + 0 /\ 0 \in Nat
    BY <2>1
  <2>3. SizeRejections(p)' \subseteq SizeRejections(p)
    BY OldestPays
  <2>. QED BY <2>2, <2>3, PaidStill DEF CapInv
<1>. QED BY <1>1, <1>2 DEF CapInv
-----------------------------------------------------------------------------
(* The count under every step.                                              *)

(* A line that is handled without a rejection for its size. *)
LEMMA LineCap ==
  ASSUME IInv, IInv', CapInv, NextLine, Spares, UNCHANGED <<handler, out, discarding, bigLines>>
  PROVE  CapInv'
<1>1. PICK h \in Procs : /\ Stream(h) # <<>> /\ Stream(h)' = Tail(Stream(h))
                        /\ \A p \in Procs \ {h} : Stream(p)' = Stream(p)
  BY StreamLine
<1>2. Due(h)' <= Due(h)
  <2>1. PICK s : s = Stream(h)
    OBVIOUS
  <2>2. Cardinality(Big(s)) = One(s[1]) + Cardinality(Big(Tail(s))) /\ One(s[1]) \in Nat
    BY <1>1, <2>1, StreamType, BigTail DEF One
  <2>3. Due(h) = Cardinality(Big(s)) /\ Due(h)' = Cardinality(Big(Tail(s))) /\ Due(h)' \in Nat
    BY <1>1, <2>1, DueNext DEF Due
  <2>. QED BY <2>2, <2>3
<1>3. \A p \in Procs \ {h} : Due(p)' = Due(p)
  BY <1>1, DueNext DEF Due
<1>4. ASSUME NEW p \in Procs PROVE Paid(p)'
  <2>1. Due(p)' <= Due(p) + 0 /\ bigLines'[p] = bigLines[p] + 0 /\ 0 \in Nat
    BY <1>2, <1>3, DueType, DueNext
  <2>. QED BY <2>1, SparesSays, PaidStill DEF CapInv
<1>. QED BY <1>4 DEF CapInv

LEMMA LoopCap ==
  ASSUME IInv, IInv', BufInv, CapInv, Next, HandleLine \/ EndChunk
  PROVE  CapInv'
<1>1. CASE HandleLine /\ ~HandleOversized /\ ~EndChunk
  <2>1. NextLine /\ UNCHANGED <<handler, out, discarding, bigLines>>
    BY <1>1 DEF HandleLine, SkipBlank, HandleNonJson, HandleJson, managedVars, pipeVars
  <2>. QED BY <1>1, <2>1, OnlyCapRejects, LineCap
<1>2. CASE HandleOversized
  <2>1. /\ NextLine /\ OverCap(line.size) /\ rejectOldestPending(handler) /\ owner' = owner
        /\ UNCHANGED <<handler, out, discarding, bigLines>>
    BY <1>2 DEF HandleOversized, managedVars, callVars, pipeVars
  <2>2. PICK h \in Procs : /\ h = handler /\ Stream(h) # <<>> /\ line = Stream(h)[1]
                          /\ Stream(h)' = Tail(Stream(h))
                          /\ \A p \in Procs \ {h} : Stream(p)' = Stream(p)
    BY <2>1, StreamLine
  <2>. QED BY <2>1, <2>2, PaysCap
<1>3. CASE EndChunk
  <2>1. owner' = owner /\ bigLines' = bigLines
    BY <1>3 DEF EndChunk, callVars, pipeVars
  <2>2. PICK h \in Procs :
          /\ h = handler /\ \A p \in Procs \ {h} : Stream(p)' = Stream(p)
          /\ IF OverCap(buffer[h])
             THEN /\ Stream(h) # <<>> /\ OverCap(Stream(h)[1].size)
                  /\ Stream(h)' = Tail(Stream(h))
             ELSE Stream(h)' = Stream(h)
    BY <1>3, StreamDrop
  <2>3. CASE OverCap(buffer[h])
    BY <1>3, <2>1, <2>2, <2>3, PaysCap DEF EndChunk
  <2>4. CASE ~OverCap(buffer[h])
    <3>1. Spares
      BY <1>3, <2>1, <2>2, <2>4 DEF EndChunk, settleVars, Spares
    <3>. QED BY <2>1, <2>2, <2>4, <3>1, QuietCap
  <2>. QED BY <2>3, <2>4
<1>. QED BY <1>1, <1>2, <1>3

LEMMA DataCap ==
  ASSUME IInv, IInv', BufInv, CapInv, Spares, NEW p \in Procs, Data(p)
  PROVE  CapInv'
<1>1. ASSUME NEW k \in Bytes(p, 0), DiscardChunk(p, k) PROVE CapInv'
  BY <1>1, StreamQuiet, QuietCap DEF DiscardChunk, managedVars, loopVars
<1>2. ASSUME NEW j \in 0..Len(out[p]), NEW k \in Bytes(p, j), ReceiveChunk(p, j, k) PROVE CapInv'
  <2>1. bigLines' = bigLines
    BY <1>2 DEF ReceiveChunk
  <2>. QED BY <1>2, <2>1, StreamReceive, QuietCap
<1>. QED BY <1>1, <1>2 DEF Data

(* A line over the cap that is written is due, and counted. *)
LEMMA WriteCap ==
  ASSUME IInv, IInv', Dropped, CapInv, Spares, NEW p \in Procs, NEW l \in Line, Write(p, l),
         UNCHANGED <<handler, lines, discarding>>
  PROVE  CapInv'
<1>1. bigLines' = [bigLines EXCEPT ![p] = IF OverCap(l.size) THEN @ + 1 ELSE @]
  BY DEF Write
<1>2. /\ bigLines'[p] = bigLines[p] + One(l) /\ One(l) \in Nat
      /\ \A q \in Procs \ {p} : bigLines'[q] = bigLines[q] + 0 /\ 0 \in Nat
  <2>1. bigLines'[p] = bigLines[p] + One(l) /\ One(l) \in Nat
    BY <1>1 DEF IInv, ChildType, One
  <2>2. \A q \in Procs \ {p} : bigLines'[q] = bigLines[q] /\ bigLines[q] \in Nat
    BY <1>1 DEF IInv, ChildType
  <2>. QED BY <2>1, <2>2
<1>3. Stream(p)' = Append(Stream(p), l) /\ \A q \in Procs \ {p} : Stream(q)' = Stream(q)
  BY StreamWrite
<1>4. Due(p)' <= Due(p) + One(l)
  <2>1. PICK s : s = Stream(p)
    OBVIOUS
  <2>2. Cardinality(Big(Append(s, l))) = Cardinality(Big(s)) + One(l)
    BY <2>1, StreamType, BigAppend
  <2>3. Due(p) = Cardinality(Big(s)) /\ Due(p)' = Cardinality(Big(Append(s, l))) /\ Due(p)' \in Nat
    BY <1>3, <2>1, DueNext DEF Due
  <2>. QED BY <2>2, <2>3
<1>5. \A q \in Procs \ {p} : Due(q)' <= Due(q) + 0
  BY <1>3, DueType, DueNext DEF Due
<1>6. ASSUME NEW q \in Procs PROVE Paid(q)'
  BY <1>2, <1>4, <1>5, SparesSays, PaidStill DEF CapInv
<1>. QED BY <1>6 DEF CapInv

LEMMA ChildWrites ==
  ASSUME IInv, IInv', NEW p \in Procs, Child(p)
  PROVE  \/ UNCHANGED <<handler, lines, discarding, out, inbox, bigLines, bigAnswers>>
         \/ /\ UNCHANGED <<handler, lines, discarding>>
            /\ \E l \in Line : Write(p, l)
<1>1. ASSUME NEW c \in Calls, NEW kind \in Answers, NEW size \in Sizes, Answer(p, c, kind, size)
      PROVE  UNCHANGED <<handler, lines, discarding>> /\ \E l \in Line : Write(p, l)
  <2>1. PICK l : l = [kind |-> kind, id |-> id[c], to |-> c, size |-> size]
    OBVIOUS
  <2>2. l \in Line
    BY <2>1, BridgeAssumption DEF Line, Kinds, IInv, CallType
  <2>. QED BY <1>1, <2>1, <2>2 DEF Answer, managedVars, loopVars
<1>2. ASSUME NEW kind \in ChatterKinds, NEW size \in ChatterSizes, Chatter(p, kind, size)
      PROVE  UNCHANGED <<handler, lines, discarding>> /\ \E l \in Line : Write(p, l)
  <2>1. PICK l : l = [kind |-> kind, id |-> IF kind = "request" THEN chatter'[p] ELSE 0,
                      to |-> NoCall, size |-> size]
    OBVIOUS
  <2>2. chatter'[p] \in Nat /\ size \in Nat /\ kind \in Kinds
    BY <1>2, BridgeAssumption DEF Kinds, IInv, ChildType
  <2>3. l \in Line
    BY <2>1, <2>2 DEF Line
  <2>. QED BY <1>2, <2>1, <2>3 DEF Chatter, managedVars, loopVars
<1>3. ASSUME NEW how, Exits(p, how) \/ StdinError(p)
      PROVE  UNCHANGED <<handler, lines, discarding, out, inbox, bigLines, bigAnswers>>
  BY <1>3 DEF Exits, StdinError, managedVars, loopVars, pipeVars
<1>. QED BY <1>1, <1>2, <1>3 DEF Child

LEMMA CapStarts == Init => CapInv
<1>. SUFFICES ASSUME Init, NEW p \in Procs PROVE Paid(p)
  BY DEF CapInv
<1>1. SizeRejections(p) = {} /\ Stream(p) = <<>> \o <<>> /\ bigLines[p] = 0
  BY DEF Init, SizeRejections, Stream, Rest, Here
<1>2. Stream(p) = <<>>
  BY <1>1
<1>. QED BY <1>1, <1>2, BigEmpty, FS_EmptySet DEF Paid, Due

LEMMA CapKeeps ==
  ASSUME IInv, IInv', BufInv, Dropped, CapInv, [Next]_vars
  PROVE  CapInv'
<1>1. ASSUME Spares, UNCHANGED <<out, handler, lines, discarding, bigLines>> PROVE CapInv'
  BY <1>1, StreamQuiet, QuietCap
<1>2. CASE UNCHANGED vars
  <2>1. Spares /\ UNCHANGED <<out, handler, lines, discarding, bigLines>>
    BY <1>2 DEF vars, Spares, managedVars, loopVars, settleVars, callVars, pipeVars
  <2>. QED BY <1>1, <2>1
<1>3. CASE Next /\ (HandleLine \/ EndChunk)
  BY <1>3, LoopCap
<1>4. CASE Next /\ ~HandleLine /\ ~EndChunk
  <2>1. Spares
    BY <1>4, OnlyCapRejects DEF HandleLine
  <2>2. ASSUME NEW p \in Procs, Child(p) PROVE CapInv'
    BY <1>1, <2>1, <2>2, ChildWrites, WriteCap
  <2>3. Call \/ Timers \/ Shutdown => UNCHANGED <<out, handler, lines, discarding, bigLines>>
    <3>1. Call => UNCHANGED <<out, handler, lines, discarding, bigLines>>
      BY DEF Call, CallBroken, CallReuse, CallNoStdin, CallSpawn, managedVars, loopVars, pipeVars
    <3>2. Timers => UNCHANGED <<out, handler, lines, discarding, bigLines>>
      BY DEF Timers, TimeoutFires, GraceExpires, CeilingExpires, managedVars, loopVars, pipeVars
    <3>3. Shutdown => UNCHANGED <<out, handler, lines, discarding, bigLines>>
      BY DEF Shutdown, managedVars, loopVars, pipeVars
    <3>. QED BY <3>1, <3>2, <3>3
  <2>. QED BY <1>1, <1>4, <2>1, <2>2, <2>3, DataCap DEF Next
<1>. QED BY <1>2, <1>3, <1>4

(* The two checks of the cap (the listener of stdout in getOrSpawn) never   *)
(* reject two calls for one line, however it is cut and whichever sees it.  *)
THEOREM CapCostsOneCall == Spec => []OneCallPerOversizedLine
<1>1. IInv /\ CapInv => OneCallPerOversizedLine
  <2>. SUFFICES ASSUME IInv, CapInv, NEW p \in Procs PROVE Cardinality(SizeRejections(p)) <= bigLines[p]
    BY DEF OneCallPerOversizedLine
  <2>1. /\ IsFiniteSet(SizeRejections(p)) /\ Due(p) \in Nat /\ bigLines[p] \in Nat
        /\ Cardinality(SizeRejections(p)) + Due(p) <= bigLines[p]
    BY DueType DEF CapInv, Paid
  <2>2. Cardinality(SizeRejections(p)) \in Nat
    BY <2>1, FS_CardinalityType
  <2>. QED BY <2>1, <2>2
<1>2. Spec => [](IInv /\ BufInv /\ Dropped)
  BY BufStarts, BufKeeps, DroppedStarts, DroppedKeeps, Invariant, PTL DEF Spec
<1>3. Spec => []CapInv
  BY <1>2, CapStarts, CapKeeps, PTL DEF Spec
<1>. QED BY <1>1, <1>2, <1>3, PTL
-----------------------------------------------------------------------------
(* Who pays for a line over the cap, when the children answer in the order  *)
(* of the requests.                                                         *)

(* The calls that a stream answers, and answers in the order of their ids.  *)
To(s) == {s[i].to : i \in 1..Len(s)} \ {NoCall}
Ascend(s, f) ==
  \A i, j \in 1..Len(s) :
    i < j /\ s[i].to # NoCall /\ s[j].to # NoCall => f[s[i].to] < f[s[j].to]

LEMMA TailTo ==
  ASSUME NEW s \in Seq(Line), s # <<>>
  PROVE  To(s) = To(Tail(s)) \cup ({s[1].to} \ {NoCall})
<1>1. /\ Len(Tail(s)) = Len(s) - 1 /\ Len(s) \in Nat \ {0}
      /\ \A i \in 1..Len(Tail(s)) : Tail(s)[i] = s[i + 1]
  BY HeadTailProperties, EmptySeq, LenProperties
<1>2. ASSUME NEW c \in To(s) PROVE c = s[1].to \/ c \in To(Tail(s))
  <2>1. PICK i \in 1..Len(s) : c = s[i].to
    BY <1>2 DEF To
  <2>2. CASE i # 1
    <3>1. i - 1 \in 1..Len(Tail(s)) /\ (i - 1) + 1 = i
      BY <1>1, <2>2
    <3>2. Tail(s)[i - 1] = s[i]
      BY <1>1, <3>1
    <3>. QED BY <1>2, <2>1, <3>1, <3>2 DEF To
  <2>. QED BY <2>1, <2>2
<1>3. ASSUME NEW c \in To(Tail(s)) PROVE c \in To(s)
  <2>1. PICK i \in 1..Len(Tail(s)) : c = Tail(s)[i].to
    BY <1>3 DEF To
  <2>2. i + 1 \in 1..Len(s) /\ c = s[i + 1].to
    BY <1>1, <2>1
  <2>. QED BY <1>3, <2>2 DEF To
<1>4. s[1].to # NoCall => s[1].to \in To(s)
  BY <1>1 DEF To
<1>5. NoCall \notin To(s)
  BY DEF To
<1>. QED BY <1>2, <1>3, <1>4, <1>5

LEMMA TailAscends ==
  ASSUME NEW s \in Seq(Line), s # <<>>, NEW f, Ascend(s, f)
  PROVE  /\ Ascend(Tail(s), f)
         /\ s[1].to # NoCall => \A c \in To(Tail(s)) : f[s[1].to] < f[c]
<1>1. PICK n \in Nat : /\ Len(Tail(s)) = n /\ Len(s) = n + 1
                       /\ \A i \in 1..n : Tail(s)[i] = s[i + 1]
  <2>1. /\ Len(Tail(s)) = Len(s) - 1 /\ Len(s) \in Nat \ {0}
        /\ \A i \in 1..Len(Tail(s)) : Tail(s)[i] = s[i + 1]
    BY HeadTailProperties, EmptySeq, LenProperties
  <2>2. Len(s) - 1 \in Nat /\ Len(s) = (Len(s) - 1) + 1
    BY <2>1
  <2>. QED BY <2>1, <2>2
<1>2. \A i \in 1..n : i + 1 \in 1..Len(s) /\ 1 < i + 1
  BY <1>1
<1>3. \A i, j \in 1..n : i < j => i + 1 < j + 1
  OBVIOUS
<1>4. Ascend(Tail(s), f)
  BY <1>1, <1>2, <1>3 DEF Ascend
<1>5. 1 \in 1..Len(s)
  BY <1>1
<1>6. ASSUME s[1].to # NoCall, NEW c \in To(Tail(s)) PROVE f[s[1].to] < f[c]
  <2>1. PICK i \in 1..n : c = s[i + 1].to /\ c # NoCall
    BY <1>1 DEF To
  <2>. QED BY <1>2, <1>5, <1>6, <2>1 DEF Ascend
<1>. QED BY <1>4, <1>6

LEMMA AppendTo ==
  ASSUME NEW s \in Seq(Line), NEW l \in Line
  PROVE  To(Append(s, l)) = To(s) \cup ({l.to} \ {NoCall})
<1>0. PICK a : a = Append(s, l)
  OBVIOUS
<1>1. PICK n \in Nat : /\ n = Len(s) /\ Len(a) = n + 1
                       /\ a[n + 1] = l /\ \A i \in 1..n : a[i] = s[i]
  BY <1>0, AppendProperties, LenProperties
<1>2. \A i \in 1..(n + 1) : i \in 1..n \/ i = n + 1
  OBVIOUS
<1>3. (\A i \in 1..n : i \in 1..(n + 1)) /\ n + 1 \in 1..(n + 1)
  OBVIOUS
<1>4. \A c \in To(a) : c \in To(s) \/ c = l.to
  BY <1>1, <1>2 DEF To
<1>5. \A c \in To(s) : c \in To(a)
  BY <1>1, <1>3 DEF To
<1>6. l.to # NoCall => l.to \in To(a)
  BY <1>1, <1>3 DEF To
<1>7. NoCall \notin To(a)
  BY DEF To
<1>. QED BY <1>0, <1>4, <1>5, <1>6, <1>7

LEMMA AppendAscends ==
  ASSUME NEW s \in Seq(Line), NEW l \in Line, NEW f, Ascend(s, f),
         l.to # NoCall => \A c \in To(s) : f[c] < f[l.to]
  PROVE  Ascend(Append(s, l), f)
<1>0. PICK a : a = Append(s, l)
  OBVIOUS
<1>1. PICK n \in Nat : /\ n = Len(s) /\ Len(a) = n + 1
                       /\ a[n + 1] = l /\ \A i \in 1..n : a[i] = s[i]
  BY <1>0, AppendProperties, LenProperties
<1>2. ASSUME NEW i \in 1..(n + 1), NEW j \in 1..(n + 1), i < j, a[i].to # NoCall, a[j].to # NoCall
      PROVE  f[a[i].to] < f[a[j].to]
  <2>1. i \in 1..n /\ (j \in 1..n \/ j = n + 1)
    BY <1>2
  <2>2. CASE j \in 1..n
    BY <1>1, <1>2, <2>1, <2>2 DEF Ascend
  <2>3. CASE j = n + 1
    <3>1. a[i].to \in To(s) /\ a[j] = l
      BY <1>1, <1>2, <2>1, <2>3 DEF To
    <3>. QED BY <1>2, <3>1
  <2>. QED BY <2>1, <2>2, <2>3
<1>. QED BY <1>0, <1>1, <1>2 DEF Ascend

(* Only the ids of the calls that are answered count. *)
LEMMA AscendSame ==
  ASSUME NEW s, NEW f, NEW g, Ascend(s, f), \A c \in To(s) : g[c] = f[c]
  PROVE  Ascend(s, g)
BY DEF Ascend, To

LEMMA ToCalls ==
  ASSUME NEW s \in Seq(Line)
  PROVE  To(s) \subseteq Calls
<1>1. \A i \in 1..Len(s) : s[i] \in Line
  BY ElementOfSeq
<1>. QED BY <1>1 DEF To, Line
-----------------------------------------------------------------------------
(* The calls a child may still answer, and those that gave up. *)
Coming(p, s) == inbox[p] \cup To(s)
Late         == {c \in Calls : outcome[c] = "timeout"}
BigOf(p)     == {c \in bigAnswers : owner[c] = p}
Excused(p)   == OversizedChatter(p) \/ OversizedLate(p)

(* No call waits for the process, and none will. *)
Closed(p) == pending[p] = {} /\ (broken[p] \/ ~stdinOpen[p] \/ phase # "running")

(* A line answers the call it says; over the cap, it is counted. *)
Told(p, l) ==
  /\ l.to = NoCall => l.kind \notin Answers /\ (OverCap(l.size) => OversizedChatter(p))
  /\ l.to # NoCall => /\ l.kind \in Answers /\ owner[l.to] = p /\ id[l.to] = l.id
                      /\ OverCap(l.size) => l.to \in bigAnswers
AllTold(p, s) == \A i \in 1..Len(s) : Told(p, s[i])

(* Answers come in the order of the requests. *)
InTurn(p, s) == /\ Ascend(s, id)
                /\ \A a \in To(s), c \in inbox[p] : id[a] < id[c]

(* Until somebody has paid for another, the calls that wait are those that  *)
(* are still to be answered, but for the calls that gave up.                *)
Awaited(p, s) ==
  ~Excused(p) => /\ pending[p] \subseteq Coming(p, s)
                 /\ Closed(p) \/ Coming(p, s) \subseteq pending[p] \cup Late

Orderly(p) == AllTold(p, Stream(p)) /\ InTurn(p, Stream(p)) /\ Awaited(p, Stream(p))

Issued  == \A c \in bigAnswers : owner[c] # 0
Counted == \A p \in Procs : IsFiniteSet(BigOf(p)) /\ Cardinality(BigOf(p)) <= bigLines[p]
Charged == \A c \in Calls : outcome[c] = "size" =>
             \E p \in Procs : owner[c] = p /\ (c \in bigAnswers \/ Excused(p))

PayInv == Issued /\ Counted /\ Charged /\ \A p \in Procs : Orderly(p)
-----------------------------------------------------------------------------
(* What no step takes back.                                                 *)

(* A settled call keeps its outcome. *)
LEMMA SettledStays ==
  ASSUME IInv, Next
  PROVE  \A c \in Calls : outcome[c] \notin {"idle", "waiting"} => outcome'[c] = outcome[c]
<1>1. CASE Call
  <2>1. PICK c \in Calls, w \in Reasons \cup {"waiting"} :
          outcome[c] = "idle" /\ outcome' = [outcome EXCEPT ![c] = w]
    BY <1>1, CallReplies
  <2>. QED BY <2>1 DEF IInv, CallType
<1>2. CASE ~Call
  <2>1. PICK S \in SUBSET Waiting, why \in Reasons : Settling(S, why)
    BY <1>2, StepSettles
  <2>. QED BY <2>1 DEF Settling, Settle, Waiting
<1>. QED BY <1>1, <1>2

(* Only a child changes what is counted. *)
LEMMA CountsQuiet ==
  ASSUME Next
  PROVE  \/ UNCHANGED <<bigLines, bigAnswers>>
         \/ \E p \in Procs : \/ \E c \in Calls, kind \in Answers, size \in Sizes : Answer(p, c, kind, size)
                             \/ \E kind \in ChatterKinds, size \in ChatterSizes : Chatter(p, kind, size)
<1>1. ASSUME NEW p \in Procs, Data(p) PROVE UNCHANGED <<bigLines, bigAnswers>>
  BY <1>1 DEF Data, DiscardChunk, ReceiveChunk
<1>2. Call \/ HandleLine \/ EndChunk \/ Timers \/ Shutdown => UNCHANGED <<bigLines, bigAnswers>>
  <2>1. Call => UNCHANGED <<bigLines, bigAnswers>>
    BY DEF Call, CallBroken, CallReuse, CallNoStdin, CallSpawn, pipeVars
  <2>2. Timers => UNCHANGED <<bigLines, bigAnswers>>
    BY DEF Timers, TimeoutFires, GraceExpires, CeilingExpires, pipeVars
  <2>3. Shutdown => UNCHANGED <<bigLines, bigAnswers>>
    BY DEF Shutdown, pipeVars
  <2>4. HandleLine \/ EndChunk => UNCHANGED <<bigLines, bigAnswers>>
    BY DEF HandleLine, SkipBlank, HandleOversized, HandleNonJson, HandleJson, EndChunk, pipeVars
  <2>. QED BY <2>1, <2>2, <2>3, <2>4
<1>3. ASSUME NEW p \in Procs, NEW how, Exits(p, how) \/ StdinError(p) PROVE UNCHANGED <<bigLines, bigAnswers>>
  BY <1>3 DEF Exits, StdinError, pipeVars
<1>. QED BY <1>1, <1>2, <1>3 DEF Next, Child

LEMMA AnswersIssued ==
  ASSUME IInv, Issued, Next
  PROVE  Issued' /\ bigAnswers \subseteq bigAnswers'
<1>1. CASE UNCHANGED <<bigLines, bigAnswers>>
  BY <1>1, SentStaysSent DEF Issued, IInv, ChildType
<1>2. ASSUME NEW p \in Procs, NEW c \in Calls, NEW kind, NEW size, Answer(p, c, kind, size)
      PROVE  Issued' /\ bigAnswers \subseteq bigAnswers'
  <2>1. owner[c] = p /\ bigAnswers' \in {bigAnswers, bigAnswers \cup {c}} /\ p # 0
    BY <1>2 DEF Answer, IInv, RequestsKnown
  <2>2. \A d \in bigAnswers' : d \in Calls /\ owner[d] # 0
    BY <2>1 DEF Issued, IInv, ChildType
  <2>. QED BY <2>1, <2>2, SentStaysSent DEF Issued
<1>3. ASSUME NEW p \in Procs, NEW kind, NEW size, Chatter(p, kind, size)
      PROVE  Issued' /\ bigAnswers \subseteq bigAnswers'
  BY <1>3, SentStaysSent DEF Chatter, Issued, IInv, ChildType
<1>. QED BY <1>1, <1>2, <1>3, CountsQuiet

(* The lines over the cap grow at least as the answers over the cap do. *)
LEMMA CountsGrow ==
  ASSUME IInv, Issued, Next, NEW p \in Procs
  PROVE  \E n \in {0, 1} : /\ bigLines'[p] = bigLines[p] + n
                           /\ \E x : BigOf(p)' \subseteq IF n = 0 THEN BigOf(p) ELSE BigOf(p) \cup {x}
<1>0. bigLines[p] \in Nat /\ bigAnswers \subseteq Calls
  BY DEF IInv, ChildType
<1>1. \A c \in bigAnswers : owner'[c] = owner[c]
  BY <1>0, SentStaysSent DEF Issued
<1>2. CASE UNCHANGED <<bigLines, bigAnswers>>
  <2>1. BigOf(p)' \subseteq BigOf(p) /\ bigLines'[p] = bigLines[p] + 0
    BY <1>0, <1>1, <1>2 DEF BigOf
  <2>. QED BY <2>1
<1>3. ASSUME NEW q \in Procs, NEW c \in Calls, NEW kind, NEW size, Answer(q, c, kind, size)
      PROVE  \E n \in {0, 1} : /\ bigLines'[p] = bigLines[p] + n
                               /\ \E x : BigOf(p)' \subseteq IF n = 0 THEN BigOf(p) ELSE BigOf(p) \cup {x}
  <2>1. /\ bigLines' = [bigLines EXCEPT ![q] = IF OverCap(size) THEN @ + 1 ELSE @]
        /\ bigAnswers' = IF OverCap(size) THEN bigAnswers \cup {c} ELSE bigAnswers
        /\ owner[c] = q /\ owner'[c] = q
    BY <1>3 DEF Answer, Write, IInv, RequestsKnown, callVars
  <2>2. CASE OverCap(size) /\ p = q
    <3>1. BigOf(p)' \subseteq BigOf(p) \cup {c}
      BY <1>1, <2>1, <2>2 DEF BigOf
    <3>2. bigLines'[p] = bigLines[p] + 1
      BY <2>1, <2>2 DEF IInv, ChildType
    <3>. QED BY <3>1, <3>2
  <2>3. CASE ~(OverCap(size) /\ p = q)
    <3>1. BigOf(p)' \subseteq BigOf(p)
      BY <1>1, <2>1, <2>3 DEF BigOf
    <3>2. bigLines'[p] = bigLines[p] + 0
      BY <1>0, <2>1, <2>3 DEF IInv, ChildType
    <3>. QED BY <3>1, <3>2
  <2>. QED BY <2>2, <2>3
<1>4. ASSUME NEW q \in Procs, NEW kind, NEW size, Chatter(q, kind, size)
      PROVE  \E n \in {0, 1} : /\ bigLines'[p] = bigLines[p] + n
                               /\ \E x : BigOf(p)' \subseteq IF n = 0 THEN BigOf(p) ELSE BigOf(p) \cup {x}
  <2>1. /\ bigLines' = [bigLines EXCEPT ![q] = IF OverCap(size) THEN @ + 1 ELSE @]
        /\ bigAnswers' = bigAnswers
    BY <1>4 DEF Chatter, Write
  <2>2. BigOf(p)' \subseteq BigOf(p)
    BY <1>1, <2>1 DEF BigOf
  <2>3. bigLines'[p] = bigLines[p] + 0 \/ bigLines'[p] = bigLines[p] + 1
    BY <1>0, <2>1 DEF IInv, ChildType
  <2>. QED BY <2>2, <2>3
<1>. QED BY <1>2, <1>3, <1>4, CountsQuiet

LEMMA CountsNext ==
  ASSUME IInv, Issued, Counted, Next
  PROVE  Counted' /\ \A p \in Procs : OversizedChatter(p) => OversizedChatter(p)'
<1>. SUFFICES ASSUME NEW p \in Procs
              PROVE  /\ IsFiniteSet(BigOf(p)') /\ Cardinality(BigOf(p)') <= bigLines'[p]
                     /\ OversizedChatter(p) => bigLines'[p] > Cardinality(BigOf(p)')
  BY DEF Counted, OversizedChatter, BigOf
<1>1. PICK B, C : B = BigOf(p) /\ C = BigOf(p)'
  OBVIOUS
<1>2. IsFiniteSet(B) /\ Cardinality(B) <= bigLines[p] /\ bigLines[p] \in Nat
      /\ (OversizedChatter(p) => bigLines[p] > Cardinality(B))
  BY <1>1 DEF Counted, OversizedChatter, BigOf, IInv, ChildType
<1>3. PICK n \in {0, 1} : /\ bigLines'[p] = bigLines[p] + n
                          /\ \E x : C \subseteq IF n = 0 THEN B ELSE B \cup {x}
  BY <1>1, CountsGrow
<1>4. IsFiniteSet(C) /\ Cardinality(C) \in Nat /\ Cardinality(B) \in Nat /\ Cardinality(C) <= Cardinality(B) + n
  <2>1. CASE n = 0
    BY <1>2, <1>3, <2>1, FS_Subset, FS_CardinalityType
  <2>2. CASE n = 1
    <3>1. PICK x : C \in SUBSET (B \cup {x})
      BY <1>3, <2>2
    <3>. DEFINE D == B \cup {x}
    <3>2. IsFiniteSet(D) /\ Cardinality(D) <= Cardinality(B) + 1 /\ Cardinality(B) \in Nat
      <4>1. IsFiniteSet(B)
        BY <1>2
      <4>2. Cardinality(B) \in Nat
        BY <4>1, FS_CardinalityType
      <4>3. /\ IsFiniteSet(B \cup {x})
            /\ Cardinality(B \cup {x}) = IF x \in B THEN Cardinality(B) ELSE Cardinality(B) + 1
        BY <4>1, FS_AddElement
      <4>4. Cardinality(B \cup {x}) <= Cardinality(B) + 1
        BY <4>2, <4>3
      <4>. QED BY <4>2, <4>3, <4>4
    <3>3. C \in SUBSET D
      BY <3>1
    <3>. HIDE DEF D
    <3>4. IsFiniteSet(C) /\ Cardinality(C) <= Cardinality(D) /\ Cardinality(C) \in Nat /\ Cardinality(D) \in Nat
      BY <3>2, <3>3, FS_Subset, FS_CardinalityType
    <3>. QED BY <2>2, <3>2, <3>4
  <2>. QED BY <2>1, <2>2
<1>. QED BY <1>1, <1>2, <1>3, <1>4

LEMMA ExcusedStays ==
  ASSUME IInv, Issued, Counted, Next
  PROVE  \A p \in Procs : Excused(p) => Excused(p)'
<1>1. ASSUME NEW p \in Procs, OversizedLate(p) PROVE OversizedLate(p)'
  <2>1. PICK c \in bigAnswers : owner[c] = p /\ outcome[c] = "timeout"
    BY <1>1 DEF OversizedLate
  <2>2. c \in Calls /\ c \in bigAnswers' /\ owner[c] # 0
    BY <2>1, AnswersIssued DEF IInv, ChildType
  <2>3. owner'[c] = p
    BY <2>1, <2>2, SentStaysSent
  <2>4. outcome'[c] = "timeout"
    BY <2>1, <2>2, SettledStays
  <2>. QED BY <2>2, <2>3, <2>4 DEF OversizedLate
<1>. QED BY <1>1, CountsNext DEF Excused

(* A process that is closed stays so, when no call follows shutdown(). *)
LEMMA BrokenStays ==
  ASSUME IInv, Next
  PROVE  \A p \in Procs : broken[p] => broken'[p]
<1>1. broken' = broken \/ \E h : broken' = [broken EXCEPT ![h] = TRUE]
  <2>1. ASSUME NEW p \in Procs, Data(p) \/ Child(p) PROVE broken' = broken
    BY <2>1 DEF Data, DiscardChunk, ReceiveChunk, Child, Answer, Chatter, Exits, StdinError, managedVars
  <2>2. HandleLine \/ EndChunk => broken' = broken \/ \E h : broken' = [broken EXCEPT ![h] = TRUE]
    BY DEF HandleLine, SkipBlank, HandleOversized, HandleNonJson, HandleJson, EndChunk, managedVars
  <2>3. Call \/ Timers \/ Shutdown => broken' = broken
    <3>1. Call => broken' = broken
      BY DEF Call, CallBroken, CallReuse, CallNoStdin, CallSpawn, managedVars
    <3>2. Timers => broken' = broken
      BY DEF Timers, TimeoutFires, GraceExpires, CeilingExpires, managedVars
    <3>3. Shutdown => broken' = broken
      BY DEF Shutdown, managedVars
    <3>. QED BY <3>1, <3>2, <3>3
  <2>. QED BY <2>1, <2>2, <2>3 DEF Next
<1>. QED BY <1>1 DEF IInv, ManagedType

LEMMA PhaseStays ==
  ASSUME Next
  PROVE  phase # "running" => phase' # "running"
<1>1. ASSUME NEW p \in Procs, Data(p) \/ Child(p) PROVE phase' = phase \/ phase' = "cleared"
  BY <1>1 DEF Data, DiscardChunk, ReceiveChunk, Child, Answer, Chatter, Exits, StdinError, stopVars, Settled
<1>2. Timers => phase' = phase \/ phase' = "cleared"
  BY DEF Timers, TimeoutFires, GraceExpires, CeilingExpires, Settled, stopVars
<1>3. HandleLine \/ EndChunk \/ Call => phase' = phase
  BY DEF HandleLine, SkipBlank, HandleOversized, HandleNonJson, HandleJson, EndChunk, Call, CallBroken,
     CallReuse, CallNoStdin, CallSpawn, stopVars
<1>4. Shutdown => phase' # "running"
  BY DEF Shutdown
<1>. QED BY <1>1, <1>2, <1>3, <1>4 DEF Next

(* A call that is sent is sent to a process that is open. *)
Sent(p, c) ==
  /\ owner[c] = 0 /\ ~Closed(p) /\ id'[c] = nextId[p]
  /\ pending' = [pending EXCEPT ![p] = @ \cup {c}]
  /\ inbox' = [inbox EXCEPT ![p] = @ \cup {c}]

LEMMA CallSends ==
  ASSUME IInv, Call, ~LateCalls
  PROVE  /\ UNCHANGED <<stdinOpen, phase>>
         /\ \/ UNCHANGED <<pending, inbox>>
            \/ \E p \in Procs, c \in Calls : Sent(p, c)
<1>1. PICK c \in Calls, s \in Servers :
        /\ outcome[c] = "idle" /\ owner[c] = 0
        /\ CallBroken(c, s) \/ CallReuse(c, s) \/ CallNoStdin(c, s) \/ CallSpawn(c, s)
  BY CallWays
<1>2. UNCHANGED <<stdinOpen, phase>>
  BY <1>1 DEF CallBroken, CallReuse, CallNoStdin, CallSpawn, procVars, stopVars
<1>3. CASE CallBroken(c, s) \/ CallNoStdin(c, s)
  BY <1>2, <1>3 DEF CallBroken, CallNoStdin, pipeVars
<1>4. CASE CallReuse(c, s)
  <2>1. PICK p : p = cur[s]
    OBVIOUS
  <2>2. p \in Procs /\ ~broken[p] /\ stdinOpen[p] /\ phase = "running"
    BY <1>4, <2>1 DEF CallReuse, Reusable, MayCall, IInv, ManagedType
  <2>3. /\ id' = [id EXCEPT ![c] = nextId[p]]
        /\ pending' = [pending EXCEPT ![p] = @ \cup {c}]
        /\ inbox' = [inbox EXCEPT ![p] = @ \cup {c}]
    BY <1>4, <2>1 DEF CallReuse, TakeId
  <2>4. id'[c] = nextId[p]
    BY <2>3 DEF IInv, CallType
  <2>. QED BY <1>1, <1>2, <2>2, <2>3, <2>4 DEF Sent, Closed
<1>5. CASE CallSpawn(c, s)
  <2>1. PICK p : p = spawned + 1
    OBVIOUS
  <2>2. p \in Procs /\ p > spawned /\ phase = "running"
    BY <1>5, <2>1, SpawnRejectsNobody DEF CallSpawn, MayCall, IInv, ManagedType
  <2>3. stdinOpen[p] /\ ~broken[p]
    BY <2>2 DEF IInv, SpawnedInOrder
  <2>4. /\ id' = [id EXCEPT ![c] = nextId[p]] /\ pending' = [pending EXCEPT ![p] = @ \cup {c}]
    BY <1>5, <2>1, SpawnRejectsNobody
  <2>5. inbox[p] = {}
    <3>1. \A d \in Calls : owner[d] \in Nat /\ owner[d] <= spawned
      BY DEF IInv, RequestsKnown, CallType
    <3>2. \A d \in Calls : owner[d] # p
      BY <2>1, <3>1 DEF IInv, ManagedType
    <3>3. \A d \in inbox[p] : d \in Calls /\ owner[d] = p
      BY <2>2 DEF IInv, RequestsKnown, ChildType
    <3>. QED BY <3>2, <3>3
  <2>6. inbox' = [inbox EXCEPT ![p] = @ \cup {c}]
    BY <1>5, <2>1, <2>2, <2>5 DEF CallSpawn, IInv, ChildType
  <2>7. id'[c] = nextId[p]
    BY <2>4 DEF IInv, CallType
  <2>. QED BY <1>1, <1>2, <2>2, <2>3, <2>4, <2>6, <2>7 DEF Sent, Closed
<1>. QED BY <1>1, <1>3, <1>4, <1>5

LEMMA ClosedStays ==
  ASSUME IInv, Next, ~LateCalls
  PROVE  \A p \in Procs : Closed(p) => Closed(p)'
<1>. SUFFICES ASSUME NEW p \in Procs, Closed(p) PROVE Closed(p)'
  OBVIOUS
<1>1. CASE Call
  <2>1. UNCHANGED <<pending, inbox>> \/ \E q \in Procs, c \in Calls : Sent(q, c)
    BY <1>1, CallSends
  <2>2. pending'[p] = {}
    BY <2>1 DEF Sent, Closed, IInv, ManagedType
  <2>. QED BY <1>1, <2>2, CallSends, BrokenStays DEF Closed
<1>2. CASE ~Call
  <2>1. PICK S \in SUBSET Waiting, why \in Reasons : Settling(S, why)
    BY <1>2, StepSettles
  <2>2. pending'[p] = {}
    BY <2>1 DEF Settling, Closed
  <2>3. ~stdinOpen[p] => ~stdinOpen'[p]
    BY <1>2, StepFrame DEF Frame, Processes
  <2>. QED BY <2>2, <2>3, BrokenStays, PhaseStays DEF Closed
<1>. QED BY <1>1, <1>2

(* A step takes back none of what the order is about. *)
Steady ==
  /\ \A p \in Procs : /\ OversizedChatter(p) => OversizedChatter(p)'
                      /\ Excused(p) => Excused(p)'
                      /\ Closed(p) => Closed(p)'
  /\ Late \subseteq Late' /\ bigAnswers \subseteq bigAnswers'
  /\ \A c \in Calls : owner[c] # 0 => owner'[c] = owner[c] /\ id'[c] = id[c]

LEMMA SteadyNext ==
  ASSUME IInv, Issued, Counted, Next, ~LateCalls
  PROVE  Steady
<1>1. Late \subseteq Late'
  BY SettledStays DEF Late
<1>. QED BY <1>1, CountsNext, ExcusedStays, ClosedStays, AnswersIssued, SentStaysSent DEF Steady
-----------------------------------------------------------------------------
(* The order under a step: the stream stays, loses its head or grows.       *)

LEMMA ToldKept ==
  ASSUME Steady, NEW p \in Procs, NEW l \in Line, Told(p, l)
  PROVE  Told(p, l)'
<1>1. l.to \in Calls \cup {NoCall}
  BY DEF Line
<1>. QED BY <1>1 DEF Told, Steady

LEMMA OrderlyNow ==
  ASSUME IInv, NEW p \in Procs, Orderly(p), NEW s, s = Stream(p)
  PROVE  /\ s \in Seq(Line) /\ AllTold(p, s) /\ InTurn(p, s) /\ Awaited(p, s)
         /\ \A i \in 1..Len(s) : s[i] \in Line
         /\ \A a \in Coming(p, s) : a \in Calls /\ owner[a] = p
<1>1. s \in Seq(Line) /\ AllTold(p, s) /\ InTurn(p, s) /\ Awaited(p, s)
  BY StreamType DEF Orderly
<1>2. \A i \in 1..Len(s) : s[i] \in Line
  BY <1>1, ElementOfSeq
<1>3. \A a \in To(s) : a \in Calls /\ owner[a] = p
  BY <1>1, <1>2 DEF To, AllTold, Told, Line
<1>4. \A a \in inbox[p] : a \in Calls /\ owner[a] = p
  BY DEF IInv, ChildType, RequestsKnown
<1>. QED BY <1>1, <1>2, <1>3, <1>4 DEF Coming

LEMMA OrderlyAfter ==
  ASSUME NEW p \in Procs, NEW t, Stream(p)' = t, AllTold(p, t)', InTurn(p, t)', Awaited(p, t)'
  PROVE  Orderly(p)'
<1>1. AllTold(p, Stream(p))'
  BY DEF AllTold, Told
<1>2. InTurn(p, Stream(p))'
  BY DEF InTurn, Ascend, To
<1>3. Awaited(p, Stream(p))'
  BY DEF Awaited, Coming, To
<1>. QED BY <1>1, <1>2, <1>3 DEF Orderly

LEMMA OrderlyStays ==
  ASSUME IInv, Steady, NEW p \in Procs, Orderly(p), Stream(p)' = Stream(p), inbox'[p] = inbox[p],
         pending'[p] \subseteq pending[p],
         ~Excused(p)' => Closed(p)' \/ pending[p] \ pending'[p] \subseteq Late'
  PROVE  Orderly(p)'
<1>1. PICK s : s = Stream(p)
  OBVIOUS
<1>2. /\ AllTold(p, s) /\ InTurn(p, s) /\ Awaited(p, s) /\ \A i \in 1..Len(s) : s[i] \in Line
      /\ \A a \in Coming(p, s) : a \in Calls /\ owner[a] = p
  BY <1>1, OrderlyNow
<1>3. AllTold(p, s)'
  BY <1>2, ToldKept DEF AllTold
<1>4. InTurn(p, s)'
  <2>1. \A a \in inbox[p] \cup To(s) : id'[a] = id[a]
    BY <1>2 DEF Coming, Steady
  <2>2. Ascend(s, id')
    BY <1>2, <2>1, AscendSame DEF InTurn
  <2>3. \A a \in To(s), c \in inbox'[p] : id'[a] < id'[c]
    BY <1>2, <2>1 DEF InTurn
  <2>. QED BY <2>2, <2>3 DEF InTurn, Ascend, To
<1>5. Awaited(p, s)'
  <2>. SUFFICES ASSUME ~Excused(p)'
                PROVE  /\ pending'[p] \subseteq inbox[p] \cup To(s)
                       /\ Closed(p)' \/ inbox[p] \cup To(s) \subseteq pending'[p] \cup Late'
    BY DEF Awaited, Coming, To
  <2>1. /\ pending[p] \subseteq inbox[p] \cup To(s)
        /\ Closed(p) \/ inbox[p] \cup To(s) \subseteq pending[p] \cup Late
    BY <1>2 DEF Awaited, Coming, Steady
  <2>. QED BY <2>1 DEF Steady
<1>. QED BY <1>1, <1>3, <1>4, <1>5, OrderlyAfter

LEMMA OrderlyTail ==
  ASSUME IInv, Steady, NEW p \in Procs, Orderly(p), Stream(p) # <<>>, Stream(p)' = Tail(Stream(p)),
         inbox'[p] = inbox[p], pending'[p] \subseteq pending[p],
         ~Excused(p)' => Closed(p)' \/ pending'[p] = pending[p] \ {Stream(p)[1].to}
  PROVE  Orderly(p)'
<1>1. PICK s, t : s = Stream(p) /\ t = Tail(s)
  OBVIOUS
<1>2. /\ s \in Seq(Line) /\ AllTold(p, s) /\ InTurn(p, s) /\ Awaited(p, s) /\ \A i \in 1..Len(s) : s[i] \in Line
      /\ \A a \in Coming(p, s) : a \in Calls /\ owner[a] = p
  BY <1>1, OrderlyNow
<1>3. /\ Len(t) = Len(s) - 1 /\ Len(s) \in Nat \ {0}
      /\ \A i \in 1..Len(t) : t[i] = s[i + 1] /\ i + 1 \in 1..Len(s)
  <2>1. /\ Len(t) = Len(s) - 1 /\ Len(s) \in Nat \ {0} /\ \A i \in 1..Len(t) : t[i] = s[i + 1]
    BY <1>1, <1>2, HeadTailProperties, EmptySeq
  <2>. QED BY <2>1
<1>4. To(s) = To(t) \cup ({s[1].to} \ {NoCall}) /\ NoCall \notin To(s)
  <2>1. To(s) = To(t) \cup ({s[1].to} \ {NoCall})
    BY <1>1, <1>2, TailTo
  <2>. QED BY <2>1 DEF To
<1>5. Ascend(t, id) /\ (s[1].to # NoCall => \A c \in To(t) : id[s[1].to] < id[c])
  BY <1>1, <1>2, TailAscends DEF InTurn
<1>6. AllTold(p, t)'
  <2>1. \A i \in 1..Len(t) : t[i] \in Line /\ Told(p, t[i])
    BY <1>2, <1>3 DEF AllTold
  <2>. QED BY <2>1, ToldKept DEF AllTold
<1>7. \A a \in inbox[p] \cup To(s) : a \in Calls /\ id'[a] = id[a] /\ id[a] \in Nat
  BY <1>2 DEF Coming, Steady, IInv, CallType
<1>8. InTurn(p, t)'
  <2>2. Ascend(t, id')
    BY <1>4, <1>5, <1>7, AscendSame
  <2>3. \A a \in To(t), c \in inbox'[p] : id'[a] < id'[c]
    BY <1>2, <1>4, <1>7 DEF InTurn
  <2>. QED BY <2>2, <2>3 DEF InTurn, Ascend, To
<1>9. Awaited(p, t)'
  <2>. SUFFICES ASSUME ~Excused(p)'
                PROVE  /\ pending'[p] \subseteq inbox[p] \cup To(t)
                       /\ Closed(p)' \/ inbox[p] \cup To(t) \subseteq pending'[p] \cup Late'
    BY DEF Awaited, Coming, To
  <2>1. /\ pending[p] \subseteq inbox[p] \cup To(s)
        /\ Closed(p) \/ inbox[p] \cup To(s) \subseteq pending[p] \cup Late
    BY <1>2 DEF Awaited, Coming, Steady
  <2>2. CASE Closed(p)'
    BY <2>2 DEF Closed
  <2>3. CASE pending'[p] = pending[p] \ {s[1].to} /\ ~Closed(p)'
    <3>1. pending'[p] \subseteq inbox[p] \cup To(t)
      BY <1>4, <2>1, <2>3
    <3>2. \A c \in inbox[p] \cup To(t) : c # s[1].to
      <4>1. CASE s[1].to = NoCall
        BY <1>4, <1>7, <4>1, BridgeAssumption
      <4>2. CASE s[1].to # NoCall
        <5>1. s[1].to \in To(s)
          BY <1>4, <4>2
        <5>2. \A c \in inbox[p] \cup To(t) : id[s[1].to] < id[c]
          BY <1>2, <1>5, <4>2, <5>1 DEF InTurn
        <5>3. id[s[1].to] \in Nat
          BY <1>7, <5>1
        <5>. QED BY <5>2, <5>3
      <4>. QED BY <4>1, <4>2
    <3>3. inbox[p] \cup To(t) \subseteq pending[p] \cup Late
      BY <1>4, <2>1, <2>3 DEF Steady
    <3>4. Late \subseteq Late'
      BY DEF Steady
    <3>. QED BY <2>3, <3>1, <3>2, <3>3, <3>4
  <2>. QED BY <1>1, <2>2, <2>3
<1>. QED BY <1>1, <1>6, <1>8, <1>9, OrderlyAfter

LEMMA OrderlyGrows ==
  ASSUME IInv, Steady, NEW p \in Procs, Orderly(p), NEW l \in Line, Told(p, l)',
         Stream(p)' = Append(Stream(p), l), pending'[p] = pending[p],
         \/ l.to = NoCall /\ inbox'[p] = inbox[p]
         \/ /\ l.to # NoCall /\ l.to \in inbox[p] /\ inbox'[p] = inbox[p] \ {l.to}
            /\ \A d \in inbox'[p] : id[l.to] < id[d]
  PROVE  Orderly(p)'
<1>1. PICK s, t : s = Stream(p) /\ t = Append(s, l)
  OBVIOUS
<1>2. /\ s \in Seq(Line) /\ AllTold(p, s) /\ InTurn(p, s) /\ Awaited(p, s) /\ \A i \in 1..Len(s) : s[i] \in Line
      /\ \A a \in Coming(p, s) : a \in Calls /\ owner[a] = p
  BY <1>1, OrderlyNow
<1>3. To(t) = To(s) \cup ({l.to} \ {NoCall})
  BY <1>1, <1>2, AppendTo
<1>4. inbox'[p] \cup To(t) = inbox[p] \cup To(s)
  BY <1>3
<1>5. Ascend(t, id)
  BY <1>1, <1>2, AppendAscends DEF InTurn
<1>6. AllTold(p, t)'
  <2>1. \A i \in 1..Len(s) : Told(p, s[i])'
    BY <1>2, ToldKept DEF AllTold
  <2>2. PICK n \in Nat : n = Len(s) /\ Len(t) = n + 1 /\ t[n + 1] = l /\ \A i \in 1..n : t[i] = s[i]
    <3>1. s \in Seq(Line) /\ t = Append(s, l)
      BY <1>1, <1>2
    <3>2. Len(s) \in Nat /\ Len(t) = Len(s) + 1 /\ t[Len(s) + 1] = l /\ \A i \in 1..Len(s) : t[i] = s[i]
      BY <3>1, AppendProperties, LenProperties
    <3>. QED BY <3>2
  <2>3. \A i \in 1..(n + 1) : i \in 1..n \/ i = n + 1
    OBVIOUS
  <2>4. \A i \in 1..Len(t) : Told(p, t[i])'
    BY <2>1, <2>2, <2>3
  <2>. QED BY <2>4 DEF AllTold
<1>7. \A a \in inbox[p] \cup To(s) : id'[a] = id[a]
  BY <1>2 DEF Coming, Steady
<1>8. InTurn(p, t)'
  <2>1. Ascend(t, id')
    BY <1>4, <1>5, <1>7, AscendSame
  <2>2. \A a \in To(t), c \in inbox'[p] : id[a] < id[c]
    BY <1>2, <1>3 DEF InTurn
  <2>3. \A a \in To(t), c \in inbox'[p] : id'[a] < id'[c]
    BY <1>4, <1>7, <2>2
  <2>. QED BY <2>1, <2>3 DEF InTurn, Ascend, To
<1>9. Awaited(p, t)'
  <2>. SUFFICES ASSUME ~Excused(p)'
                PROVE  /\ pending'[p] \subseteq inbox'[p] \cup To(t)
                       /\ Closed(p)' \/ inbox'[p] \cup To(t) \subseteq pending'[p] \cup Late'
    BY DEF Awaited, Coming, To
  <2>1. /\ pending[p] \subseteq inbox[p] \cup To(s)
        /\ Closed(p) \/ inbox[p] \cup To(s) \subseteq pending[p] \cup Late
    BY <1>2 DEF Awaited, Coming, Steady
  <2>. QED BY <1>4, <2>1 DEF Steady
<1>. QED BY <1>1, <1>6, <1>8, <1>9, OrderlyAfter

LEMMA OrderlySent ==
  ASSUME IInv, Steady, NEW p \in Procs, NEW c \in Calls, Sent(p, c), Orderly(p), Stream(p)' = Stream(p)
  PROVE  Orderly(p)'
<1>1. PICK s : s = Stream(p)
  OBVIOUS
<1>2. /\ AllTold(p, s) /\ InTurn(p, s) /\ Awaited(p, s) /\ \A i \in 1..Len(s) : s[i] \in Line
      /\ \A a \in Coming(p, s) : a \in Calls /\ owner[a] = p
  BY <1>1, OrderlyNow
<1>3. /\ inbox'[p] = inbox[p] \cup {c} /\ pending'[p] = pending[p] \cup {c}
      /\ id'[c] = nextId[p] /\ ~Closed(p)
  BY DEF Sent, IInv, ManagedType, ChildType
<1>4. AllTold(p, s)'
  BY <1>2, ToldKept DEF AllTold
<1>5. \A a \in inbox[p] \cup To(s) : id'[a] = id[a] /\ id[a] < nextId[p]
  BY <1>2 DEF Coming, Steady, IInv, RequestsKnown
<1>6. InTurn(p, s)'
  <2>1. Ascend(s, id')
    BY <1>2, <1>5, AscendSame DEF InTurn
  <2>2. \A a \in To(s), d \in inbox'[p] : id'[a] < id'[d]
    BY <1>2, <1>3, <1>5 DEF InTurn
  <2>. QED BY <2>1, <2>2 DEF InTurn, Ascend, To
<1>7. Awaited(p, s)'
  <2>. SUFFICES ASSUME ~Excused(p)'
                PROVE  /\ pending'[p] \subseteq inbox'[p] \cup To(s)
                       /\ Closed(p)' \/ inbox'[p] \cup To(s) \subseteq pending'[p] \cup Late'
    BY DEF Awaited, Coming, To
  <2>1. pending[p] \subseteq inbox[p] \cup To(s) /\ inbox[p] \cup To(s) \subseteq pending[p] \cup Late
    BY <1>2, <1>3 DEF Awaited, Coming, Steady
  <2>. QED BY <1>3, <2>1 DEF Steady
<1>. QED BY <1>1, <1>4, <1>6, <1>7, OrderlyAfter
-----------------------------------------------------------------------------
(* The head of the stream, over the cap, costs the call that it answers.    *)

LEMMA HeadPays ==
  ASSUME IInv, NEW h \in Procs, Orderly(h), ~Excused(h), NEW s, s = Stream(h), s # <<>>, OverCap(s[1].size)
  PROVE  s[1].to \in bigAnswers /\ Oldest(h) = pending[h] \cap {s[1].to}
<1>1. /\ s \in Seq(Line) /\ AllTold(h, s) /\ InTurn(h, s) /\ Awaited(h, s)
      /\ \A a \in Coming(h, s) : a \in Calls /\ owner[a] = h
  BY OrderlyNow
<1>2. PICK d : d = s[1].to
  OBVIOUS
<1>3. Told(h, s[1])
  <2>1. 1 \in 1..Len(s)
    BY <1>1, EmptySeq
  <2>. QED BY <1>1, <2>1 DEF AllTold
<1>4. d # NoCall /\ d \in bigAnswers /\ owner[d] = h
  BY <1>2, <1>3 DEF Told, Excused
<1>5. outcome[d] # "timeout"
  BY <1>4 DEF Excused, OversizedLate
<1>6. To(s) = To(Tail(s)) \cup {d} /\ Ascend(s, id) /\ \A c \in To(Tail(s)) : id[d] < id[c]
  BY <1>1, <1>2, <1>4, TailTo, TailAscends DEF InTurn
<1>7. \A c \in pending[h] : c = d \/ id[d] < id[c]
  <2>1. pending[h] \subseteq inbox[h] \cup To(s)
    BY <1>1 DEF Awaited, Coming
  <2>2. \A c \in inbox[h] : id[d] < id[c]
    BY <1>1, <1>6 DEF InTurn
  <2>. QED BY <1>6, <2>1, <2>2
<1>8. pending[h] # {} => d \in pending[h]
  BY <1>1, <1>5, <1>6 DEF Awaited, Coming, Closed, Late
<1>9. \A c \in pending[h] \cup {d} : id[c] \in Nat
  <2>1. pending[h] \subseteq Calls /\ d \in Calls
    BY <1>1, <1>6 DEF Coming, IInv, ManagedType
  <2>. QED BY <2>1 DEF IInv, CallType
<1>10. ASSUME NEW c \in Oldest(h) PROVE c = d /\ c \in pending[h]
  <2>1. c \in pending[h] /\ \A e \in pending[h] : id[c] <= id[e]
    BY <1>10 DEF Oldest
  <2>2. id[c] <= id[d]
    BY <1>8, <2>1
  <2>. QED BY <1>7, <1>9, <2>1, <2>2
<1>11. ASSUME d \in pending[h] PROVE d \in Oldest(h)
  <2>1. \A c \in pending[h] : id[d] <= id[c]
    BY <1>7, <1>9
  <2>. QED BY <1>11, <2>1 DEF Oldest
<1>. QED BY <1>2, <1>4, <1>10, <1>11
-----------------------------------------------------------------------------
(* Every step, when the children answer in order and send no requests of    *)
(* their own, and no call follows shutdown().                               *)

LEMMA OrderlyCall ==
  ASSUME IInv, Steady, Call, ~LateCalls, NEW p \in Procs, Orderly(p)
  PROVE  Orderly(p)'
<1>1. Stream(p)' = Stream(p)
  <2>1. UNCHANGED <<out, handler, lines, discarding>>
    BY DEF Call, CallBroken, CallReuse, CallNoStdin, CallSpawn, managedVars, loopVars, pipeVars
  <2>. QED BY <2>1, StreamQuiet
<1>2. CASE UNCHANGED <<pending, inbox>>
  BY <1>1, <1>2, OrderlyStays
<1>3. ASSUME NEW q \in Procs, NEW c \in Calls, Sent(q, c) PROVE Orderly(p)'
  <2>1. CASE q = p
    BY <1>1, <1>3, <2>1, OrderlySent
  <2>2. CASE q # p
    <3>1. pending'[p] = pending[p] /\ inbox'[p] = inbox[p]
      BY <1>3, <2>2 DEF Sent, IInv, ManagedType, ChildType
    <3>. QED BY <1>1, <3>1, OrderlyStays
  <2>. QED BY <2>1, <2>2
<1>. QED BY <1>2, <1>3, CallSends

LEMMA OrderlyData ==
  ASSUME IInv, IInv', BufInv, Steady, NEW q \in Procs, Data(q), NEW p \in Procs, Orderly(p)
  PROVE  Orderly(p)'
<1>1. pending' = pending /\ inbox' = inbox
  BY DEF Data, DiscardChunk, ReceiveChunk
<1>2. Stream(p)' = Stream(p)
  <2>1. ASSUME NEW k, DiscardChunk(q, k) PROVE Stream(p)' = Stream(p)
    BY <2>1, StreamQuiet DEF DiscardChunk, managedVars, loopVars
  <2>. QED BY <2>1, StreamReceive DEF Data
<1>. QED BY <1>1, <1>2, OrderlyStays

(* The timers, and shutdown(): a call gives up, or all calls do. *)
LEMMA OrderlyStops ==
  ASSUME IInv, IInv', StopKnown', Steady, Timers \/ Shutdown, NEW p \in Procs, Orderly(p)
  PROVE  Orderly(p)'
<1>1. Stream(p)' = Stream(p) /\ inbox' = inbox
  <2>1. UNCHANGED <<out, handler, lines, discarding, inbox>>
    BY DEF Timers, TimeoutFires, GraceExpires, CeilingExpires, Shutdown, managedVars, loopVars, pipeVars
  <2>. QED BY <2>1, StreamQuiet
<1>2. ASSUME NEW c \in Calls, TimeoutFires(c) PROVE Orderly(p)'
  <2>1. outcome[c] = "waiting"
    BY <1>2 DEF TimeoutFires, IInv, ExactlyOnce, Waiting
  <2>2. outcome'[c] = "timeout"
    BY <1>2, <2>1 DEF TimeoutFires, Settle
  <2>3. pending'[p] \subseteq pending[p] /\ pending[p] \ pending'[p] \subseteq {c}
    BY <1>2 DEF TimeoutFires, IInv, ManagedType
  <2>4. pending[p] \ pending'[p] \subseteq Late'
    BY <2>2, <2>3 DEF Late
  <2>. QED BY <1>1, <2>3, <2>4, OrderlyStays
<1>3. ASSUME NEW q \in Procs, GraceExpires(q) \/ CeilingExpires(q) PROVE Orderly(p)'
  <2>1. pending' = pending
    BY <1>3 DEF GraceExpires, CeilingExpires
  <2>. QED BY <1>1, <2>1, OrderlyStays
<1>4. CASE Shutdown
  <2>1. phase' # "running"
    BY <1>4 DEF Shutdown
  <2>2. Waiting' = {}
    BY <2>1 DEF StopKnown
  <2>3. pending'[p] = {}
    BY <2>2 DEF IInv, ExactlyOnce
  <2>4. Closed(p)'
    BY <2>1, <2>3 DEF Closed
  <2>. QED BY <1>1, <2>3, <2>4, OrderlyStays
<1>. QED BY <1>2, <1>3, <1>4 DEF Timers

LEMMA OrderlyChild ==
  ASSUME IInv, IInv', Dropped, Counted, Next, Steady, InOrder, "request" \notin ChatterKinds,
         NEW q \in Procs, Child(q), NEW p \in Procs, Orderly(p)
  PROVE  Orderly(p)'
<1>1. ASSUME NEW c \in Calls, NEW kind \in Answers, NEW size \in Sizes, Answer(q, c, kind, size)
      PROVE  Orderly(p)'
  <2>1. PICK l : l = [kind |-> kind, id |-> id[c], to |-> c, size |-> size]
    OBVIOUS
  <2>2. /\ l \in Line /\ l.to = c /\ c # NoCall /\ l.kind \in Answers /\ l.id = id[c] /\ l.size = size
    BY <2>1, BridgeAssumption DEF Line, Kinds, IInv, CallType
  <2>3. /\ c \in inbox[q] /\ inbox' = [inbox EXCEPT ![q] = @ \ {c}] /\ pending' = pending
        /\ owner' = owner /\ id' = id /\ Write(q, l) /\ UNCHANGED <<handler, lines, discarding>>
        /\ OverCap(size) => c \in bigAnswers'
        /\ \A d \in inbox[q] : id[c] <= id[d]
    BY <1>1, <2>1 DEF Answer, callVars, loopVars, managedVars
  <2>4. Stream(q)' = Append(Stream(q), l) /\ (p # q => Stream(p)' = Stream(p))
    BY <2>2, <2>3, StreamWrite
  <2>5. CASE p # q
    <3>1. inbox'[p] = inbox[p] /\ pending'[p] = pending[p]
      BY <2>3, <2>5 DEF IInv, ChildType
    <3>. QED BY <2>4, <2>5, <3>1, OrderlyStays
  <2>6. CASE p = q
    <3>1. owner[c] = p
      BY <2>3, <2>6 DEF IInv, RequestsKnown
    <3>2. Told(p, l)'
      BY <2>2, <2>3, <3>1 DEF Told
    <3>3. inbox'[p] = inbox[p] \ {c}
      BY <2>3, <2>6 DEF IInv, ChildType
    <3>4. \A d \in inbox'[p] : id[c] < id[d]
      <4>1. ASSUME NEW d \in inbox'[p] PROVE id[c] < id[d]
        <5>1. d \in inbox[p] /\ d # c /\ d \in Calls /\ owner[d] = p /\ id[c] <= id[d]
          BY <2>3, <2>6, <3>3, <4>1 DEF IInv, RequestsKnown, ChildType
        <5>2. id[c] # id[d]
          BY <3>1, <5>1 DEF IInv, RequestsKnown
        <5>3. id[c] \in Nat /\ id[d] \in Nat
          BY <5>1 DEF IInv, CallType
        <5>. QED BY <5>1, <5>2, <5>3
      <4>. QED BY <4>1
    <3>5. c \in inbox[p] /\ pending'[p] = pending[p] /\ Stream(p)' = Append(Stream(p), l)
      BY <2>3, <2>4, <2>6
    <3>. QED BY <2>2, <3>2, <3>3, <3>4, <3>5, OrderlyGrows
  <2>. QED BY <2>5, <2>6
<1>2. ASSUME NEW kind \in ChatterKinds, NEW size \in ChatterSizes, Chatter(q, kind, size)
      PROVE  Orderly(p)'
  <2>1. PICK l : l = [kind |-> kind, id |-> IF kind = "request" THEN chatter'[q] ELSE 0,
                      to |-> NoCall, size |-> size]
    OBVIOUS
  <2>2. chatter'[q] \in Nat /\ size \in Nat /\ kind \in Kinds \ Answers
    BY <1>2, BridgeAssumption DEF Kinds, Answers, IInv, ChildType
  <2>3. l \in Line /\ l.to = NoCall /\ l.kind \notin Answers /\ l.size = size
    BY <2>1, <2>2 DEF Line
  <2>4. /\ inbox' = inbox /\ pending' = pending /\ owner' = owner /\ bigAnswers' = bigAnswers
        /\ Write(q, l) /\ UNCHANGED <<handler, lines, discarding>>
    BY <1>2, <2>1 DEF Chatter, callVars, loopVars, managedVars
  <2>5. Stream(q)' = Append(Stream(q), l) /\ (p # q => Stream(p)' = Stream(p))
    BY <2>3, <2>4, StreamWrite
  <2>6. CASE p # q
    BY <2>4, <2>5, <2>6, OrderlyStays
  <2>7. CASE p = q
    <3>1. OverCap(size) => OversizedChatter(p)'
      <4>. SUFFICES ASSUME OverCap(size) PROVE OversizedChatter(p)'
        OBVIOUS
      <4>1. bigLines'[p] = bigLines[p] + 1
        BY <2>3, <2>4, <2>7 DEF Write, IInv, ChildType
      <4>2. BigOf(p)' = BigOf(p)
        BY <2>4 DEF BigOf
      <4>3. Cardinality(BigOf(p)) <= bigLines[p] /\ bigLines[p] \in Nat /\ Cardinality(BigOf(p)) \in Nat
        BY FS_CardinalityType DEF Counted, IInv, ChildType
      <4>4. bigLines'[p] > Cardinality(BigOf(p)')
        BY <4>1, <4>2, <4>3
      <4>. QED BY <4>4 DEF OversizedChatter, BigOf
    <3>2. Told(p, l)'
      BY <2>3, <3>1 DEF Told
    <3>. QED BY <2>3, <2>4, <2>5, <2>7, <3>2, OrderlyGrows
  <2>. QED BY <2>6, <2>7
<1>3. ASSUME NEW how, Exits(q, how) \/ StdinError(q) PROVE Orderly(p)'
  <2>1. /\ UNCHANGED <<out, handler, lines, discarding, inbox>>
        /\ pending' = [pending EXCEPT ![q] = {}] /\ stdinOpen' = [stdinOpen EXCEPT ![q] = FALSE]
    BY <1>3 DEF Exits, StdinError, rejectAllPending, managedVars, loopVars, pipeVars
  <2>2. Stream(p)' = Stream(p)
    BY <2>1, StreamQuiet
  <2>3. pending'[p] = IF p = q THEN {} ELSE pending[p]
    BY <2>1 DEF IInv, ManagedType
  <2>4. p = q => Closed(p)'
    <3>1. p = q => ~stdinOpen'[p]
      BY <2>1 DEF IInv, ChildType
    <3>. QED BY <2>3, <3>1 DEF Closed
  <2>. QED BY <2>1, <2>2, <2>3, <2>4, OrderlyStays
<1>. QED BY <1>1, <1>2, <1>3 DEF Child

(* The loop over the lines of a chunk. *)
LEMMA OrderlyLoop ==
  ASSUME IInv, IInv', BufInv, Steady, HandleLine \/ EndChunk, "request" \notin ChatterKinds,
         \A q \in Procs : Orderly(q), NEW p \in Procs
  PROVE  Orderly(p)'
<1>1. CASE EndChunk
  <2>1. inbox' = inbox
    BY <1>1 DEF EndChunk, pipeVars
  <2>2. PICK h \in Procs :
           /\ h = handler
           /\ \A q \in Procs \ {h} : Stream(q)' = Stream(q)
           /\ IF OverCap(buffer[h])
              THEN /\ Stream(h) # <<>> /\ OverCap(Stream(h)[1].size)
                   /\ Stream(h)' = Tail(Stream(h))
              ELSE Stream(h)' = Stream(h)
    BY <1>1, StreamDrop
  <2>3. CASE ~OverCap(buffer[h])
    <3>1. pending' = pending /\ Stream(p)' = Stream(p)
      BY <1>1, <2>2, <2>3 DEF EndChunk
    <3>. QED BY <2>1, <3>1, OrderlyStays
  <2>4. CASE OverCap(buffer[h])
    <3>1. pending' = [pending EXCEPT ![h] = @ \ Oldest(h)]
      BY <1>1, <2>2, <2>4 DEF EndChunk, rejectOldestPending
    <3>2. pending'[h] = pending[h] \ Oldest(h) /\ \A q \in Procs \ {h} : pending'[q] = pending[q]
      BY <3>1 DEF IInv, ManagedType
    <3>3. CASE p # h
      BY <2>1, <2>2, <3>2, <3>3, OrderlyStays
    <3>4. CASE p = h
      <4>1. ~Excused(h) => Oldest(h) = pending[h] \cap {Stream(h)[1].to}
        BY <2>2, <2>4, HeadPays
      <4>2. ~Excused(h)' => pending'[h] = pending[h] \ {Stream(h)[1].to}
        BY <3>2, <4>1 DEF Steady
      <4>. QED BY <2>1, <2>2, <2>4, <3>2, <3>4, <4>2, OrderlyTail
    <3>. QED BY <3>3, <3>4
  <2>. QED BY <2>3, <2>4
<1>2. CASE HandleLine
  <2>1. NextLine /\ UNCHANGED <<handler, out, discarding, inbox>>
    BY <1>2 DEF HandleLine, SkipBlank, HandleOversized, HandleNonJson, HandleJson, managedVars, pipeVars
  <2>2. PICK h \in Procs : /\ h = handler /\ Stream(h) # <<>> /\ line = Stream(h)[1]
                          /\ Stream(h)' = Tail(Stream(h))
                          /\ \A q \in Procs \ {h} : Stream(q)' = Stream(q)
    BY <2>1, StreamLine
  <2>3. PICK l : l = line
    OBVIOUS
  <2>4. Told(h, l) /\ l \in Line
    <3>1. PICK s : s = Stream(h)
      OBVIOUS
    <3>2. s \in Seq(Line) /\ AllTold(h, s) /\ s # <<>> /\ l = s[1] /\ \A i \in 1..Len(s) : s[i] \in Line
      BY <2>2, <2>3, <3>1, OrderlyNow
    <3>3. 1 \in 1..Len(s)
      BY <3>2, EmptySeq
    <3>. QED BY <3>2, <3>3 DEF AllTold
  <2>5. pending[h] \subseteq Calls /\ NoCall \notin Calls
    BY BridgeAssumption DEF IInv, ManagedType
  <2>6. /\ pending'[h] \subseteq pending[h] /\ \A q \in Procs \ {h} : pending'[q] = pending[q]
        /\ ~Excused(h)' => Closed(h)' \/ pending'[h] = pending[h] \ {l.to}
    <3>1. CASE SkipBlank
      <4>1. pending' = pending /\ l.to = NoCall
        BY <2>3, <2>4, <3>1 DEF SkipBlank, Told, Answers
      <4>. QED BY <2>5, <4>1
    <3>2. CASE HandleOversized
      <4>1. pending' = [pending EXCEPT ![h] = @ \ Oldest(h)] /\ OverCap(l.size)
        BY <2>2, <2>3, <3>2 DEF HandleOversized, rejectOldestPending
      <4>2. pending'[h] = pending[h] \ Oldest(h) /\ \A q \in Procs \ {h} : pending'[q] = pending[q]
        BY <4>1 DEF IInv, ManagedType
      <4>3. ~Excused(h) => Oldest(h) = pending[h] \cap {l.to}
        BY <2>2, <2>3, <4>1, HeadPays
      <4>. QED BY <4>2, <4>3 DEF Steady
    <3>3. CASE HandleNonJson
      <4>1. l.to = NoCall
        BY <2>3, <2>4, <3>3 DEF HandleNonJson, Told, Answers
      <4>2. CASE ~TripsFailFast(h)
        <5>1. pending' = pending
          BY <2>2, <3>3, <4>2 DEF HandleNonJson
        <5>. QED BY <2>5, <4>1, <5>1
      <4>3. CASE TripsFailFast(h)
        <5>1. pending' = [pending EXCEPT ![h] = {}] /\ broken' = [broken EXCEPT ![h] = TRUE]
          BY <2>2, <3>3, <4>3 DEF HandleNonJson, rejectAllPending
        <5>2. pending'[h] = {} /\ broken'[h] /\ \A q \in Procs \ {h} : pending'[q] = pending[q]
          BY <5>1 DEF IInv, ManagedType
        <5>. QED BY <5>2 DEF Closed
      <4>. QED BY <4>2, <4>3
    <3>4. CASE HandleJson
      <4>1. pending' = [pending EXCEPT ![h] = @ \ Addressee(h, l)] /\ l.kind \notin {"text", "blank"}
        BY <2>2, <2>3, <3>4 DEF HandleJson
      <4>2. pending'[h] = pending[h] \ Addressee(h, l) /\ \A q \in Procs \ {h} : pending'[q] = pending[q]
        BY <4>1 DEF IInv, ManagedType
      <4>3. l.kind \in Answers \cup {"note"}
        <5>1. Truthful(h, l)
          <6>1. lines \in Seq(Line) /\ lines # <<>> /\ handler # 0
            BY <2>1 DEF NextLine, IInv, ChildType
          <6>2. 1 \in 1..Len(lines) /\ line = lines[1]
            BY <6>1 DEF line
          <6>. QED BY <2>2, <2>3, <6>1, <6>2 DEF IInv, LinesTruthful
        <5>. QED BY <2>4, <4>1, <5>1 DEF Truthful, Line, Kinds, Answers
      <4>4. CASE l.kind = "note"
        <5>1. Addressee(h, l) = {} /\ l.to = NoCall
          BY <2>4, <4>4 DEF Addressee, Told, Answers
        <5>. QED BY <2>5, <4>2, <5>1
      <4>5. CASE l.kind \in Answers
        <5>1. l.to \in Calls /\ owner[l.to] = h /\ id[l.to] = l.id /\ l.kind # "note"
          BY <2>4, <4>5 DEF Told, Line, Answers
        <5>2. \A c \in pending[h] : c \in Calls /\ owner[c] = h
          BY DEF IInv, ExactlyOnce, Waiting
        <5>3. \A c \in pending[h] : id[c] = l.id <=> c = l.to
          BY <5>1, <5>2 DEF IInv, RequestsKnown
        <5>4. Addressee(h, l) = pending[h] \cap {l.to}
          BY <5>1, <5>3 DEF Addressee
        <5>. QED BY <4>2, <5>4
      <4>. QED BY <4>3, <4>4, <4>5
    <3>. QED BY <1>2, <3>1, <3>2, <3>3, <3>4 DEF HandleLine
  <2>7. CASE p # h
    BY <2>1, <2>2, <2>6, <2>7, OrderlyStays
  <2>8. CASE p = h
    BY <2>1, <2>2, <2>3, <2>6, <2>8, OrderlyTail
  <2>. QED BY <2>7, <2>8
<1>. QED BY <1>1, <1>2

(* Whoever pays is the one whose answer it was, or somebody has an excuse.   *)
LEMMA ChargedNext ==
  ASSUME IInv, IInv', BufInv, Issued, Counted, Charged, Next, Steady, \A q \in Procs : Orderly(q)
  PROVE  Charged'
<1>1. ASSUME NEW c \in Calls, outcome[c] = "size"
      PROVE  \E p \in Procs : owner'[c] = p /\ (c \in bigAnswers' \/ Excused(p)')
  <2>1. PICK p \in Procs : owner[c] = p /\ (c \in bigAnswers \/ Excused(p))
    BY <1>1 DEF Charged
  <2>2. owner'[c] = p
    BY <2>1, SentStaysSent
  <2>3. c \in bigAnswers' \/ Excused(p)'
    BY <2>1 DEF Steady
  <2>. QED BY <2>2, <2>3
<1>0. ASSUME \A c \in Calls : outcome'[c] = "size" =>
               \E p \in Procs : owner'[c] = p /\ (c \in bigAnswers' \/ Excused(p)')
      PROVE  Charged'
  BY <1>0 DEF Charged
<1>2. CASE ~HandleOversized /\ ~EndChunk
  <2>1. \A c \in Calls : outcome'[c] = "size" => outcome[c] = "size"
    BY <1>2, OnlyCapRejects DEF Spares
  <2>. QED BY <1>0, <1>1, <2>1
<1>3. ASSUME NEW h \in Procs, Stream(h) # <<>>, OverCap(Stream(h)[1].size), owner' = owner,
             Settle(Oldest(h), "size")
      PROVE  Charged'
  <2>1. ASSUME NEW c \in Calls, outcome'[c] = "size", outcome[c] # "size"
        PROVE  \E p \in Procs : owner'[c] = p /\ (c \in bigAnswers' \/ Excused(p)')
    <3>1. c \in Oldest(h) /\ owner'[c] = h
      BY <1>3, <2>1 DEF Settle, Oldest, IInv, ExactlyOnce
    <3>2. ~Excused(h) => c \in bigAnswers
      BY <1>3, <3>1, HeadPays
    <3>3. c \in bigAnswers' \/ Excused(h)'
      BY <3>2 DEF Steady
    <3>. QED BY <3>1, <3>3
  <2>. QED BY <1>0, <1>1, <2>1
<1>4. CASE HandleOversized
  <2>1. /\ NextLine /\ OverCap(line.size) /\ rejectOldestPending(handler) /\ owner' = owner
        /\ UNCHANGED <<handler, out, discarding>>
    BY <1>4 DEF HandleOversized, managedVars, callVars, pipeVars
  <2>2. PICK h \in Procs : h = handler /\ Stream(h) # <<>> /\ line = Stream(h)[1]
    BY <2>1, StreamLine
  <2>. QED BY <1>3, <2>1, <2>2 DEF rejectOldestPending
<1>5. CASE EndChunk
  <2>1. owner' = owner
    BY <1>5 DEF EndChunk, callVars
  <2>2. PICK h \in Procs :
           h = handler /\ (OverCap(buffer[h]) => Stream(h) # <<>> /\ OverCap(Stream(h)[1].size))
    BY <1>5, StreamDrop
  <2>3. CASE OverCap(buffer[h])
    BY <1>3, <1>5, <2>1, <2>2, <2>3 DEF EndChunk, rejectOldestPending
  <2>4. CASE ~OverCap(buffer[h])
    <3>1. outcome' = outcome
      BY <1>5, <2>2, <2>4 DEF EndChunk, settleVars
    <3>. QED BY <1>0, <1>1, <3>1
  <2>. QED BY <2>3, <2>4
<1>. QED BY <1>2, <1>4, <1>5

LEMMA PayStarts == Init => PayInv
<1>. SUFFICES ASSUME Init PROVE PayInv
  OBVIOUS
<1>1. Issued /\ Charged
  BY DEF Init, Issued, Charged
<1>2. Counted
  <2>1. \A p \in Procs : BigOf(p) = {} /\ bigLines[p] = 0
    BY DEF Init, BigOf
  <2>. QED BY <2>1, FS_EmptySet DEF Counted
<1>3. ASSUME NEW p \in Procs PROVE Orderly(p)
  <2>1. Stream(p) = <<>> \o <<>>
    BY DEF Init, Stream, Rest, Here
  <2>2. Stream(p) = <<>>
    BY <2>1
  <2>3. To(<<>>) = {} /\ AllTold(p, <<>>) /\ Ascend(<<>>, id)
    BY DEF To, AllTold, Ascend
  <2>4. pending[p] = {} /\ inbox[p] = {}
    BY DEF Init
  <2>. QED BY <2>2, <2>3, <2>4 DEF Orderly, InTurn, Awaited, Coming
<1>. QED BY <1>1, <1>2, <1>3 DEF PayInv

LEMMA PayKeeps ==
  ASSUME IInv, IInv', StopKnown', BufInv, Dropped, PayInv, [Next]_vars,
         InOrder, ~LateCalls, "request" \notin ChatterKinds
  PROVE  PayInv'
<1>1. CASE UNCHANGED vars
  <2>1. UNCHANGED <<out, handler, lines, discarding, owner, id, outcome, pending, inbox, broken, stdinOpen,
                    phase, bigLines, bigAnswers>>
    BY <1>1 DEF vars, managedVars, loopVars, settleVars, callVars, procVars, stopVars, pipeVars
  <2>2. Issued' /\ Counted' /\ Charged'
    BY <2>1 DEF PayInv, Issued, Counted, Charged, BigOf, Excused, OversizedChatter, OversizedLate
  <2>3. Steady
    BY <2>1 DEF Steady, Late, Excused, OversizedChatter, OversizedLate, Closed
  <2>4. ASSUME NEW p \in Procs PROVE Orderly(p)'
    BY <2>1, <2>3, StreamQuiet, OrderlyStays DEF PayInv
  <2>. QED BY <2>2, <2>4 DEF PayInv
<1>2. CASE Next
  <2>1. Issued /\ Counted /\ Charged /\ \A p \in Procs : Orderly(p)
    BY DEF PayInv
  <2>2. Steady /\ Issued' /\ Counted'
    BY <1>2, <2>1, SteadyNext, AnswersIssued, CountsNext
  <2>3. Charged'
    BY <1>2, <2>1, <2>2, ChargedNext
  <2>4. ASSUME NEW p \in Procs PROVE Orderly(p)'
    BY <1>2, <2>1, <2>2, OrderlyCall, OrderlyData, OrderlyStops, OrderlyChild, OrderlyLoop DEF Next
  <2>. QED BY <2>2, <2>3, <2>4 DEF PayInv
<1>. QED BY <1>1, <1>2

(* When the children answer in the order of the requests and send none of   *)
(* their own, and no call follows shutdown(), rejectOldestPending's guess   *)
(* is right: the call that pays for a line over the cap is the one whose    *)
(* answer it was, until an oversized line answers nobody or comes too late. *)
THEOREM OffenderIsCharged ==
  InOrder /\ ~LateCalls /\ "request" \notin ChatterKinds => (Spec => []OffenderPays)
<1>. SUFFICES ASSUME InOrder, ~LateCalls, "request" \notin ChatterKinds PROVE Spec => []OffenderPays
  OBVIOUS
<1>1. PayInv => OffenderPays
  BY DEF PayInv, Charged, Excused, OffenderPays
<1>2. Spec => [](IInv /\ BufInv /\ Dropped)
  BY BufStarts, BufKeeps, DroppedStarts, DroppedKeeps, Invariant, PTL DEF Spec
<1>3. Spec => []StopKnown
  <2>1. IInv /\ StopKnown /\ [Next]_vars => StopKnown'
    <3>1. ASSUME UNCHANGED vars, StopKnown PROVE StopKnown'
      BY <3>1 DEF vars, mapVars, procVars, stopVars, settleVars, StopKnown, Live, Waiting
    <3>. QED BY <3>1, StopNext
  <2>. QED BY <2>1, StopInit, Invariant, PTL DEF Spec
<1>4. Spec => []PayInv
  BY <1>2, <1>3, PayStarts, PayKeeps, PTL DEF Spec
<1>. QED BY <1>1, <1>4, PTL
=============================================================================
