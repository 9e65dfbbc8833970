-------------------------- MODULE ObserversProofs ---------------------------
(***************************************************************************)
(* What holds of the audit log and of the traces for every set of requests *)
(* and of statuses, and any number of failures of the disk and of the SDK. *)
(***************************************************************************)
EXTENDS Observers, SequenceTheorems, FiniteSetTheorems, TLAPS

Said   == Statuses \cup {"allowed", "error"}
Step   == {"audit", "span", "end"} \X Requests \X Said
Logged == [entry : Requests \X Nat, to : {"file", "stdout"}, cut : BOOLEAN]
Tag    == {"status", "outcome"} \X Said
Trace  == [st : {"none", "noop", "open", "queued", "late"},
           tags : Seq(Tag), attr : Seq(Tag), spans : Seq(Said)]

(* The file is used until it fails, and never after.                        *)
FileOK ==
  /\ log \in Seq(Logged)
  /\ auditFd => held /\ ~warned /\ \A i \in DOMAIN log : log[i].to = "file"
  /\ warned => \E i \in DOMAIN log : log[i].to = "stdout"
  /\ \A i, j \in DOMAIN log : i < j /\ log[i].to = "stdout" => log[j].to = "stdout"
  /\ buffered \in Nat /\ \A i \in DOMAIN log : Waits(i) => log[i].to = "stdout"
  /\ auditFd => buffered = 0

(* The log has the entries audited, each once.                              *)
LogOK ==
  /\ \A i \in DOMAIN log : log[i].entry[2] \in 1..Len(told[log[i].entry[1]])
  /\ \A r \in Requests : \A k \in 1..Len(told[r]) : \E i \in DOMAIN log : log[i].entry = <<r, k>>
  /\ \A i, j \in DOMAIN log : log[i].entry = log[j].entry => i = j

(* What the running handler still does: the last steps of one entry, or of  *)
(* two, of one request.  left: the steps that follow.                       *)
Kind(left) == IF left \in {0, 3} THEN "end" ELSE IF left \in {1, 4} THEN "span" ELSE "audit"

CurOK ==
  /\ cur \in Seq(Step) /\ Len(cur) <= 6
  /\ \A i \in 1..Len(cur) : /\ cur[i][1] = Kind(Len(cur) - i)
                            /\ cur[i][2] = cur[1][2]
                            /\ Len(cur) - i \notin {0, 3} => cur[i + 1][3] = cur[i][3]

Current(r) == cur # <<>> /\ cur[1][2] = r
Closed(r)  == trace[r].st \in {"queued", "late"}

(* An entry that is under way has been audited before it is spanned; the    *)
(* trace is open for the first one only, unless the SDK has failed in it.   *)
CurrentOK(r) ==
  LET l == Len(cur)  n == Len(told[r])  t == trace[r] IN
  /\ stage[r] = "done"
  /\ l = 6 => n = 0
  /\ l \in {4, 5} => n = 1
  /\ l = 3 => n \in {0, 1}
  /\ l \in {1, 2} => n \in {1, 2}
  /\ l \in {1, 2, 4, 5} => cur[1][3] = told[r][n]
  /\ t.st = "open" /\ r \notin faulty =>
       /\ n = 0 \/ (n = 1 /\ l # 3)
       /\ t.attr = <<>>
       /\ t.tags = IF l \in {1, 4} THEN <<Status(told[r][1])>> ELSE <<>>

RequestOK(r) ==
  LET t == trace[r] IN
  /\ stage[r] = "new" => told[r] = <<>> /\ t = NoTrace
  /\ stage[r] # "new" => t.st # "none"
  /\ stage[r] = "call" => /\ told[r] = <<>> /\ t.st \in {"noop", "open"}
                          /\ t.tags = <<>> /\ t.attr = <<>>
  /\ stage[r] = "done" /\ ~Current(r) /\ r \notin faulty => t.st \in {"noop", "queued", "late"}
  /\ Closed(r) => told[r] # <<>>
  /\ Closed(r) /\ r \notin faulty => t.attr = IF tracer = "bare" THEN <<>> ELSE Outcome1(told[r][1])
  /\ \A i \in DOMAIN t.tags : t.tags[i][2] \in Range(told[r])
  /\ Current(r) => CurrentOK(r)

TypeInv ==
  /\ stage \in [Requests -> {"new", "call", "done"}]
  /\ told \in [Requests -> Seq(Said)] /\ trace \in [Requests -> Trace]

BootInv ==
  proc = "boot" => log = <<>> /\ buffered = 0 /\ cur = <<>> /\ \A r \in Requests : stage[r] = "new"

IInv == TypeInv /\ FileOK /\ LogOK /\ CurOK /\ BootInv /\ \A r \in Requests : RequestOK(r)
-----------------------------------------------------------------------------
(* The audit log.                                                           *)

LEMMA GoesSays ==
  ASSUME FileOK, NEW e \in Requests \X Nat, NEW to \in {"file", "stdout"}, NEW cut \in BOOLEAN,
         Goes(e, to, cut)
  PROVE  /\ log' \in Seq(Logged) /\ DOMAIN log = 1..Len(log) /\ DOMAIN log' = 1..(Len(log) + 1)
         /\ Len(log) \in Nat /\ Len(log') = Len(log) + 1
         /\ \A i \in 1..Len(log) : log'[i] = log[i]
         /\ log'[Len(log) + 1].entry = e /\ log'[Len(log) + 1].to = to
<1>. DEFINE x == [entry |-> e, to |-> to, cut |-> cut]
<1>1. log \in Seq(Logged) /\ x \in Logged /\ log' = Append(log, x)
  BY DEF FileOK, Goes, Logged
<1>2. x.entry = e /\ x.to = to
  OBVIOUS
<1>. HIDE DEF x
<1>. QED BY <1>1, <1>2, AppendProperties, LenProperties

(* What waits for stdout went to stdout. *)
LEMMA StdoutWaits ==
  ASSUME FileOK, NEW e \in Requests \X Nat, Goes(e, "stdout", FALSE)
  PROVE  buffered' \in Nat /\ \A i \in DOMAIN log' : Waits(i)' => log'[i].to = "stdout"
<1>. DEFINE l == Len(log)
<1>1. /\ l \in Nat /\ Len(log') = l + 1 /\ DOMAIN log = 1..l /\ DOMAIN log' = 1..(l + 1)
      /\ \A i \in 1..l : log'[i] = log[i]
      /\ log'[l + 1].to = "stdout"
  BY GoesSays
<1>2. buffered \in Nat /\ buffered' = buffered + 1
  BY DEF FileOK, Goes
<1>3. ASSUME NEW i \in 1..(l + 1), Waits(i)' PROVE log'[i].to = "stdout"
  <2>1. i > (l + 1) - (buffered + 1)
    BY <1>1, <1>2, <1>3 DEF Waits
  <2>2. CASE i = l + 1
    BY <1>1, <2>2
  <2>3. CASE i # l + 1
    <3>1. i \in 1..l /\ i > l - buffered
      BY <1>1, <1>2, <2>1, <2>3
    <3>2. log[i].to = "stdout"
      BY <1>1, <3>1 DEF FileOK, Waits
    <3>. QED BY <1>1, <3>1, <3>2
  <2>. QED BY <2>2, <2>3
<1>. QED BY <1>1, <1>2, <1>3

(* Wherever an entry goes, it is the next of the log. *)
LogGrows(e) ==
  /\ DOMAIN log' = 1..(Len(log) + 1) /\ \A i \in 1..Len(log) : log'[i] = log[i]
  /\ log'[Len(log) + 1].entry = e

LEMMA logAuditEntryKeeps ==
  ASSUME FileOK, NEW e \in Requests \X Nat, NEW fault, logAuditEntry(e, fault)
  PROVE  FileOK' /\ LogGrows(e)
<1>. DEFINE l == Len(log)
<1>1. ASSUME NEW cut \in BOOLEAN, Written(e, cut) PROVE FileOK' /\ LogGrows(e)
  <2>1. Goes(e, "file", cut) /\ auditFd /\ auditFd' /\ held' /\ ~warned'
    BY <1>1 DEF Written, FileOK
  <2>2. /\ log' \in Seq(Logged) /\ DOMAIN log = 1..l /\ DOMAIN log' = 1..(l + 1) /\ l \in Nat
        /\ \A i \in 1..l : log'[i] = log[i]
        /\ log'[l + 1].entry = e /\ log'[l + 1].to = "file"
    BY <2>1, GoesSays
  <2>3. \A i \in 1..(l + 1) : log'[i].to = "file"
    <3>1. \A i \in 1..l : log[i].to = "file"
      BY <2>1, <2>2 DEF FileOK
    <3>2. \A i \in 1..(l + 1) : i \in 1..l \/ i = l + 1
      BY <2>2
    <3>. QED BY <2>2, <3>1, <3>2
  <2>4. buffered' = 0 /\ \A i \in 1..(l + 1) : ~Waits(i)'
    <3>1. buffered' = 0 /\ Len(log') = l + 1
      BY <2>1, GoesSays DEF FileOK, Goes
    <3>. QED BY <2>2, <3>1 DEF Waits
  <2>. QED BY <2>1, <2>2, <2>3, <2>4 DEF FileOK, LogGrows
<1>2. CASE ToStdout(e)
  <2>1. Goes(e, "stdout", FALSE) /\ ~auditFd /\ ~auditFd' /\ warned' = warned
    BY <1>2 DEF ToStdout
  <2>2. /\ log' \in Seq(Logged) /\ DOMAIN log = 1..l /\ DOMAIN log' = 1..(l + 1) /\ l \in Nat
        /\ \A i \in 1..l : log'[i] = log[i]
        /\ log'[l + 1].entry = e /\ log'[l + 1].to = "stdout"
    BY <2>1, GoesSays
  <2>3. \A i, j \in 1..(l + 1) : i < j /\ log'[i].to = "stdout" => log'[j].to = "stdout"
    <3>1. \A i, j \in 1..l : i < j /\ log[i].to = "stdout" => log[j].to = "stdout"
      BY <2>2 DEF FileOK
    <3>2. \A i, j \in 1..(l + 1) : i < j => i \in 1..l /\ (j \in 1..l \/ j = l + 1)
      BY <2>2
    <3>. QED BY <2>2, <3>1, <3>2
  <2>4. \E i \in 1..(l + 1) : log'[i].to = "stdout"
    BY <2>2
  <2>5. buffered' \in Nat /\ \A i \in DOMAIN log' : Waits(i)' => log'[i].to = "stdout"
    BY <2>1, StdoutWaits
  <2>. QED BY <2>1, <2>2, <2>3, <2>4, <2>5 DEF FileOK, LogGrows
<1>3. ASSUME NEW closes, WriteThrows(e, closes) PROVE FileOK' /\ LogGrows(e)
  <2>1. Goes(e, "stdout", FALSE) /\ auditFd /\ ~auditFd' /\ warned'
    BY <1>3 DEF WriteThrows, Reverts
  <2>2. /\ log' \in Seq(Logged) /\ DOMAIN log = 1..l /\ DOMAIN log' = 1..(l + 1) /\ l \in Nat
        /\ \A i \in 1..l : log'[i] = log[i]
        /\ log'[l + 1].entry = e /\ log'[l + 1].to = "stdout"
    BY <2>1, GoesSays
  <2>3. \A i, j \in 1..(l + 1) : i < j /\ log'[i].to = "stdout" => log'[j].to = "stdout"
    <3>1. \A i, j \in 1..l : i < j /\ log[i].to = "stdout" => log[j].to = "stdout"
      BY <2>2 DEF FileOK
    <3>2. \A i, j \in 1..(l + 1) : i < j => i \in 1..l /\ (j \in 1..l \/ j = l + 1)
      BY <2>2
    <3>. QED BY <2>2, <3>1, <3>2
  <2>4. \E i \in 1..(l + 1) : log'[i].to = "stdout"
    BY <2>2
  <2>5. buffered' \in Nat /\ \A i \in DOMAIN log' : Waits(i)' => log'[i].to = "stdout"
    BY <2>1, StdoutWaits
  <2>. QED BY <2>1, <2>2, <2>3, <2>4, <2>5 DEF FileOK, LogGrows
<1>. QED BY <1>1, <1>2, <1>3 DEF logAuditEntry

LEMMA RangeAppend ==
  ASSUME NEW S, NEW t \in Seq(S), NEW s \in S
  PROVE  Range(t) \subseteq Range(Append(t, s)) /\ s \in Range(Append(t, s))
BY AppendProperties, LenProperties DEF Range

LEMMA AppendTwo ==
  ASSUME NEW S, NEW a \in S, NEW b \in S
  PROVE  Append(<<a>>, b) = <<a, b>>
<1>. DEFINE u == Append(<<a>>, b)
            v == <<a, b>>
<1>1. <<a>> \in Seq(S) /\ v \in Seq(S)
  OBVIOUS
<1>2. Len(<<a>>) = 1 /\ <<a>>[1] = a /\ Len(v) = 2 /\ v[1] = a /\ v[2] = b
  OBVIOUS
<1>3. u \in Seq(S) /\ Len(u) = 2 /\ u[1] = a /\ u[2] = b
  BY <1>1, <1>2, AppendProperties
<1>. HIDE DEF u, v
<1>4. \A i \in 1..2 : u[i] = v[i]
  BY <1>2, <1>3
<1>5. u = v
  BY <1>1, <1>2, <1>3, <1>4, SeqEqual
<1>. QED BY <1>5 DEF u, v

LEMMA OneMore ==
  ASSUME NEW S, NEW t \in Seq(S), NEW s \in S, NEW n, n = Len(t), NEW u, u = Append(t, s)
  PROVE  /\ u \in Seq(S) /\ Len(u) = n + 1 /\ u # <<>> /\ u[n + 1] = s
         /\ \A i \in 1..n : u[i] = t[i]
         /\ Range(t) \subseteq Range(u) /\ s \in Range(u)
BY AppendProperties, RangeAppend

(* One entry more in the log, for one status more told. *)
LEMMA LogKeeps ==
  ASSUME TypeInv, FileOK, LogOK, NEW r \in Requests, NEW s \in Said,
         told' = [told EXCEPT ![r] = Append(told[r], s)],
         LogGrows(<<r, Len(told[r]) + 1>>)
  PROVE  LogOK'
<1>. DEFINE n == Len(told[r])
            l == Len(log)
<1>1. told[r] \in Seq(Said) /\ n \in Nat /\ l \in Nat /\ DOMAIN log = 1..l /\ log \in Seq(Logged)
  BY LenProperties DEF TypeInv, FileOK
<1>2. Len(told'[r]) = n + 1 /\ \A q \in Requests \ {r} : told'[q] = told[q]
  BY <1>1, AppendProperties DEF TypeInv
<1>3. \A i \in 1..l : log[i].entry[1] \in Requests /\ log[i].entry[2] \in Nat
  <2>1. \A i \in 1..l : log[i] \in Logged
    BY <1>1
  <2>. QED BY <2>1 DEF Logged
<1>4. \A i \in 1..l : log[i].entry[2] \in 1..Len(told[log[i].entry[1]])
  BY <1>1 DEF LogOK
<1>5. \A i \in 1..l : log[i].entry # <<r, n + 1>>
  BY <1>1, <1>3, <1>4
<1>6. DOMAIN log' = 1..(l + 1) /\ (\A i \in 1..l : log'[i] = log[i]) /\ log'[l + 1].entry = <<r, n + 1>>
  BY DEF LogGrows
<1>7. \A i \in 1..(l + 1) : log'[i].entry[2] \in 1..Len(told'[log'[i].entry[1]])
  <2>1. ASSUME NEW i \in 1..l PROVE log'[i].entry[2] \in 1..Len(told'[log'[i].entry[1]])
    <3>1. log'[i].entry[1] \in Requests /\ log'[i].entry[2] \in 1..Len(told[log'[i].entry[1]])
      BY <1>3, <1>4, <1>6
    <3>. QED BY <1>1, <1>2, <3>1
  <2>2. log'[l + 1].entry[2] \in 1..Len(told'[log'[l + 1].entry[1]])
    BY <1>1, <1>2, <1>6
  <2>. QED BY <1>1, <2>1, <2>2
<1>8. ASSUME NEW q \in Requests, NEW k \in 1..Len(told'[q])
      PROVE  \E i \in 1..(l + 1) : log'[i].entry = <<q, k>>
  <2>1. CASE q = r /\ k = n + 1
    BY <1>1, <1>6, <2>1
  <2>2. CASE k \in 1..Len(told[q])
    <3>1. PICK i \in 1..l : log[i].entry = <<q, k>>
      BY <1>1, <2>2 DEF LogOK
    <3>. QED BY <1>1, <1>6, <3>1
  <2>. QED BY <1>1, <1>2, <2>1, <2>2
<1>9. \A i, j \in 1..(l + 1) : log'[i].entry = log'[j].entry => i = j
  <2>1. \A i, j \in 1..l : log'[i].entry = log'[j].entry => i = j
    BY <1>1, <1>6 DEF LogOK
  <2>2. \A i \in 1..l : log'[i].entry # log'[l + 1].entry
    BY <1>5, <1>6
  <2>3. \A i \in 1..(l + 1) : i \in 1..l \/ i = l + 1
    BY <1>1
  <2>. QED BY <2>1, <2>2, <2>3
<1>. HIDE DEF l
<1>10. /\ \A i \in DOMAIN log' : log'[i].entry[2] \in 1..Len(told'[log'[i].entry[1]])
       /\ \A i, j \in DOMAIN log' : log'[i].entry = log'[j].entry => i = j
  BY <1>6, <1>7, <1>9
<1>11. \A q \in Requests : \A k \in 1..Len(told'[q]) : \E i \in DOMAIN log' : log'[i].entry = <<q, k>>
  BY <1>6, <1>8, Zenon
<1>. QED BY <1>10, <1>11, Zenon DEF LogOK
-----------------------------------------------------------------------------
(* The steps of a handler.                                                  *)

LEMMA Steps ==
  ASSUME NEW r \in Requests, NEW s \in Said
  PROVE  LET c == <<<<"audit", r, s>>, <<"span", r, s>>, <<"end", r, s>>>> IN
         /\ c \in Seq(Step) /\ Len(c) = 3
         /\ c[1] = <<"audit", r, s>> /\ c[2] = <<"span", r, s>> /\ c[3] = <<"end", r, s>>
<1>1. /\ <<"audit", r, s>> \in Step /\ <<"span", r, s>> \in Step /\ <<"end", r, s>> \in Step
  BY DEF Step
<1>2. \A a, b, c \in Step : <<a, b, c>> \in Seq(Step)
  OBVIOUS
<1>. QED BY <1>1, <1>2

LEMMA ReportsSays ==
  ASSUME NEW r \in Requests, NEW o \in Outcomes, Reports(r, o)
  PROVE  CurOK' /\ cur' # <<>> /\ cur'[1][2] = r /\ Len(cur') \in {3, 6} /\ Len(cur') \notin {1, 2, 4, 5}
<1>. DEFINE steps(s) == <<<<"audit", r, s>>, <<"span", r, s>>, <<"end", r, s>>>>
<1>1. cur' = IF Len(o) = 1 THEN steps(o[1]) ELSE steps(o[1]) \o steps(o[2])
  BY DEF Reports
<1>2. \A s \in Said : /\ steps(s) \in Seq(Step) /\ Len(steps(s)) = 3
                      /\ steps(s)[1] = <<"audit", r, s>> /\ steps(s)[2] = <<"span", r, s>>
                      /\ steps(s)[3] = <<"end", r, s>>
  BY Steps
<1>. HIDE DEF steps
<1>3. ASSUME NEW s \in Statuses, o = <<s>>
      PROVE  CurOK' /\ cur' # <<>> /\ cur'[1][2] = r /\ Len(cur') \in {3, 6} /\ Len(cur') \notin {1, 2, 4, 5}
  <2>1. cur' = steps(s) /\ s \in Said
    BY <1>1, <1>3 DEF Said
  <2>2. /\ cur' \in Seq(Step) /\ Len(cur') = 3 /\ cur' # <<>>
        /\ cur'[1] = <<"audit", r, s>> /\ cur'[2] = <<"span", r, s>> /\ cur'[3] = <<"end", r, s>>
    BY <1>2, <2>1
  <2>3. \A i \in 1..3 : i = 1 \/ i = 2 \/ i = 3
    OBVIOUS
  <2>4. CurOK'
    BY <2>2, <2>3 DEF CurOK, Kind
  <2>. QED BY <2>2, <2>4
<1>4. CASE o = <<"allowed", "error">>
  <2>1. cur' = steps("allowed") \o steps("error") /\ "allowed" \in Said /\ "error" \in Said
    BY <1>1, <1>4 DEF Said
  <2>2. /\ cur' \in Seq(Step) /\ Len(cur') = 6 /\ cur' # <<>>
        /\ cur'[1] = <<"audit", r, "allowed">> /\ cur'[2] = <<"span", r, "allowed">>
        /\ cur'[3] = <<"end", r, "allowed">> /\ cur'[4] = <<"audit", r, "error">>
        /\ cur'[5] = <<"span", r, "error">> /\ cur'[6] = <<"end", r, "error">>
    <3>1. /\ steps("allowed") \in Seq(Step) /\ Len(steps("allowed")) = 3
          /\ steps("error") \in Seq(Step) /\ Len(steps("error")) = 3
      BY <1>2, <2>1
    <3>2. /\ cur' \in Seq(Step) /\ Len(cur') = 6
          /\ \A i \in 1..6 : cur'[i] = IF i <= 3 THEN steps("allowed")[i] ELSE steps("error")[i - 3]
      <4>. DEFINE a == steps("allowed")
                  b == steps("error")
      <4>1. cur' = a \o b /\ a \in Seq(Step) /\ Len(a) = 3 /\ b \in Seq(Step) /\ Len(b) = 3
        BY <2>1, <3>1
      <4>. HIDE DEF a, b
      <4>2. /\ a \o b \in Seq(Step) /\ Len(a \o b) = Len(a) + Len(b)
            /\ \A i \in 1..(Len(a) + Len(b)) : (a \o b)[i] = IF i <= Len(a) THEN a[i] ELSE b[i - Len(a)]
        BY <4>1, ConcatProperties
      <4>3. cur' \in Seq(Step) /\ Len(cur') = 6 /\ \A i \in 1..6 : cur'[i] = IF i <= 3 THEN a[i] ELSE b[i - 3]
        BY <4>1, <4>2
      <4>. QED BY <4>3 DEF a, b
    <3>. QED BY <1>2, <2>1, <3>2
  <2>3. \A i \in 1..6 : i = 1 \/ i = 2 \/ i = 3 \/ i = 4 \/ i = 5 \/ i = 6
    OBVIOUS
  <2>4. CurOK'
    BY <2>2, <2>3 DEF CurOK, Kind
  <2>. QED BY <2>2, <2>4
<1>. QED BY <1>3, <1>4 DEF Outcomes

(* The step at the head is done. *)
LEMMA DoingSays ==
  ASSUME CurOK, NEW step, Doing(step)
  PROVE  /\ CurOK' /\ cur # <<>> /\ Head(cur) = cur[1] /\ cur[1] \in Step /\ cur[1][1] = step
         /\ Len(cur) \in 1..6 /\ Len(cur') = Len(cur) - 1
         /\ step = Kind(Len(cur) - 1)
         /\ cur' # <<>> => cur'[1][2] = cur[1][2]
         /\ Len(cur) \notin {1, 4} => cur' # <<>> /\ cur'[1][3] = cur[1][3]
<1>. DEFINE l == Len(cur)
<1>1. cur \in Seq(Step) /\ cur # <<>> /\ cur' = Tail(cur) /\ Head(cur)[1] = step /\ l <= 6 /\ l \in Nat
  BY DEF CurOK, Doing
<1>2. l \in 1..6 /\ Head(cur) = cur[1] /\ cur[1] \in Step
  <2>1. l # 0
    BY <1>1, EmptySeq
  <2>2. l \in 1..6
    <3>1. \A n \in Nat : n <= 6 /\ n # 0 => n \in 1..6
      OBVIOUS
    <3>. HIDE DEF l
    <3>. QED BY <1>1, <2>1, <3>1
  <2>. QED BY <1>1, <2>2, ElementOfSeq
<1>3. cur' \in Seq(Step) /\ Len(cur') = l - 1 /\ \A i \in 1..(l - 1) : cur'[i] = cur[i + 1]
  BY <1>1, HeadTailProperties
<1>4. \A i \in 1..l : /\ cur[i][1] = Kind(l - i) /\ cur[i][2] = cur[1][2]
                      /\ l - i \notin {0, 3} => cur[i + 1][3] = cur[i][3]
  BY DEF CurOK
<1>5. ASSUME NEW i \in 1..(l - 1)
      PROVE  /\ cur'[i][1] = Kind((l - 1) - i) /\ cur'[i][2] = cur'[1][2] /\ cur'[1][2] = cur[1][2]
             /\ (l - 1) - i \notin {0, 3} => cur'[i + 1][3] = cur'[i][3]
  <2>1. i + 1 \in 1..l /\ 2 \in 1..l /\ 1 \in 1..(l - 1) /\ l - (i + 1) = (l - 1) - i
    BY <1>2
  <2>2. cur'[i] = cur[i + 1] /\ cur'[1] = cur[2]
    BY <1>3, <2>1
  <2>3. (l - 1) - i \notin {0, 3} => i + 1 \in 1..(l - 1)
    BY <1>2
  <2>4. cur[i + 1][1] = Kind((l - 1) - i) /\ cur[i + 1][2] = cur[1][2] /\ cur[2][2] = cur[1][2]
    BY <1>4, <2>1
  <2>5. (l - 1) - i \notin {0, 3} => cur[(i + 1) + 1][3] = cur[i + 1][3]
    BY <1>4, <2>1
  <2>6. (l - 1) - i \notin {0, 3} => cur'[i + 1] = cur[(i + 1) + 1]
    BY <1>3, <2>3
  <2>. QED BY <2>2, <2>4, <2>5, <2>6
<1>6. CurOK'
  <2>1. Len(cur') <= 6
    BY <1>2, <1>3
  <2>. QED BY <1>3, <1>5, <2>1 DEF CurOK
<1>7. cur' # <<>> => cur'[1][2] = cur[1][2]
  <2>1. cur' # <<>> => 1 \in 1..(l - 1)
    BY <1>2, <1>3
  <2>. QED BY <1>5, <2>1
<1>8. l \notin {1, 4} => cur' # <<>> /\ cur'[1][3] = cur[1][3]
  <2>1. l # 1 => cur' # <<>> /\ cur'[1] = cur[2]
    BY <1>2, <1>3
  <2>2. l \notin {1, 4} => l - 1 \notin {0, 3}
    BY <1>2
  <2>3. 1 \in 1..l /\ 1 + 1 = 2
    BY <1>2
  <2>4. l - 1 \notin {0, 3} => cur[2][3] = cur[1][3]
    BY <1>4, <2>3
  <2>. QED BY <2>1, <2>2, <2>4
<1>9. step = Kind(l - 1)
  BY <1>1, <1>2, <1>4
<1>. QED BY <1>1, <1>2, <1>3, <1>6, <1>7, <1>8, <1>9
-----------------------------------------------------------------------------
(* The requests.                                                            *)

LEMMA AtRest ==
  IInv => /\ TypeInv /\ FileOK /\ LogOK /\ CurOK /\ BootInv
          /\ \A r \in Requests : /\ RequestOK(r) /\ trace[r] \in Trace /\ told[r] \in Seq(Said)
                                 /\ Len(told[r]) \in Nat
BY LenProperties DEF IInv, TypeInv

LEMMA OtherKeeps ==
  ASSUME NEW q \in Requests, RequestOK(q), stage'[q] = stage[q], told'[q] = told[q],
         trace'[q] = trace[q], q \in faulty' <=> q \in faulty, tracer' = tracer,
         ~Current(q), ~Current(q)'
  PROVE  RequestOK(q)'
BY DEF RequestOK, Closed

(* The head of the handler's steps: of status s, of request r, which has    *)
(* told n, with l steps to do, this one included.                           *)
Handles(r, s, l, n) ==
  /\ Head(cur) = cur[1] /\ cur[1][2] = r /\ cur[1][3] = s /\ cur # <<>>
  /\ Len(cur) = l /\ Len(told[r]) = n
  /\ RequestOK(r) /\ CurrentOK(r) /\ stage[r] = "done"
  /\ told[r] \in Seq(Said) /\ trace[r] \in Trace
  /\ told[r] # <<>> => n > 0

LEMMA HandlerSays ==
  ASSUME IInv, NEW step, Doing(step)
  PROVE  \E r \in Requests, s \in Said, l \in 1..6, n \in Nat :
           /\ Handles(r, s, l, n) /\ step = Kind(l - 1) /\ Len(cur') = l - 1
           /\ \A q \in Requests \ {r} : ~Current(q) /\ ~Current(q)'
           /\ cur' # <<>> => cur'[1][2] = r
           /\ l \notin {1, 4} => cur' # <<>> /\ cur'[1][3] = s
           /\ CurOK' /\ BootInv' /\ stage' = stage
<1>1. PICK r, s, l, n : r = cur[1][2] /\ s = cur[1][3] /\ l = Len(cur) /\ n = Len(told[r])
  OBVIOUS
<1>2. /\ CurOK' /\ cur # <<>> /\ Head(cur) = cur[1] /\ cur[1] \in Step
      /\ cur' # <<>> => cur'[1][2] = r
      /\ l \in 1..6 /\ Len(cur') = l - 1 /\ step = Kind(l - 1)
      /\ l \notin {1, 4} => cur' # <<>> /\ cur'[1][3] = s
  BY <1>1, AtRest, DoingSays
<1>3. r \in Requests /\ s \in Said
  BY <1>1, <1>2 DEF Step
<1>4. RequestOK(r) /\ CurrentOK(r) /\ stage[r] = "done" /\ trace[r] \in Trace
  BY <1>1, <1>2, <1>3, AtRest DEF RequestOK, CurrentOK, Current
<1>5. told[r] \in Seq(Said) /\ n \in Nat /\ (told[r] # <<>> => n > 0)
  <2>1. told[r] \in Seq(Said) /\ n \in Nat
    BY <1>1, <1>3, AtRest
  <2>2. told[r] # <<>> => n # 0
    BY <1>1, <2>1, EmptySeq
  <2>. QED BY <2>1, <2>2
<1>6. BootInv' /\ stage' = stage
  BY <1>2, AtRest DEF Doing, BootInv
<1>7. \A q \in Requests \ {r} : ~Current(q) /\ ~Current(q)'
  BY <1>1, <1>2 DEF Current
<1>8. Handles(r, s, l, n)
  BY <1>1, <1>2, <1>4, <1>5 DEF Handles
<1>. QED BY <1>2, <1>3, <1>5, <1>6, <1>7, <1>8

LEMMA AuditsKeeps ==
  ASSUME IInv, Audits
  PROVE  IInv'
<1>1. Doing("audit")
  BY DEF Audits
<1>2. PICK r \in Requests, s \in Said, l \in 1..6, n \in Nat :
         /\ Handles(r, s, l, n) /\ Kind(l - 1) = "audit" /\ Len(cur') = l - 1
         /\ \A q \in Requests \ {r} : ~Current(q) /\ ~Current(q)'
         /\ cur' # <<>> => cur'[1][2] = r
         /\ l \notin {1, 4} => cur' # <<>> /\ cur'[1][3] = s
         /\ CurOK' /\ BootInv' /\ stage' = stage
  BY <1>1, HandlerSays
<1>3. l \in {3, 6} /\ Len(cur') = l - 1 /\ cur' # <<>> /\ cur'[1][2] = r /\ cur'[1][3] = s
  <2>1. l \in {3, 6}
    BY <1>2 DEF Kind
  <2>. QED BY <1>2, <2>1
<1>4. /\ told' = [told EXCEPT ![r] = Append(told[r], s)]
      /\ trace' = trace /\ tracer' = tracer /\ faulty' = faulty
      /\ \E fault : logAuditEntry(<<r, n + 1>>, fault)
  BY <1>2 DEF Audits, tracerVars, Handles
<1>5. /\ told[r] \in Seq(Said) /\ told'[r] \in Seq(Said) /\ Len(told'[r]) = n + 1
      /\ told'[r][n + 1] = s /\ told'[r] # <<>> /\ (n > 0 => told'[r][1] = told[r][1])
      /\ Range(told[r]) \subseteq Range(told'[r]) /\ \A q \in Requests \ {r} : told'[q] = told[q]
      /\ told[r] # <<>> => n > 0
  <2>1. /\ told[r] \in Seq(Said) /\ Len(told[r]) = n /\ told'[r] = Append(told[r], s)
        /\ told[r] # <<>> => n > 0
        /\ \A q \in Requests \ {r} : told'[q] = told[q]
    BY <1>2, <1>4, AtRest DEF TypeInv, Handles
  <2>2. n > 0 => 1 \in 1..n
    OBVIOUS
  <2>3. /\ told'[r] \in Seq(Said) /\ Len(told'[r]) = n + 1 /\ told'[r] # <<>>
        /\ told'[r][n + 1] = s /\ \A i \in 1..n : told'[r][i] = told[r][i]
    BY <2>1, OneMore
  <2>4. Range(told[r]) \subseteq Range(told'[r])
    BY <2>1, RangeAppend
  <2>. QED BY <2>1, <2>2, <2>3, <2>4
<1>6. FileOK' /\ LogOK'
  <2>1. <<r, n + 1>> \in Requests \X Nat /\ Len(told[r]) = n
    BY <1>2 DEF Handles
  <2>. QED BY <1>4, <2>1, AtRest, logAuditEntryKeeps, LogKeeps
<1>7. TypeInv'
  BY <1>2, <1>4, <1>5, AtRest DEF TypeInv
<1>8. CurrentOK(r)'
  <2>1. trace[r].st = "open" /\ r \notin faulty => n = 0 /\ trace[r].attr = <<>> /\ trace[r].tags = <<>>
    BY <1>2, <1>3 DEF CurrentOK, Handles
  <2>2. (l = 6 => n = 0) /\ (l = 3 => n \in {0, 1}) /\ stage[r] = "done"
    BY <1>2 DEF CurrentOK, Handles
  <2>3. Len(cur') \in {2, 5} /\ (Len(cur') = 5 => n = 0) /\ (Len(cur') = 2 => n \in {0, 1})
    BY <1>3, <2>2
  <2>4. /\ stage'[r] = "done" /\ Len(cur') \notin {1, 3, 4, 6} /\ cur'[1][3] = told'[r][Len(told'[r])]
        /\ Len(cur') = 5 => Len(told'[r]) = 1
        /\ Len(cur') = 2 => Len(told'[r]) \in {1, 2}
    BY <1>2, <1>3, <1>5, <2>2, <2>3
  <2>5. trace'[r].st = "open" /\ r \notin faulty' =>
          Len(told'[r]) = 1 /\ trace'[r].attr = <<>> /\ trace'[r].tags = <<>>
    BY <1>4, <1>5, <2>1
  <2>. QED BY <2>3, <2>4, <2>5 DEF CurrentOK
<1>9. RequestOK(r)'
  <2>1. RequestOK(r) /\ stage[r] = "done" /\ Current(r)'
    BY <1>2, <1>3 DEF Current, Handles
  <2>2. Closed(r)' => n > 0 /\ told'[r][1] = told[r][1]
    BY <1>4, <1>5, <2>1 DEF RequestOK, Closed
  <2>. QED BY <1>2, <1>4, <1>5, <1>8, <2>1, <2>2 DEF RequestOK, Closed, Outcome1
<1>10. ASSUME NEW q \in Requests \ {r} PROVE RequestOK(q)'
  BY <1>2, <1>4, <1>5, AtRest, OtherKeeps
<1>. QED BY <1>2, <1>6, <1>7, <1>9, <1>10 DEF IInv

(* A tag more is of a status told.                                          *)
LEMMA TagAdded ==
  ASSUME NEW t \in Seq(Tag), NEW y \in Tag, NEW R, y[2] \in R, \A i \in DOMAIN t : t[i][2] \in R
  PROVE  \A i \in DOMAIN Append(t, y) : Append(t, y)[i][2] \in R
<1>1. DOMAIN t = 1..Len(t) /\ DOMAIN Append(t, y) = 1..(Len(t) + 1) /\ Len(t) \in Nat
  BY AppendProperties, LenProperties
<1>2. (\A i \in 1..Len(t) : Append(t, y)[i] = t[i]) /\ Append(t, y)[Len(t) + 1] = y
  BY AppendProperties
<1>. QED BY <1>1, <1>2

LEMMA SpanSays ==
  ASSUME TypeInv, NEW r \in Requests, NEW s \in Said, NEW throws \in BOOLEAN, span(r, s, throws)
  PROVE  \E x \in Trace :
           /\ trace' = [trace EXCEPT ![r] = x] /\ tracer' = tracer
           /\ x.st = trace[r].st /\ x.attr = trace[r].attr
           /\ x.tags = IF trace[r].st = "open" /\ ~throws THEN Append(trace[r].tags, Status(s))
                       ELSE trace[r].tags
<1>1. trace[r] \in Trace /\ Status(s) \in Tag
  BY DEF TypeInv, Status, Tag
<1>2. CASE trace[r].st = "open" /\ ~throws
  <2>. DEFINE x == [trace[r] EXCEPT !.tags = Append(@, Status(s)), !.spans = Append(@, s)]
  <2>1. trace' = [trace EXCEPT ![r] = x] /\ tracer' = tracer
    BY <1>2 DEF span, Put
  <2>2. Append(trace[r].tags, Status(s)) \in Seq(Tag) /\ Append(trace[r].spans, s) \in Seq(Said)
    BY <1>1, AppendProperties DEF Trace
  <2>3. x \in Trace
    BY <1>1, <2>2 DEF Trace
  <2>4. x.st = trace[r].st /\ x.attr = trace[r].attr /\ x.tags = Append(trace[r].tags, Status(s))
    BY <1>1 DEF Trace
  <2>. QED BY <1>2, <2>1, <2>3, <2>4
<1>3. CASE ~(trace[r].st = "open" /\ ~throws)
  <2>1. trace' = [trace EXCEPT ![r] = trace[r]] /\ tracer' = tracer
    BY <1>3 DEF span, Put
  <2>. QED BY <1>1, <1>3, <2>1
<1>. QED BY <1>2, <1>3

(* Whom a failure of the SDK touches.                                       *)
LEMMA BlamesSays ==
  ASSUME NEW r \in Requests, NEW fault, Blames(r, fault)
  PROVE  /\ \A q \in Requests \ {r} : q \in faulty' <=> q \in faulty
         /\ r \notin faulty' => r \notin faulty /\ fault = "none"
BY DEF Blames

LEMMA SpansKeeps ==
  ASSUME IInv, Spans
  PROVE  IInv'
<1>1. Doing("span")
  BY DEF Spans
<1>2. PICK r \in Requests, s \in Said, l \in 1..6, n \in Nat :
         /\ Handles(r, s, l, n) /\ Kind(l - 1) = "span" /\ Len(cur') = l - 1
         /\ \A q \in Requests \ {r} : ~Current(q) /\ ~Current(q)'
         /\ cur' # <<>> => cur'[1][2] = r
         /\ l \notin {1, 4} => cur' # <<>> /\ cur'[1][3] = s
         /\ CurOK' /\ BootInv' /\ stage' = stage
  BY <1>1, HandlerSays
<1>3. l \in {2, 5} /\ Len(cur') = l - 1 /\ cur' # <<>> /\ cur'[1][2] = r /\ cur'[1][3] = s
  <2>1. l \in {2, 5}
    BY <1>2 DEF Kind
  <2>. QED BY <1>2, <2>1
<1>4. /\ told' = told /\ auditFd' = auditFd /\ held' = held /\ warned' = warned /\ log' = log
      /\ buffered' = buffered
      /\ \E fault : span(r, s, fault = "child") /\ Blames(r, fault)
  BY <1>2 DEF Spans, auditVars, Handles
<1>5. PICK fault : span(r, s, fault = "child") /\ Blames(r, fault)
  BY <1>4
<1>6. PICK x \in Trace :
        /\ trace' = [trace EXCEPT ![r] = x] /\ tracer' = tracer
        /\ x.st = trace[r].st /\ x.attr = trace[r].attr
        /\ x.tags = IF trace[r].st = "open" /\ ~(fault = "child") THEN Append(trace[r].tags, Status(s))
                    ELSE trace[r].tags
  <2>1. (fault = "child") \in BOOLEAN
    OBVIOUS
  <2>. QED BY <1>5, <2>1, AtRest, SpanSays
<1>7. /\ \A q \in Requests \ {r} : q \in faulty' <=> q \in faulty
      /\ r \notin faulty' => r \notin faulty /\ fault = "none"
  BY <1>5, BlamesSays
<1>8. FileOK' /\ LogOK'
  <2>1. FileOK'
    BY <1>4, AtRest DEF FileOK, Waits
  <2>2. LogOK'
    BY <1>4, AtRest DEF LogOK
  <2>. QED BY <2>1, <2>2
<1>9. TypeInv' /\ trace'[r] = x /\ \A q \in Requests \ {r} : trace'[q] = trace[q]
  BY <1>2, <1>4, <1>6, AtRest DEF TypeInv
<1>10. n > 0 /\ s = told[r][n] /\ Len(told[r]) = n /\ told[r] \in Seq(Said)
  BY <1>2, <1>3 DEF Handles, CurrentOK
<1>11. CurrentOK(r)'
  <2>1. /\ l = 5 => n = 1
        /\ l = 2 => n \in {1, 2}
        /\ stage[r] = "done"
    BY <1>2 DEF CurrentOK, Handles
  <2>2. trace[r].st = "open" /\ r \notin faulty => n = 1 /\ trace[r].attr = <<>> /\ trace[r].tags = <<>>
    BY <1>2, <1>3, <1>10 DEF CurrentOK, Handles
  <2>3. trace'[r].st = "open" /\ r \notin faulty' =>
          n = 1 /\ trace'[r].attr = <<>> /\ trace'[r].tags = <<Status(told[r][1])>>
    <3>1. \A y : Append(<<>>, y) = <<y>>
      OBVIOUS
    <3>. QED BY <1>6, <1>7, <1>9, <1>10, <2>2, <3>1
  <2>4. /\ Len(cur') \in {1, 4} /\ Len(cur') \notin {2, 3, 5, 6}
        /\ Len(cur') = 4 => n = 1
        /\ Len(cur') = 1 => n \in {1, 2}
    BY <1>3, <2>1
  <2>5. Len(told'[r]) = n /\ cur'[1][3] = told'[r][n] /\ stage'[r] = "done" /\ told'[r] = told[r]
    BY <1>2, <1>3, <1>4, <1>10, <2>1
  <2>6. Len(cur') \in {4, 5} => Len(told'[r]) = 1
    BY <2>4, <2>5
  <2>7. Len(cur') \in {1, 2} => Len(told'[r]) \in {1, 2}
    BY <2>4, <2>5
  <2>. QED BY <2>3, <2>4, <2>5, <2>6, <2>7 DEF CurrentOK
<1>12. \A i \in DOMAIN x.tags : x.tags[i][2] \in Range(told[r])
  <2>1. \A i \in DOMAIN trace[r].tags : trace[r].tags[i][2] \in Range(told[r])
    BY <1>2 DEF Handles, RequestOK
  <2>2. trace[r].tags \in Seq(Tag) /\ Status(s) \in Tag /\ Status(s)[2] = s
    BY <1>2 DEF Handles, Trace, Status, Tag
  <2>3. s \in Range(told[r])
    BY <1>10 DEF Range
  <2>. QED BY <1>6, <2>1, <2>2, <2>3, TagAdded
<1>13. RequestOK(r)'
  <2>1. RequestOK(r) /\ stage[r] = "done" /\ Current(r)'
    BY <1>2, <1>3 DEF Current, Handles
  <2>. QED BY <1>2, <1>4, <1>6, <1>7, <1>9, <1>11, <1>12, <2>1 DEF RequestOK, Closed
<1>14. ASSUME NEW q \in Requests \ {r} PROVE RequestOK(q)'
  BY <1>2, <1>4, <1>6, <1>7, <1>9, AtRest, OtherKeeps
<1>. QED BY <1>2, <1>8, <1>9, <1>13, <1>14 DEF IInv

(* What was done before the SDK failed stays done; a trace is ended once.   *)
LEMMA EndSays ==
  ASSUME TypeInv, NEW r \in Requests, NEW s \in Said, NEW fault, end(r, s, fault)
  PROVE  \E x \in Trace :
           /\ trace' = [trace EXCEPT ![r] = x] /\ tracer' = tracer
           /\ trace[r].st # "open" => x = trace[r]
           /\ x.tags = trace[r].tags \/ x.tags = Append(trace[r].tags, Outcome(s))
           /\ trace[r].st = "open" /\ fault # "none" => x.st = "open"
           /\ trace[r].st = "open" /\ fault = "none" =>
                /\ x.st \in {"queued", "late"}
                /\ x.attr = IF tracer = "bare" THEN trace[r].attr
                            ELSE Append(trace[r].tags, Outcome(s))
<1>1. trace[r] \in Trace /\ Outcome(s) \in Tag
  BY DEF TypeInv, Outcome, Tag
<1>2. CASE trace[r].st # "open"
  <2>1. trace' = [trace EXCEPT ![r] = trace[r]] /\ tracer' = tracer
    BY <1>2 DEF end, MayEnd, Put
  <2>. QED BY <1>1, <1>2, <2>1
<1>3. CASE trace[r].st = "open"
  <2>. DEFINE t      == trace[r]
              tagged == IF fault = "update" \/ (tracer = "bare") THEN t
                        ELSE [t EXCEPT !.tags = Append(@, Outcome(s))]
              set    == IF fault \in {"update", "setAttribute"} THEN tagged
                        ELSE [tagged EXCEPT !.attr = IF tracer = "bare" THEN @ ELSE tagged.tags]
              ended  == IF fault # "none" THEN set
                        ELSE [set EXCEPT !.st = IF phase \in {"up", "flush"} THEN "queued" ELSE "late"]
  <2>1. trace' = [trace EXCEPT ![r] = ended] /\ tracer' = tracer
    BY <1>3 DEF end, MayEnd, Put
  <2>2. Append(t.tags, Outcome(s)) \in Seq(Tag)
    BY <1>1, AppendProperties DEF Trace
  <2>3. tagged \in Trace
    BY <1>1, <2>2 DEF Trace
  <2>4. /\ tagged.st = t.st /\ tagged.attr = t.attr
        /\ tagged.tags = IF fault = "update" \/ (tracer = "bare") THEN t.tags
                         ELSE Append(t.tags, Outcome(s))
    BY <1>1 DEF Trace
  <2>. HIDE DEF tagged
  <2>5. set \in Trace
    BY <2>3 DEF Trace
  <2>6. /\ set.st = t.st /\ set.tags = tagged.tags
        /\ fault = "none" => set.attr = IF tracer = "bare" THEN t.attr ELSE tagged.tags
    BY <2>3, <2>4 DEF Trace
  <2>. HIDE DEF set
  <2>7. ended \in Trace
    BY <2>5 DEF Trace
  <2>8. /\ ended.tags = set.tags /\ ended.attr = set.attr
        /\ fault # "none" => ended.st = set.st
        /\ fault = "none" => ended.st \in {"queued", "late"}
    BY <2>5 DEF Trace
  <2>. HIDE DEF ended
  <2>. QED BY <1>3, <2>1, <2>4, <2>6, <2>7, <2>8
<1>. QED BY <1>2, <1>3

LEMMA EndsKeeps ==
  ASSUME IInv, Ends
  PROVE  IInv'
<1>1. Doing("end")
  BY DEF Ends
<1>2. PICK r \in Requests, s \in Said, l \in 1..6, n \in Nat :
         /\ Handles(r, s, l, n) /\ Kind(l - 1) = "end" /\ Len(cur') = l - 1
         /\ \A q \in Requests \ {r} : ~Current(q) /\ ~Current(q)'
         /\ cur' # <<>> => cur'[1][2] = r
         /\ l \notin {1, 4} => cur' # <<>> /\ cur'[1][3] = s
         /\ CurOK' /\ BootInv' /\ stage' = stage
  BY <1>1, HandlerSays
<1>3. l \in {1, 4} /\ Len(cur') = l - 1
  BY <1>2 DEF Kind
<1>4. /\ told' = told /\ auditFd' = auditFd /\ held' = held /\ warned' = warned /\ log' = log
      /\ buffered' = buffered
      /\ \E fault : end(r, s, fault) /\ Blames(r, fault)
  BY <1>2 DEF Ends, auditVars, Handles
<1>5. PICK fault : end(r, s, fault) /\ Blames(r, fault)
  BY <1>4
<1>6. PICK x \in Trace :
        /\ trace' = [trace EXCEPT ![r] = x] /\ tracer' = tracer
        /\ trace[r].st # "open" => x = trace[r]
        /\ x.tags = trace[r].tags \/ x.tags = Append(trace[r].tags, Outcome(s))
        /\ trace[r].st = "open" /\ fault # "none" => x.st = "open"
        /\ trace[r].st = "open" /\ fault = "none" =>
             /\ x.st \in {"queued", "late"}
             /\ x.attr = IF tracer = "bare" THEN trace[r].attr ELSE Append(trace[r].tags, Outcome(s))
  BY <1>5, AtRest, EndSays
<1>7. /\ \A q \in Requests \ {r} : q \in faulty' <=> q \in faulty
      /\ r \notin faulty' => r \notin faulty /\ fault = "none"
  BY <1>5, BlamesSays
<1>8. FileOK' /\ LogOK'
  <2>1. FileOK'
    BY <1>4, AtRest DEF FileOK, Waits
  <2>2. LogOK'
    BY <1>4, AtRest DEF LogOK
  <2>. QED BY <2>1, <2>2
<1>9. TypeInv' /\ trace'[r] = x /\ \A q \in Requests \ {r} : trace'[q] = trace[q]
  BY <1>2, <1>4, <1>6, AtRest DEF TypeInv
<1>10. /\ n > 0 /\ s = told[r][n] /\ Len(told[r]) = n /\ told[r] \in Seq(Said) /\ told[r] # <<>>
       /\ l = 4 => n = 1
       /\ stage[r] = "done"
  BY <1>2, <1>3 DEF Handles, CurrentOK
(* An open trace is left only to a request the SDK has failed in.           *)
<1>11. x.st = "open" => r \in faulty'
  BY <1>6, <1>7
<1>12. x.st \in {"noop", "open", "queued", "late"}
  <2>1. trace[r].st # "none" /\ trace[r] \in Trace
    BY <1>2, <1>10 DEF Handles, RequestOK
  <2>. QED BY <1>6, <2>1 DEF Trace
<1>13. Current(r)' => CurrentOK(r)'
  <2>. SUFFICES ASSUME Current(r)' PROVE CurrentOK(r)'
    OBVIOUS
  <2>1. Len(cur') = 3 /\ Len(cur') \notin {1, 2, 4, 5, 6}
    <3>1. Len(cur') # 0
      BY <1>2, EmptySeq DEF Current, CurOK
    <3>. QED BY <1>3, <3>1
  <2>2. Len(told'[r]) \in {0, 1} /\ stage'[r] = "done"
    <3>1. l = 4
      BY <1>3, <2>1
    <3>. QED BY <1>2, <1>4, <1>10, <3>1
  <2>3. ~(trace'[r].st = "open" /\ r \notin faulty')
    BY <1>9, <1>11
  <2>. QED BY <2>1, <2>2, <2>3 DEF CurrentOK
<1>14. \A i \in DOMAIN x.tags : x.tags[i][2] \in Range(told[r])
  <2>1. \A i \in DOMAIN trace[r].tags : trace[r].tags[i][2] \in Range(told[r])
    BY <1>2 DEF Handles, RequestOK
  <2>2. trace[r].tags \in Seq(Tag) /\ Outcome(s) \in Tag /\ Outcome(s)[2] = s
    BY <1>2 DEF Handles, Trace, Outcome, Tag
  <2>3. s \in Range(told[r])
    BY <1>10 DEF Range
  <2>. QED BY <1>6, <2>1, <2>2, <2>3, TagAdded
<1>15. x.st \in {"queued", "late"} /\ r \notin faulty' =>
         x.attr = IF tracer = "bare" THEN <<>> ELSE Outcome1(told[r][1])
  <2>1. CASE trace[r].st = "open" /\ r \notin faulty'
    <3>1. n = 1 /\ trace[r].attr = <<>> /\ trace[r].tags = <<Status(told[r][1])>> /\ fault = "none"
      BY <1>2, <1>3, <1>7, <1>10, <2>1 DEF Handles, CurrentOK
    <3>2. x.attr = IF tracer = "bare" THEN <<>> ELSE Append(<<Status(told[r][1])>>, Outcome(s))
      BY <1>6, <2>1, <3>1
    <3>3. Status(s) \in Tag /\ Outcome(s) \in Tag
      BY DEF Status, Outcome, Tag
    <3>4. Append(<<Status(s)>>, Outcome(s)) = <<Status(s), Outcome(s)>>
      BY <3>3, AppendTwo
    <3>. QED BY <1>10, <3>1, <3>2, <3>4 DEF Outcome1
  <2>2. CASE trace[r].st # "open"
    BY <1>2, <1>6, <1>7, <2>2 DEF Handles, RequestOK, Closed
  <2>. QED BY <2>1, <2>2
<1>16. RequestOK(r)'
  <2>1. /\ stage'[r] = "done" /\ told'[r] = told[r] /\ told[r] # <<>> /\ trace'[r] = x /\ tracer' = tracer
    BY <1>2, <1>4, <1>6, <1>9, <1>10
  <2>. QED BY <1>11, <1>12, <1>13, <1>14, <1>15, <2>1 DEF RequestOK, Closed
<1>17. ASSUME NEW q \in Requests \ {r} PROVE RequestOK(q)'
  BY <1>2, <1>4, <1>6, <1>7, <1>9, AtRest, OtherKeeps
<1>. QED BY <1>2, <1>8, <1>9, <1>16, <1>17 DEF IInv
-----------------------------------------------------------------------------
(* A request that starts, or is answered.                                   *)

LEMMA NoneAtHead == cur = <<>> => \A q \in Requests : ~Current(q)
BY DEF Current

LEMMA RequestKeeps ==
  ASSUME IInv, NEW r \in Requests, Request(r)
  PROVE  IInv'
<1>1. /\ proc = "serving" /\ proc' = proc /\ cur = <<>> /\ stage[r] = "new"
      /\ told' = told /\ faulty' = faulty
      /\ auditFd' = auditFd /\ held' = held /\ warned' = warned /\ log' = log
      /\ buffered' = buffered
  BY DEF Request, auditVars
<1>2. PICK throws \in BOOLEAN : startTrace(r, throws)
  <2>1. PICK fault : startTrace(r, fault = "start")
    BY DEF Request
  <2>2. (fault = "start") \in BOOLEAN
    OBVIOUS
  <2>. QED BY <2>1, <2>2
<1>3. PICK st \in {"noop", "open"} : trace' = [trace EXCEPT ![r] = [NoTrace EXCEPT !.st = st]] /\ tracer' = tracer
  BY <1>2 DEF startTrace, Put
<1>. DEFINE x == [NoTrace EXCEPT !.st = st]
<1>4. x \in Trace /\ x.st = st /\ x.tags = <<>> /\ x.attr = <<>>
  <2>1. NoTrace \in Trace /\ NoTrace.tags = <<>> /\ NoTrace.attr = <<>>
    BY DEF NoTrace, Trace
  <2>2. x \in Trace
    BY <2>1 DEF Trace
  <2>3. x.st = st /\ x.tags = NoTrace.tags /\ x.attr = NoTrace.attr
    BY <2>1 DEF Trace
  <2>. QED BY <2>1, <2>2, <2>3
<1>. HIDE DEF x
<1>5. trace' = [trace EXCEPT ![r] = x] /\ trace'[r] = x /\ \A q \in Requests \ {r} : trace'[q] = trace[q]
  BY <1>3, AtRest DEF TypeInv, x
<1>6. told[r] = <<>> /\ Len(told[r]) = 0
  BY <1>1, AtRest DEF RequestOK
<1>7. FileOK' /\ LogOK' /\ BootInv'
  <2>1. FileOK'
    BY <1>1, AtRest DEF FileOK, Waits
  <2>2. LogOK'
    BY <1>1, AtRest DEF LogOK
  <2>3. BootInv'
    BY <1>1 DEF BootInv
  <2>. QED BY <2>1, <2>2, <2>3
<1>8. \A q \in Requests : ~Current(q)
  BY <1>1, NoneAtHead
<1>9. CASE \E o \in Outcomes : Len(o) = 1 /\ Reports(r, o) /\ stage' = [stage EXCEPT ![r] = "done"]
  <2>1. CurOK' /\ cur' # <<>> /\ cur'[1][2] = r /\ Len(cur') \in {3, 6} /\ Len(cur') \notin {1, 2, 4, 5}
    BY <1>9, ReportsSays
  <2>2. /\ stage' = [stage EXCEPT ![r] = "done"] /\ stage'[r] = "done"
        /\ \A q \in Requests \ {r} : stage'[q] = stage[q]
    BY <1>9, AtRest DEF TypeInv
  <2>3. TypeInv'
    BY <1>1, <1>4, <1>5, <2>2, AtRest DEF TypeInv
  <2>4. CurrentOK(r)'
    <3>1. told'[r] = told[r] /\ Len(told'[r]) = 0
      BY <1>1, <1>6
    <3>. QED BY <1>4, <1>5, <2>1, <2>2, <3>1 DEF CurrentOK
  <2>5. RequestOK(r)'
    <3>1. Current(r)' /\ ~Closed(r)'
      BY <1>4, <1>5, <2>1 DEF Current, Closed
    <3>. QED BY <1>4, <1>5, <2>2, <2>4, <3>1 DEF RequestOK
  <2>6. ASSUME NEW q \in Requests \ {r} PROVE RequestOK(q)'
    <3>1. ~Current(q)'
      BY <2>1 DEF Current
    <3>. QED BY <1>1, <1>3, <1>5, <1>8, <2>2, <3>1, AtRest, OtherKeeps
  <2>. QED BY <1>7, <2>1, <2>3, <2>5, <2>6 DEF IInv
<1>10. CASE stage' = [stage EXCEPT ![r] = "call"] /\ UNCHANGED cur
  <2>1. CurOK' /\ \A q \in Requests : ~Current(q)'
    BY <1>1, <1>10, AtRest DEF CurOK, Current
  <2>2. stage'[r] = "call" /\ \A q \in Requests \ {r} : stage'[q] = stage[q]
    BY <1>10, AtRest DEF TypeInv
  <2>3. TypeInv'
    BY <1>1, <1>4, <1>5, <1>10, AtRest DEF TypeInv
  <2>4. RequestOK(r)'
    BY <1>1, <1>4, <1>5, <1>6, <2>1, <2>2 DEF RequestOK, Closed
  <2>5. ASSUME NEW q \in Requests \ {r} PROVE RequestOK(q)'
    BY <1>1, <1>3, <1>5, <1>8, <2>1, <2>2, AtRest, OtherKeeps
  <2>. QED BY <1>7, <2>1, <2>3, <2>4, <2>5 DEF IInv
<1>. QED BY <1>9, <1>10 DEF Request

LEMMA CallSettlesKeeps ==
  ASSUME IInv, NEW r \in Requests, CallSettles(r)
  PROVE  IInv'
<1>1. /\ proc # "boot" /\ proc' = proc /\ cur = <<>> /\ stage[r] = "call"
      /\ stage' = [stage EXCEPT ![r] = "done"] /\ \E o \in Outcomes : Reports(r, o)
      /\ told' = told /\ faulty' = faulty /\ trace' = trace /\ tracer' = tracer
      /\ auditFd' = auditFd /\ held' = held /\ warned' = warned /\ log' = log
      /\ buffered' = buffered
  BY DEF CallSettles, auditVars, tracerVars
<1>2. CurOK' /\ cur' # <<>> /\ cur'[1][2] = r /\ Len(cur') \in {3, 6} /\ Len(cur') \notin {1, 2, 4, 5}
  BY <1>1, ReportsSays
<1>3. stage'[r] = "done" /\ \A q \in Requests \ {r} : stage'[q] = stage[q]
  BY <1>1, AtRest DEF TypeInv
<1>4. FileOK' /\ LogOK' /\ BootInv' /\ TypeInv'
  <2>1. FileOK'
    BY <1>1, AtRest DEF FileOK, Waits
  <2>2. LogOK'
    BY <1>1, AtRest DEF LogOK
  <2>3. BootInv' /\ TypeInv'
    BY <1>1, AtRest DEF BootInv, TypeInv
  <2>. QED BY <2>1, <2>2, <2>3
<1>5. /\ told[r] = <<>> /\ Len(told[r]) = 0
      /\ trace[r].st \in {"noop", "open"} /\ trace[r].tags = <<>> /\ trace[r].attr = <<>>
  BY <1>1, AtRest DEF RequestOK
<1>6. CurrentOK(r)'
  <2>1. told'[r] = told[r] /\ Len(told'[r]) = 0
    BY <1>1, <1>5
  <2>. QED BY <1>1, <1>2, <1>3, <1>5, <2>1 DEF CurrentOK
<1>7. RequestOK(r)'
  <2>1. Current(r)' /\ ~Closed(r)'
    BY <1>1, <1>2, <1>5 DEF Current, Closed
  <2>. QED BY <1>1, <1>3, <1>5, <1>6, <2>1 DEF RequestOK
<1>8. ASSUME NEW q \in Requests \ {r} PROVE RequestOK(q)'
  <2>1. ~Current(q) /\ ~Current(q)'
    BY <1>1, <1>2 DEF Current
  <2>. QED BY <1>1, <1>3, <2>1, AtRest, OtherKeeps
<1>. QED BY <1>2, <1>4, <1>7, <1>8 DEF IInv
-----------------------------------------------------------------------------
(* The process.                                                             *)

LEMMA BootKeeps ==
  ASSUME IInv, Boot
  PROVE  IInv'
<1>1. /\ proc' # "boot" /\ log = <<>> /\ cur = <<>> /\ \A r \in Requests : stage[r] = "new"
      /\ stage' = stage /\ told' = told /\ cur' = cur /\ faulty' = faulty /\ trace' = trace /\ log' = log
      /\ buffered' = buffered
  BY AtRest DEF Boot, BootInv, configureAuditLog, createTracer
<1>2. FileOK'
  <2>1. DOMAIN log' = {} /\ log' \in Seq(Logged) /\ buffered' = 0
    BY <1>1, AtRest DEF FileOK, BootInv, Boot
  <2>2. ~warned' /\ (auditFd' => held')
    BY DEF Boot, configureAuditLog
  <2>. QED BY <2>1, <2>2 DEF FileOK
<1>3. LogOK' /\ BootInv' /\ TypeInv' /\ CurOK'
  BY <1>1, AtRest DEF LogOK, BootInv, TypeInv, CurOK
<1>4. ASSUME NEW r \in Requests PROVE RequestOK(r)'
  <2>1. told[r] = <<>> /\ trace[r] = NoTrace /\ ~Current(r)'
    BY <1>1, AtRest DEF RequestOK, Current
  <2>. QED BY <1>1, <2>1 DEF RequestOK, Closed, NoTrace
<1>. QED BY <1>2, <1>3, <1>4 DEF IInv

(* Nothing is logged, spanned or ended; the file is let go of at most, and  *)
(* stdout takes what waits.                                                 *)
Quiet ==
  /\ UNCHANGED <<stage, told, cur, faulty, trace, tracer, warned, log>>
  /\ (auditFd' = FALSE \/ UNCHANGED <<auditFd, held>>)
  /\ buffered' = buffered \/ (proc # "boot" /\ buffered' \in 0..buffered)
  /\ proc' = "boot" => proc = "boot"

LEMMA QuietKeeps ==
  ASSUME IInv, Quiet
  PROVE  IInv'
<1>1. FileOK' /\ LogOK' /\ BootInv' /\ TypeInv' /\ CurOK'
  <2>1. FileOK'
    <3>1. buffered \in Nat /\ Len(log) \in Nat
      BY AtRest DEF FileOK
    <3>2. buffered' \in Nat /\ buffered' <= buffered
      BY <3>1 DEF Quiet
    <3>3. \A i \in DOMAIN log : Waits(i)' => Waits(i)
      BY <3>1, <3>2 DEF Quiet, Waits
    <3>4. auditFd' => auditFd
      BY DEF Quiet
    <3>. QED BY <3>1, <3>2, <3>3, <3>4, AtRest DEF Quiet, FileOK
  <2>2. LogOK'
    BY AtRest DEF Quiet, LogOK
  <2>3. BootInv'
    BY AtRest DEF Quiet, BootInv
  <2>4. TypeInv' /\ CurOK'
    BY AtRest DEF Quiet, TypeInv, CurOK
  <2>. QED BY <2>1, <2>2, <2>3, <2>4
<1>2. ASSUME NEW r \in Requests PROVE RequestOK(r)'
  BY AtRest DEF Quiet, RequestOK, Closed, Current, CurrentOK
<1>. QED BY <1>1, <1>2 DEF IInv

LEMMA BetweenIsQuiet ==
  IInv => ((Stop \/ ExitClean \/ ForceExit \/ StdoutDrains \/ Upload \/ FlushEnds \/ FlushGivesUp
    \/ SdkEnds \/ ClientShutdown \/ UNCHANGED vars) => Quiet)
<1>. SUFFICES ASSUME IInv
              PROVE  (Stop \/ ExitClean \/ ForceExit \/ StdoutDrains \/ Upload \/ FlushEnds \/ FlushGivesUp
                       \/ SdkEnds \/ ClientShutdown \/ UNCHANGED vars) => Quiet
  OBVIOUS
<1>1. Stop => Quiet
  BY DEF Stop, StopTracer, Moves, Quiet, auditVars
<1>2. ExitClean => Quiet
  BY DEF ExitClean, closeAuditLog, Quiet, tracerVars
<1>3. ForceExit => Quiet
  BY DEF ForceExit, Quiet, tracerVars, auditVars
<1>4. Upload => Quiet
  BY DEF Upload, Aside, Uploads, Quiet, auditVars, procVars
<1>5. FlushEnds \/ FlushGivesUp \/ ClientShutdown => Quiet
  BY DEF FlushEnds, FlushGivesUp, ClientShutdown, Flushed, FlushTimesOut, ClientEnds, Moves,
         Aside, Quiet, auditVars, procVars
<1>6. SdkEnds => Quiet
  BY DEF SdkEnds, SdkStops, SdkFails, Moves, Aside, Quiet, auditVars, procVars
<1>7. UNCHANGED vars => Quiet
  BY DEF vars, auditVars, tracerVars, procVars, Quiet
<1>8. StdoutDrains => Quiet
  <2>1. buffered \in Nat
    BY AtRest DEF FileOK
  <2>. QED BY <2>1 DEF StdoutDrains, StdoutTakes, Between, Quiet, tracerVars, procVars
<1>. QED BY <1>1, <1>2, <1>3, <1>4, <1>5, <1>6, <1>7, <1>8

LEMMA ObserversStart == Init => IInv
<1>. SUFFICES ASSUME Init PROVE IInv
  OBVIOUS
<1>1. /\ log = <<>> /\ buffered = 0 /\ cur = <<>> /\ auditFd = FALSE /\ warned = FALSE /\ faulty = {}
      /\ stage = [r \in Requests |-> "new"] /\ told = [r \in Requests |-> <<>>]
      /\ trace = [r \in Requests |-> NoTrace]
  BY DEF Init, AuditInit, TracerInit
<1>2. FileOK /\ LogOK /\ BootInv /\ CurOK
  <2>1. <<>> \in Seq(Logged) /\ <<>> \in Seq(Step) /\ Len(<<>>) = 0 /\ DOMAIN <<>> = {}
    BY EmptySeq
  <2>. QED BY <1>1, <2>1 DEF FileOK, LogOK, BootInv, CurOK
<1>3. TypeInv
  <2>1. NoTrace \in Trace
    BY DEF NoTrace, Trace
  <2>. QED BY <1>1, <2>1 DEF TypeInv
<1>4. ASSUME NEW r \in Requests PROVE RequestOK(r)
  BY <1>1 DEF RequestOK, Closed, Current, NoTrace
<1>. QED BY <1>2, <1>3, <1>4 DEF IInv

LEMMA ObserversKeep == IInv /\ [Next]_vars => IInv'
<1>. SUFFICES ASSUME IInv, [Next]_vars PROVE IInv'
  OBVIOUS
<1>1. CASE Boot
  BY <1>1, BootKeeps
<1>2. ASSUME NEW r \in Requests, Request(r) PROVE IInv'
  BY <1>2, RequestKeeps
<1>3. ASSUME NEW r \in Requests, CallSettles(r) PROVE IInv'
  BY <1>3, CallSettlesKeeps
<1>4. CASE Audits
  BY <1>4, AuditsKeeps
<1>5. CASE Spans
  BY <1>5, SpansKeeps
<1>6. CASE Ends
  BY <1>6, EndsKeeps
<1>7. CASE Stop \/ ExitClean \/ ForceExit \/ StdoutDrains \/ Upload \/ FlushEnds \/ FlushGivesUp
             \/ SdkEnds \/ ClientShutdown \/ UNCHANGED vars
  BY <1>7, BetweenIsQuiet, QuietKeeps
<1>. QED BY <1>1, <1>2, <1>3, <1>4, <1>5, <1>6, <1>7 DEF Next

(* Whatever the disk and the SDK do: the log has every audited entry once,  *)
(* in a file used until it fails; each request's handler is where its trace *)
(* and its entries say.                                                     *)
THEOREM ObserversInvariant == Spec => []IInv
BY ObserversStart, ObserversKeep, PTL DEF Spec

(* The trace of a request tells what the audit log tells (safeSpan and      *)
(* safeEnd of server.ts, against audit()): whatever is thrown in between.   *)
THEOREM TraceAgreesWithAudit == Spec => []TraceTellsAudit
<1>1. IInv => TraceTellsAudit
  <2>. SUFFICES ASSUME IInv, NEW r \in Requests
       PROVE  LET t == trace[r] IN
         /\ t.st \in {"queued", "late"} /\ r \notin faulty =>
              t.attr = IF tracer = "bare" THEN <<>> ELSE Outcome1(told[r][1])
         /\ stage[r] = "done" /\ cur = <<>> /\ r \notin faulty => t.st \in {"noop", "queued", "late"}
         /\ \A i \in DOMAIN t.tags : t.tags[i][2] \in Range(told[r])
    BY DEF TraceTellsAudit
  <2>1. RequestOK(r)
    BY AtRest
  <2>. QED BY <2>1 DEF RequestOK, Closed, Current
<1>. QED BY <1>1, ObserversInvariant, PTL
-----------------------------------------------------------------------------
(* Where the entries are.                                                   *)

LEMMA OnePlace ==
  ASSUME IInv, NEW r \in Requests, NEW k \in 1..2
  PROVE  Cardinality(Places(<<r, k>>)) = IF k <= Len(told[r]) THEN 1 ELSE 0
<1>1. LogOK /\ Len(told[r]) \in Nat
  BY AtRest
<1>2. CASE k <= Len(told[r])
  <2>1. k \in 1..Len(told[r])
    BY <1>1, <1>2
  <2>2. PICK i \in DOMAIN log : log[i].entry = <<r, k>>
    BY <1>1, <2>1 DEF LogOK
  <2>3. Places(<<r, k>>) = {i}
    BY <1>1, <2>2 DEF Places, LogOK
  <2>. QED BY <1>2, <2>3, FS_Singleton
<1>3. CASE ~(k <= Len(told[r]))
  <2>1. \A i \in DOMAIN log : log[i].entry # <<r, k>>
    <3>1. \A i \in DOMAIN log : log[i].entry[2] \in 1..Len(told[log[i].entry[1]])
      BY <1>1 DEF LogOK
    <3>2. k \notin 1..Len(told[r])
      BY <1>1, <1>3
    <3>. QED BY <3>1, <3>2
  <2>2. Places(<<r, k>>) = {}
    BY <2>1 DEF Places
  <2>. QED BY <1>3, <2>2, FS_EmptySet
<1>. QED BY <1>2, <1>3

(* An entry that cannot be read back was cut, or follows one that was: at   *)
(* most two for each cut.                                                   *)
LEMMA TwoForACut ==
  ASSUME log \in Seq(Logged)
  PROVE  Cardinality({i \in DOMAIN log : ~Legible(i)}) <= 2 * Cardinality({i \in DOMAIN log : log[i].cut})
<1>. DEFINE l   == Len(log)
            D   == {i \in 1..l : ~Legible(i)}
            Cut == {i \in 1..l : log[i].cut}
            Nxt == {i \in 1..l : i # 1 /\ log[i - 1].cut}
            f   == [i \in Nxt |-> i - 1]
<1>1. l \in Nat /\ DOMAIN log = 1..l
  BY LenProperties
<1>2. IsFiniteSet(1..l)
  BY <1>1, FS_Interval
<1>3. IsFiniteSet(Cut) /\ IsFiniteSet(Nxt) /\ IsFiniteSet(D)
  <2>1. Cut \in SUBSET (1..l) /\ Nxt \in SUBSET (1..l) /\ D \in SUBSET (1..l)
    OBVIOUS
  <2>. HIDE DEF l, Cut, Nxt, D
  <2>. QED BY <1>2, <2>1, FS_Subset
<1>4. Cardinality(Nxt) <= Cardinality(Cut)
  <2>1. f \in [Nxt -> Cut]
    BY <1>1
  <2>2. \A i, j \in Nxt : f[i] = f[j] => i = j
    BY <1>1
  <2>3. DOMAIN f = Nxt
    OBVIOUS
  <2>. HIDE DEF f, Nxt, Cut
  <2>4. f \in Injection(Nxt, Cut)
    BY <2>1, <2>2, <2>3 DEF Injection, IsInjective
  <2>. QED BY <1>3, <2>4, FS_Injection
<1>5. D \subseteq Cut \cup Nxt
  BY <1>1 DEF Legible
<1>. HIDE DEF D, Cut, Nxt, f, l
<1>6. /\ IsFiniteSet(Cut \cup Nxt) /\ Cardinality(Cut \cap Nxt) \in Nat
      /\ Cardinality(Cut \cup Nxt) = Cardinality(Cut) + Cardinality(Nxt) - Cardinality(Cut \cap Nxt)
  <2>1. IsFiniteSet(Cut \cap Nxt)
    BY <1>3, FS_Intersection
  <2>. QED BY <1>3, <2>1, FS_Union, FS_CardinalityType
<1>7. Cardinality(D) <= Cardinality(Cut \cup Nxt)
  BY <1>5, <1>6, FS_Subset
<1>8. Cardinality(D) \in Nat /\ Cardinality(Cut) \in Nat /\ Cardinality(Nxt) \in Nat
  BY <1>3, FS_CardinalityType
<1>9. Cardinality(D) <= 2 * Cardinality(Cut)
  BY <1>4, <1>6, <1>7, <1>8
<1>. QED BY <1>1, <1>9 DEF D, Cut

(* Whatever the disk does, each entry audited is written to one place, to   *)
(* the file or to stdout with all that follow (logAuditEntry of logger.ts,  *)
(* with the fallback of its catch); an exit can lose only what stdout had   *)
(* not taken, and nothing while the file is in use; and a short write       *)
(* spoils two lines at most.                                                *)
THEOREM EntriesAreKept == Spec => []EntryKept
<1>1. IInv => EntryKept
  <2>. SUFFICES ASSUME IInv PROVE EntryKept
    OBVIOUS
  <2>1. \A e \in Entries : Cardinality(Places(e)) = IF e[2] <= Len(told[e[1]]) THEN 1 ELSE 0
    <3>1. ASSUME NEW e \in Entries
          PROVE  Cardinality(Places(e)) = IF e[2] <= Len(told[e[1]]) THEN 1 ELSE 0
      <4>1. PICK r \in Requests, k \in 1..2 : e = <<r, k>>
        BY DEF Entries
      <4>2. e[1] = r /\ e[2] = k
        BY <4>1
      <4>. QED BY <4>1, <4>2, OnePlace
    <3>. QED BY <3>1
  <2>2. FileOK
    BY AtRest
  <2>3. Cardinality({i \in DOMAIN log : ~Legible(i)}) <= 2 * Cardinality({i \in DOMAIN log : log[i].cut})
    BY <2>2, TwoForACut DEF FileOK
  <2>. QED BY <2>1, <2>2, <2>3 DEF EntryKept, FileOK
<1>. QED BY <1>1, ObserversInvariant, PTL
=============================================================================
