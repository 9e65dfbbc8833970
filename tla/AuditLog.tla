------------------------------ MODULE AuditLog ------------------------------
(***************************************************************************)
(* Where an audit entry goes (src/mcp-proxy/logger.ts): to a file of its   *)
(* own by a synchronous write, or to stdout.  The file system is external: *)
(* a write may throw (a full disk, a stale handle), or write part of the   *)
(* line and say so by a return value nobody looks at.  Stdout is external  *)
(* too: a pipe or a file behind it is fed from a buffer of the stream,     *)
(* which goes with the process.                                            *)
(***************************************************************************)
EXTENDS Naturals, Sequences

VARIABLES
  auditFd, \* auditFd !== null
  held,    \* the process has the file open
  warned,  \* writeFailureWarned
  log,     \* the entries in the order they were written: [entry, to, cut]
  buffered \* how many of the last ones are still in the buffer of stdout

auditVars == <<auditFd, held, warned, log, buffered>>

AuditInit ==
  auditFd = FALSE /\ held = FALSE /\ warned = FALSE /\ log = <<>> /\ buffered = 0

Goes(entry, to, cut) ==
  /\ log' = Append(log, [entry |-> entry, to |-> to, cut |-> cut])
  /\ buffered' = IF to = "stdout" THEN buffered + 1 ELSE buffered

(* configureAuditLog, as the composition root calls it: once. *)
configureAuditLog(path, opens) ==
  /\ auditFd' = (path /\ opens) /\ held' = (path /\ opens)
  /\ warned' = FALSE
  /\ UNCHANGED <<log, buffered>>

(* Mutant: the fd stays after a failure, for the disk may recover. *)
RevertsNever(closes) == warned' = TRUE /\ held' = ~closes /\ UNCHANGED auditFd
Reverts(closes)      == warned' = TRUE /\ held' = ~closes /\ auditFd' = FALSE

(* Mutant: the entry that fails is not written again. *)
WriteThrowsAway(entry, closes) == auditFd /\ Reverts(closes) /\ UNCHANGED <<log, buffered>>

(* writeSync throws: warn, close (which may fail too), go to stdout. *)
WriteThrows(entry, closes) == auditFd /\ Reverts(closes) /\ Goes(entry, "stdout", FALSE)

(* The file is written behind the back of the stream, at once.             *)
(* A descriptor that is closed can be written to no more. *)
Written(entry, cut) ==
  auditFd /\ held /\ Goes(entry, "file", cut) /\ UNCHANGED <<auditFd, held, warned>>

ToStdout(entry) ==
  ~auditFd /\ Goes(entry, "stdout", FALSE) /\ UNCHANGED <<auditFd, held, warned>>

(* What happens to the file while an entry is logged. *)
DiskFaults == {"none", "short", "throws", "stuck"}

logAuditEntry(entry, fault) ==
  \/ fault = "none" /\ (Written(entry, FALSE) \/ ToStdout(entry))
  \/ fault = "short" /\ Written(entry, TRUE)
  \/ fault = "throws" /\ WriteThrows(entry, TRUE)
  \/ fault = "stuck" /\ WriteThrows(entry, FALSE)

closeAuditLog ==
  auditFd' = FALSE /\ held' = (held /\ ~auditFd) /\ UNCHANGED <<warned, log, buffered>>

(* Stdout takes some of what waits; a terminal takes it at once. *)
StdoutTakes ==
  /\ buffered > 0 /\ buffered' \in 0..(buffered - 1)
  /\ UNCHANGED <<auditFd, held, warned, log>>
-----------------------------------------------------------------------------
Places(entry) == {i \in DOMAIN log : log[i].entry = entry}
Waits(i)      == i > Len(log) - buffered

(* Can be read back: entries follow each other without a newline where one  *)
(* was cut short, and the line of both is no JSON.                          *)
Legible(i) ==
  \/ log[i].to = "stdout"
  \/ ~log[i].cut /\ (i = 1 \/ ~log[i - 1].cut)
=============================================================================
