SPECIFICATION FairSpec
CONSTANTS
  r1 = r1
  r2 = r2
  Requests = {r1, r2}
  Statuses = {"allowed", "blocked"}
  MaxMishaps = 2
CHECK_DEADLOCK FALSE
INVARIANTS
  EntryKept
  TraceTellsAudit
PROPERTIES
  QueuedIsExported
