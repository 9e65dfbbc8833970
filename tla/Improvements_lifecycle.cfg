SPECIFICATION Spec
CONSTANTS
  t1 = t1  k1 = k1
  Tools = {t1}
  Skills = {k1}
  Slug <- Spelling
  Ids <- AllIds
  Exempt = {}
  Threshold = 3
  MinInvocations = 3
  Max = 2
  Published <- OnMain
  Faults = {"audit", "skill", "branch", "commit", "body", "push", "pr"}
  MaxRuns = 3
  MaxEdits = 1
CHECK_DEADLOCK FALSE
INVARIANTS
  RunCap
  QuietMeansDone
  PrIsSeeded
  PrCarriesOwn
PROPERTIES
  NoClobber
