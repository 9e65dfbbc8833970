SPECIFICATION Spec
CONSTANTS
  t1 = t1  k1 = k1
  Tools = {t1}
  Skills = {k1}
  Slug <- Spelling
  Ids <- AllIds
  Exempt = {}
  Threshold = 3
  MinInvocations = 3
  Max = 2
  Published = {}
  Faults = {"push"}
  MaxRuns = 2
  MaxEdits = 0
CHECK_DEADLOCK FALSE
INVARIANT RollbackRestores
