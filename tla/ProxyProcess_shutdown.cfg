SPECIFICATION FairSpec
CONSTANTS
  r1 = r1  r2 = r2
  Requests = {r1, r2}
  TraceFaults = TRUE
  MaxSignals = 2
CHECK_DEADLOCK FALSE
INVARIANTS
  OneStory
  EntriesNotLost
  EventsFlushed
PROPERTIES
  NoLateCalls
  SignalEnds
