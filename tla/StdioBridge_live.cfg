SPECIFICATION FairSpec
CONSTANTS
  c1 = c1  c2 = c2  s1 = s1
  NoCall = NoCall
  Servers = {s1}
  Calls = {c1, c2}
  FailFast = 1
  Cap = 1
  Sizes = {1, 4}
  ChatterKinds = {"note", "blank"}
  ChatterSizes = {4}
  Faults = {"signal", "exit", "timeout"}
  InOrder = TRUE
  LateCalls = FALSE
  MaxProcs = 1
  MaxChatter = 1
CHECK_DEADLOCK FALSE
INVARIANTS
  OneCallPerOversizedLine
  OffenderPays
  BufferIsPart
PROPERTIES
  EveryCallSettles
  ShutdownEnds
