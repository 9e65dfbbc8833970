SPECIFICATION Spec
CONSTANTS
  c1 = c1  c2 = c2  s1 = s1  s2 = s2
  NoCall = NoCall
  Servers = {s1, s2}
  Calls = {c1, c2}
  FailFast = 1
  Cap = 0
  Sizes = {1}
  ChatterKinds = {"blank"}
  ChatterSizes = {1}
  Faults = {"exit"}
  InOrder = FALSE
  LateCalls = FALSE
  MaxProcs = 2
  MaxChatter = 1
CHECK_DEADLOCK FALSE
SYMMETRY Symmetry
INVARIANTS
  OwnResponse
  ShutdownLeavesNothing
