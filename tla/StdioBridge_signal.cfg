SPECIFICATION Spec
CONSTANTS
  c1 = c1  c2 = c2  s1 = s1
  NoCall = NoCall
  Servers = {s1}
  Calls = {c1, c2}
  FailFast = 0
  Cap = 0
  Sizes = {1}
  ChatterKinds = {}
  ChatterSizes = {1}
  Faults = {"signal"}
  InOrder = FALSE
  LateCalls = FALSE
  MaxProcs = 2
  MaxChatter = 0
CHECK_DEADLOCK FALSE
PROPERTIES
  DeadIsReplaced
