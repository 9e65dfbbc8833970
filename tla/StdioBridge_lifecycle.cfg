SPECIFICATION Spec
CONSTANTS
  c1 = c1  c2 = c2  s1 = s1
  NoCall = NoCall
  Servers = {s1}
  Calls = {c1, c2}
  FailFast = 1
  Cap = 0
  Sizes = {1}
  ChatterKinds = {"text"}
  ChatterSizes = {1}
  Faults = {"exit", "signal", "stdin", "timeout"}
  InOrder = FALSE
  LateCalls = FALSE
  MaxProcs = 2
  MaxChatter = 1
CHECK_DEADLOCK FALSE
SYMMETRY Symmetry
INVARIANTS
  TypeOK
  ExactlyOnce
  BrokenServedNobody
  OneLiveChild
PROPERTIES
  BrokenIsFinal
  TransportSpec
