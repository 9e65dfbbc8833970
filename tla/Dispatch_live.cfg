SPECIFICATION FairSpec
CONSTANTS
  c1 = c1  c2 = c2
  NoSession = NoSession
  Sessions = {c1, c2}
  SandboxOf <- OwnSandbox
  WorkspaceOf <- SameWorkspace
  Forced = {}
  AgentCodes = {0}
  MaxSessions = 1
  MaxRestarts = 1
  Attempts = 3
  Mishaps = {"network", "signal"}
CHECK_DEADLOCK FALSE
INVARIANTS
  AuditTellsRegistry
PROPERTIES
  ClientEnds
  SignalEnds
