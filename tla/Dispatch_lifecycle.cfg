SPECIFICATION Spec
CONSTANTS
  c1 = c1  c2 = c2
  NoSession = NoSession
  Sessions = {c1, c2}
  SandboxOf <- SameSandbox
  WorkspaceOf <- SameWorkspace
  Forced = {c2}
  AgentCodes = {0}
  MaxSessions = 1
  MaxRestarts = 1
  Attempts = 1
  Mishaps = {"network", "sbx", "noIds", "signal"}
CHECK_DEADLOCK FALSE
INVARIANTS
  LeaksAreLoud
  RunsRegistered
PROPERTIES
  NobodyElsesSandbox
