SPECIFICATION Spec
CONSTANTS
  Lines <- MCLines
  Pasts <- MCPasts
  Skill = "A"
  Rules <- MCRules
  Ages = {13, 14}
  PivotWindow = 1
  StopWindow = 2
  Horizon = 3
  MinInvocations = 3
  MaxLines = 5
  MaxLater = 2
CHECK_DEADLOCK FALSE
INVARIANTS
  OutcomeAsDefined
  OneContradiction
PROPERTIES
  OutcomeOnlyWorsens
