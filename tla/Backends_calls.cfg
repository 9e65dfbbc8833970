SPECIFICATION FairBackends
CONSTANTS
  c1 = c1
  c2 = c2
  NoCall = NoCall
  Calls = {c1, c2}
  Cap = 1
  MaxBody = 2
  Tools <- MCTools
  Configs <- MCConfigs
CHECK_DEADLOCK FALSE
INVARIANTS
  ExchangeEnds
  OwnServer
PROPERTIES
  CompositeIsTransport
  EveryForwardSettles
