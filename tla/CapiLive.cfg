SPECIFICATION FairSpec
CONSTANTS
  MaxConnections = 1
  Clients = {c1, c2}
  NoClient = NoClient
  Reports = {r1}
  MaxCmds = 2
  MaxDeferred = 1
  Orderly = TRUE
  CanFail = FALSE
  CanTerm = TRUE
PROPERTY EveryCommandAnswered
CHECK_DEADLOCK FALSE
