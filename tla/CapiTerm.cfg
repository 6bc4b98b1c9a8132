SPECIFICATION FairSpec
CONSTANTS
  MaxConnections = 1
  Clients = {c1}
  NoClient = NoClient
  Reports = {r1}
  MaxCmds = 1
  MaxDeferred = 0
  Orderly = TRUE
  CanFail = FALSE
  CanTerm = TRUE
PROPERTY TermEnds
CHECK_DEADLOCK FALSE
