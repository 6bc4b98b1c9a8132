SPECIFICATION Spec
CONSTANTS
  MaxConnections = 1
  Clients = {c1, c2}
  NoClient = NoClient
  Reports = {r1, r2}
  MaxCmds = 2
  MaxDeferred = 2
  Orderly = FALSE
  CanFail = TRUE
  CanTerm = FALSE
SYMMETRY Symmetry
VIEW ButForTheCount
INVARIANTS TypeOK RoomForNewConnection SlotHeld
PROPERTY KeepsPromise
CHECK_DEADLOCK FALSE
