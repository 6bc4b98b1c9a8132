SPECIFICATION PartsSpec
CONSTANTS
  Ids = {1, 2}
  Kinds <- MCKinds
  Streams <- MCStreams
  Mons = {m1, m2}
  NoMon = NoMon
  StatusListSize = 2
  MaxItems = 3
  MaxRequests = 2
  MaxQueue = 1
  MaxServer = 1
  RulesCanFail = TRUE
  Letters = {1, 2}
  Eol = 0
  Room = 3
  MaxBytes = 6
  MaxClients = 2
  Callers = {s1, s2}
  MaxOpens = 3
  LeftFiles = {2}
  Timeouts = {0, 1, 2}
  MaxClock = 9
  MaxEvents = 3
  MaxForks = 3
SYMMETRY Symmetry
VIEW ButForTheForgotten
INVARIANTS
  DscpTypeOK RulesFollowTable AnswersTruthful IdsUnique LookupFindsBest
  CommandsAreLines RoomToReceive RepliesAreOwn NoEventLost GivesUpInTime OnlyCaptureStays
CHECK_DEADLOCK FALSE
