SPECIFICATION FairSpec
CONSTANTS
  Faults = {"loss", "overtake", "wakeup", "send", "stop"}
  MaxQueue = 2
  MAX_RETRY = 1
  MAX_HELLO = 0
  MAX_STOP = 1
  ConsoleRetries = 1
  Cycles = 2
  Prompt = FALSE
  Played <- FewTests
INVARIANTS
  TypeOK
  ConsoleFollows
  MissesLastSignalOnly
PROPERTY TalkersEnd
CHECK_DEADLOCK FALSE
