SPECIFICATION FairSpec
CONSTANTS
  Faults = {}
  MaxQueue = 6
  MAX_RETRY = 3
  MAX_HELLO = 2
  MAX_STOP = 10
  ConsoleRetries = 3
  Cycles = 3
  Prompt = TRUE
  Played <- Tests
INVARIANTS
  NoReset
PROPERTIES
  TestCompletes
CHECK_DEADLOCK FALSE
