SPECIFICATION Spec
CONSTANTS
  MaxStreams = 1
  MaxStreamId = 1
  Conns = {c1}
  Threads = {t1}
  NoConn = NoConn
  NoThread = NoThread
  Reports = {r1}
  CanFail = FALSE
  Orderly = TRUE
  WithTcp = FALSE
  t1 = t1
  r1 = r1
  c1 = c1
SYMMETRY Symmetry
INVARIANTS
  RefusedOnlyWhileSending
