SPECIFICATION Spec
CONSTANTS
  MaxStreams = 1
  MaxStreamId = 2
  Conns = {c1}
  Threads = {t1, t2, t3}
  NoConn = NoConn
  NoThread = NoThread
  Reports = {r1, r2}
  CanFail = TRUE
  Orderly = FALSE
  WithTcp = FALSE
  t1 = t1
  t2 = t2
  t3 = t3
  r1 = r1
  r2 = r2
  c1 = c1
SYMMETRY Symmetry
INVARIANTS
  TypeOK
  ReportNamesSenders
  WaitingHasReport
