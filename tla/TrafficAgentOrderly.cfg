SPECIFICATION Spec
CONSTANTS
  MaxStreams = 2
  MaxStreamId = 2
  Conns = {c1, c2}
  Threads = {t1, t2}
  NoConn = NoConn
  NoThread = NoThread
  Reports = {r1, r2}
  CanFail = FALSE
  Orderly = TRUE
  WithTcp = TRUE
  t1 = t1
  t2 = t2
  r1 = r1
  r2 = r2
  c1 = c1
  c2 = c2
SYMMETRY Symmetry
VIEW ButForTheAnswers
INVARIANTS
  StreamIdsUnique
  StopStreamFresh
  NoDoubleJoin
  ThreadsKnown
  CompleteAfterSend
  SocketHeld
PROPERTY SocketTaken
