SPECIFICATION Spec
CHECK_DEADLOCK FALSE
CONSTANTS
  c1 = c1
  c2 = c2
  c3 = c3
  c4 = c4
  NoConn = NoConn
  Main = Main
  Workers = {w1, w2}
  Conns = {c1, c2}
  Clients <- OneEach
  FirstFd = 1
  FdLimit = 2
  MaxFd = 2
  MaxRequests = 1
  BufferPieces = 3
  Outcomes = {"reply", "empty"}
  MaxStalls = 0
INVARIANT ExclusiveHandling
