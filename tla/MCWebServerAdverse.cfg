SPECIFICATION Spec
CHECK_DEADLOCK FALSE
CONSTANTS
  c1 = c1
  c2 = c2
  c3 = c3
  c4 = c4
  NoConn = NoConn
  Main = Main
  Workers = {w1}
  Conns = {c1, c2, c3, c4}
  Clients <- OneEach
  FirstFd = 1
  FdLimit = 4
  MaxFd = 4
  MaxRequests = 1
  BufferPieces = 3
  Outcomes = {"reply", "empty"}
  MaxStalls = 0
SYMMETRY Alike
INVARIANT NothingCarriedOver
