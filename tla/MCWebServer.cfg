SPECIFICATION Spec
CHECK_DEADLOCK FALSE
CONSTANTS
  c1 = c1
  c2 = c2
  c3 = c3
  c4 = c4
  NoConn = NoConn
  Main = Main
  Workers = {w1, w2}
  Conns = {c1, c2, c3, c4}
  Clients <- ManyClients
  FirstFd = 1
  FdLimit = 5
  MaxFd = 3
  MaxRequests = 1
  BufferPieces = 3
  Outcomes = {"reply"}
  MaxStalls = 1
INVARIANTS TypeOK UserCountExact OneClaim RepliesFollowRequests
PROPERTIES ImplementsCustody RequestsAnswered HangupReleases
