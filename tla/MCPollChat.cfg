SPECIFICATION Spec
CHECK_DEADLOCK FALSE
CONSTANTS
  a = a
  b = b
  d = d
  None = None
  Conns = {a, b, d}
  UserLimit = 2
  Leavers = {a, b}
  Resetters = {b}
  Slow = {d}
  MaxSaid <- MCMaxSaid
INVARIANTS TableRight ScanComplete HeardRight
PROPERTIES KilledOnlyBetween LeaverRemoved LastHeard
