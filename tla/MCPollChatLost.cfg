SPECIFICATION Spec
CHECK_DEADLOCK FALSE
CONSTANTS
  a = a
  b = b
  d = d
  None = None
  Conns = {a, b, d}
  UserLimit = 3
  Leavers = {}
  Resetters = {}
  Slow = {}
  MaxSaid <- MCMaxSaid
INVARIANTS NothingSkipped
