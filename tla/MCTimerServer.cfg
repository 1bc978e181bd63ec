SPECIFICATION Spec
CHECK_DEADLOCK FALSE
CONSTANTS
  t1 = t1
  t2 = t2
  t3 = t3
  NULL = NULL
  Timers = {t1, t2, t3}
  Fds = {4, 5}
  Slot = 1
  MaxTime = 4
  MaxSends = 2
  Talkers = {t1}
  Leavers = {t1}
INVARIANTS TimerOwnership TickNeverStops ListSound
PROPERTY NoEarlyClose
SYMMETRY Alike
