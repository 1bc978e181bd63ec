SPECIFICATION Spec
CHECK_DEADLOCK FALSE
CONSTANTS
  a = a
  b = b
  t1 = t1
  t2 = t2
  None = None
  Servers = {"lt", "et", "echo", "oneshot", "signal"}
  Conns = {a, b}
  Leavers = {b}
  Resetters = {b}
  MaxSent <- MCMaxSent
  Threads = {t1, t2}
  MaxDatagrams = 2
  Signals = {"HUP", "TERM"}
  MaxSignals = 4
  PipeRoom = 3
  SignalBuffer = 2
INVARIANTS OneHandler NothingLost
PROPERTIES AllServed SignalsHeeded
