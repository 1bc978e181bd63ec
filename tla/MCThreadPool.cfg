SPECIFICATION Spec
CONSTANTS
  Callers = {c1, c2}
  Workers = {w1, w2, w3}
  Requests = {r1}
  Null = Null
  Nobody = Nobody
  MaxRequests = 1
CHECK_DEADLOCK FALSE
INVARIANTS MutualExclusion WakeupBalance
PROPERTIES ImplementsWorkQueue
