SPECIFICATION Spec
CHECK_DEADLOCK FALSE
CONSTANTS
  a = a
  b = b
  None = None
  ProcessNumber = 2
  Conns <- MCConns
  Requests <- MCRequests
  BufferSize = 2
  Leavers = {a}
  MaxCrashes = 1
INVARIANTS HandoverCovered RoundRobin NoOrphans
PROPERTIES ImplementsPrefork TerminationCompletes RequestsServed
