SPECIFICATION Spec
CHECK_DEADLOCK FALSE
CONSTANTS
  ann = ann
  bob = bob
  cy = cy
  None = None
  Clients = {ann, bob, cy}
  UserLimit = 2
  Crowds <- MCCrowds
INVARIANTS TableRight NoEcho
PROPERTIES ChildrenReaped ChildrenEnd
