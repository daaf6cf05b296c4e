CONSTANTS
  c1 = c1
  c2 = c2
  Clients = {c1, c2}
  Inputs <- TwoFiles
  Endless = {}
  Faults = {}

SPECIFICATION Spec
CHECK_DEADLOCK FALSE
INVARIANT HandledAsTyped
