CONSTANTS
  c1 = c1
  c2 = c2
  Clients = {c1, c2}
  Inputs <- FilesOfOne
  Endless <- EndlessTexts
  Faults = {"receive", "service"}

SPECIFICATION FairSpec
CHECK_DEADLOCK FALSE
INVARIANTS TypeOK HandledAsTyped
PROPERTY EventuallyHandled
