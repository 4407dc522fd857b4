SPECIFICATION Spec
CONSTANTS
  Clients = {c1, c2}
  Requests = {1, 2}
  Handles = {h1, h2}
  FaultSets <- MCFaultSets
  MaxNotes = 1
  None = None
CHECK_DEADLOCK FALSE
INVARIANTS OneHolder HandlesOwn NoOrphans
PROPERTIES Answered ShutdownEnds
