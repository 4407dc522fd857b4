SPECIFICATION Spec
CONSTANTS
  r1 = r1
  r2 = r2
  c1 = c1
  c2 = c2
  Resources <- MCResources
  Containers <- MCContainers
  Kinds <- MCKinds
  Faults <- MCFaults
  MaxConnects = 2
  None = None
INVARIANTS RefCountExact NothingDangles Stoppable
PROPERTIES AllFreed
