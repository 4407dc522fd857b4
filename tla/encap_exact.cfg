SPECIFICATION Spec
CONSTANTS
  Clients = {c1, c2}
  Uris = {u1, u2}
  Hosts = {h1}
  EncapIds = {i1, i2, i3}
  PresenceIds = {p1}
  Handles = {d1, d2, d3}
  Ctxs = {w1, w2, w3}
  Faults = {"reuse", "lateDeregister"}
  Null = Null
SYMMETRY Symmetry
CHECK_DEADLOCK FALSE
INVARIANTS
  CountsExact
  Served
  NoLeakedTxn
  ContextsSafe
PROPERTIES
  StopLeavesOthers
  ImplementsService
