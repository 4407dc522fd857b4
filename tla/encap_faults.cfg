SPECIFICATION Spec
CONSTANTS
  Clients = {c1, c2}
  Uris = {u1}
  Hosts = {h1}
  EncapIds = {i1, i2}
  PresenceIds = {p1}
  Handles = {d1, d2}
  Ctxs = {w1, w2}
  Faults = {"deregister", "lateDeregister", "quickRestart", "cancelFail", "lostReply", "release", "crash"}
  Null = Null
SYMMETRY Symmetry
CHECK_DEADLOCK FALSE
INVARIANTS
  CountsCovered
  PresenceCovered
  NoOrphans
