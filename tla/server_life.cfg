SPECIFICATION Spec
CONSTANTS
  Clients = {c1, c2}
  Rsrcs = {r1, r2}
  Denied = {c2}
  Handles = {d1, d2}
  Reqs = {q1, q2}
  Observers = {o1}
  Conditions <- OneAtATime
  MaxNumber = 3
  MaxCalls = 2
  MaxRestarts = 1
  MaxChildren = 1
  MaxNoted = 2
  Refusal = Refusal
  Null = Null
SYMMETRY Symmetry
CHECK_DEADLOCK FALSE
INVARIANTS
  ListsAlive
  NoOrphans
  HandlesOwn
  Paired
  ObserversKnown
  NotifiesAll
  AnsweredOnce
  ChildrenBound
