SPECIFICATION Spec
CONSTANTS
  Clients = {c1, c2}
  Values = {v1, v2}
  Gets = {g1, g2}
  MaxNumber = 2
  MaxSignals = 2
  Conditions <- SingleOrReuse
  Null = Null
SYMMETRY Symmetry
INVARIANTS
  NoUpdateLost
  SubscribedToEntry
PROPERTIES
  OnlyNews
