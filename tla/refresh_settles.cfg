SPECIFICATION FairSpec
CONSTANTS
  Clients = {c1}
  Values = {v1, v2}
  Gets = {g1, g2}
  MaxNumber = 1
  MaxSignals = 1
  Conditions <- Overlapping
  Null = Null
PROPERTIES
  Settles
