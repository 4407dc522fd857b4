SPECIFICATION Spec
CONSTANTS
  Ids <- MCIds
  Keys <- MCKeys
  Words = {w1}
  MaxItems = 2
  Scenes <- MCScenes
  Null = Null
  QueryKeys = {"rt", "if", "key"}
  KeyLength <- MCKeyLength
  ValueLengths = {0, 2, 5}
  ICL_QUERY_LENGTH_MAX = 20
INVARIANTS RefsExact CopyEqual
PROPERTIES QuerySound
CHECK_DEADLOCK FALSE
