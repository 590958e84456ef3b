SPECIFICATION FairSpec
CONSTANTS
  w1 = w1
  w2 = w2
  v0 = v0
  v1 = v1
  Keys = {1, 2, 3}
  Values = {v0, v1}
  Waiters = {w1, w2}
  Missing = Missing
  Empty = Empty
  AnyValue = AnyValue
  Scenarios <- MCScenarios
  MaxWrites = 3
CHECK_DEADLOCK FALSE
INVARIANTS
  NewsPending
PROPERTIES
  
  NoMissedWrite
