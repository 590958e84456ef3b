SPECIFICATION FairSpec
CONSTANTS
  N = 2
  Programs <- MCPrograms
  MaxCalls = 9
  MaxRound = 1
  NoCmd = NoCmd
CHECK_DEADLOCK FALSE
INVARIANTS
  
  SuccessIsTrue
  NoRollback
  RoundsAreGlobal
  
  SameGenerations
  
PROPERTIES
  EveryoneServed
