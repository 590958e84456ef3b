SPECIFICATION FairSpec
CONSTANTS
  L1 = L1
  L2 = L2
  none = none
  N = 3
  Pairs = {1, 2}
  Members <- Split
  Cmds <- SplitRetry
  NoLayout <- none
  NoCmd = NoCmd
  CanTimeout = FALSE
  RetryEarly = TRUE
INVARIANTS
  NoDrop
  SameGroups
PROPERTIES
  EveryoneMatched
