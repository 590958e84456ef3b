SPECIFICATION Spec
CONSTANTS
  L1 = L1
  L2 = L2
  none = none
  N = 2
  Pairs = {1, 2}
  Members <- Mixed
  Cmds <- MixedCmds
  NoLayout <- none
  NoCmd = NoCmd
  CanTimeout = TRUE
  RetryEarly = TRUE
INVARIANTS
  CompletedIsReady
  ParkedIsPending
  OkMeansMatched
PROPERTIES
  AnsweredOnce
  MatchedIsFrozen
