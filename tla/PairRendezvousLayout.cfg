SPECIFICATION Spec
CONSTANTS
  L1 = L1
  L2 = L2
  none = none
  N = 2
  Pairs = {1}
  Members <- OneSplit
  Cmds <- LayoutCmds
  NoLayout <- none
  NoCmd = NoCmd
  CanTimeout = FALSE
  RetryEarly = FALSE
INVARIANTS
  SameGroups
