SPECIFICATION FairSpec
CONSTANTS
  Senders <- MCSenders
  Receivers <- MCReceivers
  DTypePairs <- MCDTypePairs
  SenderIsFirst = TRUE
  Rounds = 2
  ChatsPerRound = 1
  Prompts = 1
  Cases <- MCCases
  MaxTimeouts = 1
INVARIANTS
  NoMixedWeights NoPhantomReceive TagNotAhead RegistrationAgrees
PROPERTY EveryRoundArrives
CHECK_DEADLOCK FALSE
