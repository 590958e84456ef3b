SPECIFICATION FairSpec
CONSTANTS
  Users <- MCUsers
  Agent = "agent"
  Clients <- MCClients
  Capacity = 2
  Scenarios <- MCScenarios
  Fresh = 2
  Patience = 2
  Ttl = 1
INVARIANTS
  QueueIsShared FailureIsSeen LiveAgentFound
PROPERTY ConstructorEnds
CHECK_DEADLOCK FALSE
