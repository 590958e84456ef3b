SPECIFICATION Spec
CONSTANTS
  Users <- MCUsers
  Agent = "agent"
  Clients <- MCClients
  Capacity = 2
  Scenarios <- MCPlain
  Fresh = 2
  Patience = 2
  Ttl = 1
INVARIANT ReachesAgent
CHECK_DEADLOCK FALSE
