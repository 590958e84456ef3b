SPECIFICATION FairSpec
CONSTANTS
  c1 = c1
  c2 = c2
  agent = agent
  m1 = m1
  bad = bad
  None = None
  Clients <- MCClients
  Agent <- agent
  Messages <- MCMessages
  Undecodable <- MCUndecodable
  Capacity = 2
  MaxSends = 4
  MaxCrashes = 2
  ClientDiesAt <- MCClientDiesAt
  AgentDiesAt <- MCAgentDiesAt
  MaxBatch = 2
  CanPoll = TRUE
INVARIANTS
  SlotsAccounted
  NeverOverwrites
  NoLostWakeup
PROPERTIES
  IsFifo
  AlwaysDrained
