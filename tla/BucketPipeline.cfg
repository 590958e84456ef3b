SPECIFICATION FairSpec
CONSTANTS
  Jobs <- MCJobs
  MaxInFlight = 2
  Mantissa = 9
INVARIANTS
  RoutesServeTarget
  ExchangeMatches
  SameGroupOrder
  
  
  

  
