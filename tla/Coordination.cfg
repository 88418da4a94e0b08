SPECIFICATION CSpec
CONSTANTS
  Clients = {c1, c2}
  Ttls <- MCTtls
  Skew = 1
  Lossy = TRUE
  MaxTimestamp = 6
  MaxTime = 5
  MaxTokens = 3
  Requests = {r1, r2, r3}
  Callers = {c1, c2}
  requests = 2
  Window = 3
  MaxCalls = 5
INVARIANTS AllTypesOK LeaseIsOwned OneClaimPerLife   BucketBudget 
PROPERTIES  EveryRequestEnds  ImplementsMemory
CHECK_DEADLOCK FALSE
