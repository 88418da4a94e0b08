SPECIFICATION FairSpec
CONSTANTS
  Callers = {c1, c2, c3}
  failure_threshold = 3
  cooldown = 2
  max_attempts = 3
  base = 1
  multiplier = 2
  max_backoff = 2
INVARIANTS TypeOK TripsAtThreshold
PROPERTIES ClosesAfterRecovery EveryRetryReturns
