SPECIFICATION FairSpec
CONSTANTS
  Jobs = {1, 2}
  Workers = {w1, w2}
  MaxAttempts = 2
  BatchSize = 2
  StallAfter = 1
  MaxTime = 4
  LastAbandon = 2
INVARIANTS TypeOK OverlapNeedsRecovery AttemptsWithinBudget
PROPERTIES FinishedStaysFinished EveryJobSettles
CHECK_DEADLOCK FALSE
