SPECIFICATION Spec
CONSTANTS
  Jobs = {1, 2}
  Workers = {w1, w2}
  MaxAttempts = 2
  BatchSize = 2
  StallAfter = 0
  MaxTime = 3
SYMMETRY WorkerSymmetry
INVARIANTS TypeOK IndexesLoseNothing NoDoubleClaim
PROPERTY ImplementsInMemoryQueue
CHECK_DEADLOCK FALSE
