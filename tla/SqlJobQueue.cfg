SPECIFICATION Spec
CONSTANTS
  Jobs = {1, 2}
  Workers = {w1, w2}
  MaxAttempts = 2
  BatchSize = 2
  StallAfter = 0
  MaxTime = 1
  Recovery = recovery
SYMMETRY WorkerSymmetry
INVARIANTS  DisjointBatches AttemptsWithinBudget 
CHECK_DEADLOCK FALSE
