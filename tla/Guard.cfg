SPECIFICATION HwGuardedSpec
CHECK_DEADLOCK FALSE
CONSTANTS
  Awards = {a1, a2}
  Requests = {r1, r2}
  Workers = {w1}
  MaxBatches = 3
  MaxSyncs = 1
  BatchSize = 2
  Environment <- Beside
  HwFaults <- GuardedFaults
SYMMETRY Symmetry
INVARIANT AtMostOneBroadcast
PROPERTY ImplementsPayments
