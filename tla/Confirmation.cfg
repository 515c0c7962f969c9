SPECIFICATION Spec
CHECK_DEADLOCK FALSE
CONSTANTS
  Awards = {a1, a2}
  Requests = {r1}
  Workers = {w1, w2}
  MaxBatches = 1
  MaxSyncs = 2
  BatchSize = 2
  Environment <- EnvironmentEvents
SYMMETRY Symmetry
INVARIANT PaidOnlyIfConfirmed
PROPERTY SuccessIsOverwrittenUnseen
