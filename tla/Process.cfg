SPECIFICATION PwSpec
CHECK_DEADLOCK FALSE
CONSTANTS
  Awards = {a1}
  Requests = {r1}
  Workers = {w1}
  MaxBatches = 2
  MaxSyncs = 1
  BatchSize = 1
  Environment <- SavesFail
  HwFaults <- HwFaultKinds
  Networks <- NetworkKinds
  Targets = {t1, t2}
  Contracts = {k1, k2}
  MaxKeys = 2
SYMMETRY Symmetry
INVARIANTS RunsAsRegistered RecordedIsPrepared
PROPERTIES AsksOnlyOptedIn KeysStayLost ResendsOnlyForgotten
