CONSTANTS
  Chains = {c1}
  Workers = {w1}
  MaxMade = 2
  OreFaults = {}
SPECIFICATION Spec
CHECK_DEADLOCK FALSE
INVARIANT PendingUntilProvisioned
