CONSTANTS
  Chains = {c1}
  Workers = {w1}
  MaxMade = 2
  OreFaults <- AllOreFaults
SPECIFICATION Spec
CHECK_DEADLOCK FALSE
INVARIANTS OTypeOK PendingIsWorkedOn OneChainAccount
 
