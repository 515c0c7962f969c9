SPECIFICATION Spec
CHECK_DEADLOCK FALSE
CONSTANTS
  Accounts = {a1}
  Nobody = Nobody
  Requests = {r1, r2}
  MaxAwards = 3
  MaxTasks = 1
  MaxQuota = 2
  StartedLimit = 2
  MaxTokens = 0
  MaxExperience = 0
  Handlers <- Paying
SYMMETRY Symmetry
INVARIANTS CountsClones DeadlinesFit OvershootIsBounded
PROPERTIES ClonesNeverReopen 
