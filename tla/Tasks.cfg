SPECIFICATION FairSpec
CHECK_DEADLOCK FALSE
CONSTANTS
  Accounts = {a1}
  Nobody = Nobody
  Requests = {r1}
  MaxAwards = 3
  MaxTasks = 1
  MaxQuota = 4
  StartedLimit = 1
  MaxTokens = 4
  MaxExperience = 1
  Handlers <- OptionalHandlers
INVARIANT OvershootIsBounded
PROPERTY OverdueIsTakenBack
