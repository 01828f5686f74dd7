SPECIFICATION Spec
CONSTANTS
  None = None
  NoCredential = None
  Requests = {r1}
  Injections = {i1}
  Launches <- ProductionOnly
  Inputs <- OneInput
  Offered <- TwoGood
  Elsewhere <- ToOther
  MaxRuns = 1
  MaxRedirects = 1
INVARIANT ForwardsOnlyToAllowedOrigins
CHECK_DEADLOCK FALSE
