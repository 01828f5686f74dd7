SPECIFICATION FairSpec
CONSTANTS
  None = None
  NoCredential = None
  Requests = {r1, r2}
  Injections = {i1}
  Launches <- RaceLines
  Inputs <- OneInput
  Offered <- OneGood
  Elsewhere <- ToOther
  MaxRuns = 1
  MaxRedirects = 0
INVARIANT
  InstalledMeansUsed
PROPERTIES
  RequestsEnd
  InjectionsEnd
CHECK_DEADLOCK FALSE
