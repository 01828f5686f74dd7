SPECIFICATION Spec
CONSTANTS
  None = None
  NoCredential = None
  Requests = {r1}
  Injections = {i1, i2}
  Launches <- AllLines
  Inputs <- MCInputs
  Offered <- MCOffered
  Elsewhere <- ToOther
  MaxRuns = 2
  MaxRedirects = 1
INVARIANTS
  FailClosed
  OneCredentialPerRun
  AnswersTellTheStore
  RefusedBeforeContact
  BufferedAuthFailuresSanitized
  AllowlistSettledAtStartup
PROPERTIES
  ImplementsGate
  OnlyCliTokensBreakRequests
CHECK_DEADLOCK FALSE
