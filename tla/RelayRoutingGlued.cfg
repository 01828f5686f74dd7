SPECIFICATION Spec
CONSTANTS
  Configs <- GluedConfigs
  Models <- MCModels
  Certs <- MCCerts
INVARIANT SentOnlyToAllowedOrigins
