SPECIFICATION Spec
CONSTANTS
  Configs <- MCConfigs
  Models <- MCModels
  Certs <- MCCerts
INVARIANTS
  LongestPrefixWins
  ValidatedNeverBlocked
  PlainHttpBaseIsLocal
  PinnedHostsChecked
  PinsLostOnlyToRespelling
