\* Identity: every kind of client and build, two runs of the relay, hardly any time.
CONSTANTS
  h1 = h1
  h2 = h2
  Handshakes = {h1}
  DirectUri = TRUE
  Ttl = 2
  FetchTimeout = 1
  Products <- MCProducts
  Platforms <- MCPlatforms
  KdsTtl = 2
  KdsTimeout = 1
  MaxTime = 0
  MaxKid = 0
  Unpinned = Unpinned
  Malformed = Malformed
  Images <- MCImages
  Configs <- MCConfigs
  Builds <- MCBuilds
  Clients <- MCClients
  Lifetime = 1
  Skew = 1
  MaxRuns = 2
SPECIFICATION FairSpec
INVARIANTS
  ChannelEndsInPinnedRelay
  StrictClientsGetTheirPins
  CheckSpeaksTruth
  NeverMockUnasked
PROPERTIES
  ImplementsChannel
  HandshakesEnd
