\* Time: two handshakes at a time, expiry, rotation and fetches; strict clients.
CONSTANTS
  h1 = h1
  h2 = h2
  Handshakes = {h1, h2}
  DirectUri = TRUE
  Ttl = 2
  FetchTimeout = 1
  Products <- OneProduct
  Platforms <- MCPlatforms
  KdsTtl = 2
  KdsTimeout = 1
  MaxTime = 3
  MaxKid = 1
  Unpinned = Unpinned
  Malformed = Malformed
  Images <- TimeImages
  Configs <- TimeConfigs
  Builds <- StrictBuilds
  Clients <- StrictClients
  Lifetime = 1
  Skew = 1
  MaxRuns = 1
SPECIFICATION Spec
SYMMETRY Symmetric
INVARIANT
  AcceptedWhileValid
