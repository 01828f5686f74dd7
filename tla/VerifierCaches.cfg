\* Two handshakes share a cache.
CONSTANTS
  h1 = h1
  h2 = h2
  Handshakes = {h1, h2}
  DirectUri = FALSE
  Ttl = 2
  FetchTimeout = 1
  Products <- MCProducts
  Platforms <- MCPlatforms
  KdsTtl = 2
  KdsTimeout = 1
  MaxTime = 5
  MaxKid = 2
SPECIFICATION Spec
SYMMETRY Symmetric
INVARIANTS
  CacheInv
  WithdrawnKeysExpire
  CertInv
  CertificatesExpire
