\* Three prompts over two pooled channels, restarts of the relay in any order.
CONSTANTS
  r1 = r1
  r2 = r2
  r3 = r3
  c1 = c1
  c2 = c2
  Requests = {r1, r2, r3}
  Channels = {c1, c2}
  Credentials = {"a", "b"}
  NoCredential = "none"
  Production = TRUE
SPECIFICATION Spec
SYMMETRY Symmetric
INVARIANTS
  PromptsStayPinned
  ProcessedOnce
  ProvidersSeeCredential
  RelayInv
