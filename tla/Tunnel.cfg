\* One tunnel, two TLS records each way.
CONSTANTS
  Heads <- MCHeads
  MaxRecords = 2
SPECIFICATION FairSpec
INVARIANTS
  TunnelIsTransparent
  CleanEndDeliversAll
  OnlyTokenHoldersReachRelay
  OpenMeansDialled
PROPERTY
  ConnectEnds
\* A closed or abandoned tunnel has nothing left to do.
CHECK_DEADLOCK FALSE
