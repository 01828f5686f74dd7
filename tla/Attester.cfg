\* Every answer and every table.
CONSTANTS
  MaxUsize = 31
  SocketWait = 2
  Answers <- MCAnswers
  Tables <- MCTables
SPECIFICATION Spec
INVARIANTS
  DecodesWhatIsSaid
  CutsAreNoticed
  CertificateSurvives
