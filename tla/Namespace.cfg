SPECIFICATION FairSpec
CONSTANTS
  Objects <- MCObjects
  Binding <- MCBinding
  KubeFails = TRUE
  MaxAttempts = 4
CHECK_DEADLOCK FALSE
INVARIANTS
  TypeOK
  JobInWholeNamespace
  NothingLeft
PROPERTIES
  NamespaceGoes
