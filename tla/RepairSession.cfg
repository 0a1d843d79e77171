SPECIFICATION Spec
CONSTANTS
  app = app
  conftest = conftest
  original = original
  edited = edited
  broken = broken
  ToolFiles <- MCOneFile
  SideFiles <- MCSideTest
  TestFiles <- MCSideTest
  Rewritten <- MCAllFiles
  Contents <- MCContents
  AtHead = original
  ConsecutiveLimit = 1
  TotalLimit = 2
  MaxEpoch = 3
INVARIANTS
  TypeOK
  AuditIsConsistent
  FailureBudget
  RecordedSubmissionIsValidated
  LockMatchesGates
PROPERTIES
  ReadyLock
  ImplementsGate
  ImplementsToolSession
SYMMETRY MCSymmetry
CHECK_DEADLOCK FALSE
