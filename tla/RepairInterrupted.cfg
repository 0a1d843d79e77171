SPECIFICATION Spec
CONSTANTS
  app = app
  conftest = conftest
  original = original
  edited = edited
  broken = broken
  ToolFiles <- MCOneFile
  SideFiles <- MCNone
  TestFiles <- MCNone
  Rewritten <- MCNone
  Contents <- MCContents
  AtHead = original
  ConsecutiveLimit = 1
  TotalLimit = 1
  MaxEpoch = 2
INVARIANT
  SubmittedIsValidated
CHECK_DEADLOCK FALSE
