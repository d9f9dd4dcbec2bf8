SPECIFICATION FairSpec
CONSTANTS
  Jobs = {j1, j2}
  MaxRetained = 1
  Files = {f1, f2}
  Edited = {f1}
  MaxEdits = 1
  AskRequests = {a1}
INVARIANTS
  TypeOK
  OneActivity
  CancelledLeavesNothing
PROPERTIES
  AskedFilesStandStill
  AppliedIsKept
  CancelledAskIsSilent
  OutcomeIsExact
  WorkspaceIsFreed
CHECK_DEADLOCK FALSE
