SPECIFICATION Spec
CONSTANTS
  Jobs = {j1}
  MaxRetained = 1
  Files = {f1}
  Edited = {f1}
  MaxEdits = 1
  AskRequests = {a1}
PROPERTY AppliedToIsolated
CHECK_DEADLOCK FALSE
