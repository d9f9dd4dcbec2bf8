SPECIFICATION FairSpec
CONSTANTS
  Jobs = {j1}
  MaxRetained = 1
  Files = {f1}
  Edited = {f1}
  MaxEdits = 0
  AskRequests = {a1}
PROPERTY
  CancelIsHonoured
CHECK_DEADLOCK FALSE
