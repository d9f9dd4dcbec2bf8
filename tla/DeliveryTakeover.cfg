SPECIFICATION Spec
CONSTANTS
  codex = codex
  Pumps = {p1, p2}
  KindOf <- MCKindOf
  NoKind = NoKind
  Requests = {q1, q2}
  LeaseDuration = 1
  DispatchTimeout = 1
  HandoffTtl = 1
  RequestIdTtl = 1
  MaxHistory = 1
  MaxRequestIds = 1
  MaxReceipts = 1
  MaxWaiters = 1
  MaxRevisions = 2
  MaxTokens = 2
  MaxLate = 0
SYMMETRY MCSymmetry
INVARIANTS
  WritersOverlapOnlyAfterReview
  OutcomeIsTheAgents
CHECK_DEADLOCK FALSE
