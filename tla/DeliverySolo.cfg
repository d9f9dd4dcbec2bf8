SPECIFICATION Spec
CONSTANTS
  codex = codex
  Pumps = {p1}
  KindOf <- MCKindOf
  NoKind = NoKind
  Requests = {q1, q2}
  LeaseDuration = 1
  DispatchTimeout = 2
  HandoffTtl = 1
  RequestIdTtl = 1
  MaxHistory = 1
  MaxRequestIds = 2
  MaxReceipts = 1
  MaxWaiters = 1
  MaxRevisions = 2
  MaxTokens = 2
  MaxLate = 1
SYMMETRY MCSymmetry
INVARIANTS
  AtMostOnce
  UnprovedIsReviewable
  HolderIsWoken
CHECK_DEADLOCK FALSE
