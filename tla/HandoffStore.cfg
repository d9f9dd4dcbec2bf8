SPECIFICATION Spec
CONSTANTS
  Requests = {q1, q2, q3}
  Receivers = {r1, r2}
  Waiters = {w1, w2}
  HandoffTtl = 2
  RequestIdTtl = 2
  MaxHistory = 2
  MaxRequestIds = 2
  MaxReceipts = 1
  MaxWaiters = 1
  MaxRevisions = 4
SYMMETRY MCSymmetry
INVARIANTS
  TypeOK
  NoHandoffIsMissed
  NewestIsKnown
  RetryIsReplayed
PROPERTIES
  AnswersAreNew
CHECK_DEADLOCK FALSE
