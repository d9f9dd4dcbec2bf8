SPECIFICATION FairSpec
CONSTANTS
  Kinds = {claude, codex}
  Connectors = {c1, c2}
  NoKind = NoKind
  LeaseDuration = 2
  DispatchTimeout = 3
  MaxTokens = 3
  MaxRevisions = 3
INVARIANTS
  TypeOK
  OpenDispatchIsOwned
  ShutGateIsResolvable
PROPERTIES
  OutcomeIsFinal
  HazardShutsGate
  KeepsPromise
  DispatchSettles
CHECK_DEADLOCK FALSE
