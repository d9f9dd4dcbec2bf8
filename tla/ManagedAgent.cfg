SPECIFICATION FairSpec
CONSTANTS
  r1 = r1
  r2 = r2
  r3 = r3
  r4 = r4
  Requests = {r2, r3, r4}
  Asked <- MCAsked
  StartUp = StartUp
  Closing = Closing
  MaxRecords = 2
  MaxResults = 1
  MaxQueue = 2
  MaxRevisions = 2
  Threads = {t1, t2}
  NoThread = NoThread
  MaxJournal = 2
  MaxRestarts = 1
INVARIANTS
  TypeOK
  RetryRunsOnce
  StatusIsTrue
  CleanBeforeWork
  ThreadsAreKnown
  AppliedIsRemembered
PROPERTIES
  StoppedIsSilent
  OperationsEnd
CHECK_DEADLOCK FALSE
