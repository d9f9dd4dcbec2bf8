SPECIFICATION Spec
CONSTANTS
  r1 = r1
  r2 = r2
  r3 = r3
  r4 = r4
  Requests = {r1, r2}
  Asked <- MCAsked
  StartUp = StartUp
  Closing = Closing
  MaxRecords = 2
  MaxResults = 1
  MaxQueue = 1
  MaxRevisions = 1
  Threads = {t1}
  NoThread = NoThread
  MaxJournal = 1
  MaxRestarts = 0
INVARIANT CancelledIsNotApplied
CHECK_DEADLOCK FALSE
