SPECIFICATION Spec
CONSTANTS
  MaxRuns = 2
  MaxCalls = 1
  MaxQuestions = 1
  MaxWork = 2
  MaxSends = 2
  MaxRequests = 3
  MaxPublished = 2
  Configurations <- Pages
  MaxSelected = 2
INVARIANTS
  ShownIsOfThisRun
  SentIsPublishedOnce
PROPERTIES
  DroppedJobEnds
  QuestionEnds
CHECK_DEADLOCK FALSE
