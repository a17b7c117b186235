SPECIFICATION FairPoolSpec
CONSTANTS
  Jobs = {j1, j2}
  NoJob = NoJob
  MaxQueueDepth = 1
  RequestTimeout = 1
  ExplicitDeadlines = {}
  MaxTime = 2
PROPERTIES
  AnsweredEventually
  ShutdownCompletes
  ImplementsQueue
CHECK_DEADLOCK FALSE
