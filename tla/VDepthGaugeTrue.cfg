SPECIFICATION SpeechSpec
CONSTANTS
  Jobs = {r1, r2}
  NoJob = NoJob
  MaxQueueDepth = 1
  RequestTimeout = 1
  ExplicitDeadlines = {}
  MaxTime = 2
  HttpThreads = 2
  Bodies <- SmallBodies
  Catalog = {"ar_male"}
  MaxInputChars = 2
  MaxBodyBytes = 3
  Absent = Absent
  WrongType = WrongType
  WaitForListener = TRUE
SYMMETRY RequestSymmetry
INVARIANTS
  DepthGaugeTrue
CHECK_DEADLOCK FALSE
