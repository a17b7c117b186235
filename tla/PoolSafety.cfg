SPECIFICATION PoolSpec
CONSTANTS
  Jobs = {j1, j2, j3}
  NoJob = NoJob
  MaxQueueDepth = 2
  RequestTimeout = 2
  ExplicitDeadlines = {2}
  MaxTime = 4
SYMMETRY JobSymmetry
INVARIANTS
  TypeOK
  NoLostWakeup
  AtMostOneAnswer
  FifoOrder
  DrainedWhenJoined
  NoEarlyTimeout
  MonitorsAgree
CHECK_DEADLOCK FALSE
