SPECIFICATION Spec
CONSTANTS
  P1_COUNTERS = {"pat_error"}
  P2_COUNTERS = {"pcr_error"}
  MPEG_TS_NULL_PID = 8191
  Bodies <- BodiesDef
  Reports <- ReportsDef
  Stale = 1
  MaxSessions = 1
  MaxPosts = 2
  MaxResets = 1
  MaxFaults = 1
INVARIANTS TypeOK TotalsAreSums StructureIsWhole
PROPERTIES ShownMovesForward FailureIsShown
CHECK_DEADLOCK FALSE
