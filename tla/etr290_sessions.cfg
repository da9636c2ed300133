SPECIFICATION Spec
CONSTANTS
  P1_COUNTERS = {"pat_error"}
  P2_COUNTERS = {"pcr_error"}
  MPEG_TS_NULL_PID = 8191
  Bodies <- BodiesDef
  Reports = {}
  Stale = 1
  MaxSessions = 2
  MaxPosts = 0
  MaxResets = 2
  MaxFaults = 1
INVARIANTS MonitorHasSession
PROPERTIES ResetIsApplied
CHECK_DEADLOCK FALSE
