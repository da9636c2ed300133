SPECIFICATION Spec
CONSTANTS
  MaxRecs = 1
  MaxSessions = 1
  MaxPerSession = 1
  MaxParts = 2
  Deleters = {d1}
  BatchLimit = 2
  MaxDeletes = 1
  MaxFaults = 0
INVARIANTS DeletionIsWhole
CHECK_DEADLOCK FALSE
