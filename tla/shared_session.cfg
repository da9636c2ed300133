SPECIFICATION Spec
CONSTANTS
  MaxRecs = 2
  MaxSessions = 2
  MaxPerSession = 2
  MaxParts = 2
  Deleters = {d1}
  BatchLimit = 2
  MaxDeletes = 1
  MaxFaults = 1
PROPERTIES CaptureKeepsDirectory
CHECK_DEADLOCK FALSE
