SPECIFICATION Spec
CONSTANTS
  MaxSessions = 2
  MaxTakes = 2
  MaxResets = 1
  MaxFaults = 1
INVARIANTS TypeOK RecordingIsReal ChildHasSession
PROPERTIES GateSpec StatusCatchesUp
CHECK_DEADLOCK FALSE
