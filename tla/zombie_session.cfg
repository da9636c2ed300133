SPECIFICATION Spec
CONSTANTS
  Channels = {c1}
  NoChannel = NoChannel
  Requests = {r1}
  Capacity = 2
  MaxRequests = 2
  MaxCrashes = 0
  MaxDeaths = 0
  MaxFaults = 0
SYMMETRY Symmetry
INVARIANT IdleHasNoSession
