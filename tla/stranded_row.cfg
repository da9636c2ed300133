SPECIFICATION Spec
CONSTANTS
  Channels = {c1}
  NoChannel = NoChannel
  Requests = {r1, r2}
  Capacity = 2
  MaxRequests = 3
  MaxCrashes = 1
  MaxDeaths = 0
  MaxFaults = 0
SYMMETRY Symmetry
INVARIANT IdleHasNoOpenRow
