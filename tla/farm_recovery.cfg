SPECIFICATION RecoverySpec
CONSTANTS
  Channels = {c1}
  NoChannel = NoChannel
  Requests = {r1}
  Capacity = 2
  MaxRequests = 1
  MaxCrashes = 1
  MaxDeaths = 1
  MaxFaults = 1
PROPERTIES OperatorRecovers
