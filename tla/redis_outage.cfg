SPECIFICATION FairSpec
CONSTANTS
  Channels = {c1}
  NoChannel = NoChannel
  Requests = {r1}
  Capacity = 2
  MaxRequests = 1
  MaxCrashes = 0
  MaxDeaths = 0
  MaxFaults = 1
PROPERTY ConnectJobsAreTaken
