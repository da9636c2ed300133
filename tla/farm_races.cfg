SPECIFICATION FairSpec
CONSTANTS
  Channels = {c1}
  NoChannel = NoChannel
  Requests = {r1, r2}
  Capacity = 2
  MaxRequests = 3
  MaxCrashes = 0
  MaxDeaths = 0
  MaxFaults = 0
INVARIANTS AchievedIsReal OneActiveRow CompletedIsAnnounced
PROPERTIES FailedIsFinal IntentSettles
