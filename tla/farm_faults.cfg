SPECIFICATION Spec
CONSTANTS
  Channels = {c1, c2}
  NoChannel = NoChannel
  Requests = {r1, r2}
  Capacity = 1
  MaxRequests = 2
  MaxCrashes = 1
  MaxDeaths = 1
  MaxFaults = 1
SYMMETRY Symmetry
INVARIANTS TypeOK CaptureIsCatalogued DeferredStartIsServed CapacityHolds
PROPERTIES LedgerSpec RestartClosesRow
