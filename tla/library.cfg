SPECIFICATION FairSpec
CONSTANTS
  MaxRecs = 2
  MaxSessions = 2
  MaxPerSession = 1
  MaxParts = 2
  Deleters = {d1}
  BatchLimit = 2
  MaxDeletes = 1
  MaxFaults = 1
INVARIANTS TypeOK CatalogueIsSound AssetIsWhole
PROPERTIES CaptureKeepsDirectory CompletedIsCatalogued
CHECK_DEADLOCK FALSE
