SPECIFICATION FairSpec
CONSTANTS
  Viewers = {v1}
  HistoryCap = 3
  MaxFrame = 3
  RingSize = 1
  DeltaSizes = {1}
  SnapshotSizes = {1}
  MaxWire = 1
  MaxVer = 2
  MaxMeta = 1
  MaxConns = 2
CHECK_DEADLOCK FALSE
INVARIANTS
  NeverIncomplete
  ShowsTheHost
PROPERTY ViewersCatchUp
