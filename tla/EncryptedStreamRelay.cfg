SPECIFICATION Spec
CONSTANTS
  Viewers = {}
  HistoryCap = 4
  MaxFrame = 3
  RingSize = 1
  DeltaSizes = {1, 2}
  SnapshotSizes = {1, 2, 4}
  MaxWire = 2
  MaxVer = 2
  MaxMeta = 1
  MaxConns = 3
CHECK_DEADLOCK FALSE
INVARIANTS
  NeverRefused
  HistoryReplays
  MirrorIsExact
