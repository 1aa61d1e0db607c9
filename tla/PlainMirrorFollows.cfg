SPECIFICATION Spec
CONSTANTS
  Viewers = {v1}
  Titles = {t1}
  Sizes = {s1, s2}
  NoTitle = NoTitle
  RingSize = 2
  HistoryCap = 2
  ChunkSizes = {1, 4}
  MaxChunks = 3
  MaxEpoch = 2
INVARIANTS
  FollowsTheSession
  HistoryIsNewest
SYMMETRY Symmetry
