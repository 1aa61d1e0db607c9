SPECIFICATION Spec
CONSTANTS
  Viewers = {v1}
  Titles = {t1}
  Sizes = {1, 2}
  NoTitle = NoTitle
  RingSize = 2
  HistoryCap = 3
  ChunkSizes = {1, 4}
  MaxChunks = 4
  MaxEpoch = 0
INVARIANT LaggingViewerResyncs
