SPECIFICATION Spec
CONSTANTS
  Conns = {c1, c2}
  Viewers = {}
  Ids = {i1}
  NoConn = NoConn
  NoId = NoId
  MaxKeys = 1
INVARIANT LiveIsListed
