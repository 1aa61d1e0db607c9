SPECIFICATION FairSpec
CONSTANTS
  Conns = {c1, c2}
  Viewers = {v1}
  Ids = {i1}
  NoConn = NoConn
  NoId = NoId
  MaxKeys = 1
INVARIANTS
  TypeOK
  InputBelongsToHolder
  OneHolder
  KeysNeedConsent
  LiveHasHandler
  LiveIsShown
  DoomedUnlessResumed
PROPERTIES
  KeepsContract
  SilentProducerIsNoticed
  DisconnectedIsForgotten
