SPECIFICATION FairSpec
CONSTANTS
  Context <- MCContext
  InputLabel <- MCInput
  OutputLabel <- MCOutput
  SessionId <- MCSession
  Master = 0
  SeqLimit = 2
  MaxWriters = 1
  MaxSockets = 2
  MaxConns = 2
  MaxKeys = 2
  MaxFrames = 2
  MaxRepeats = 1
CHECK_DEADLOCK FALSE
INVARIANTS
  RunsOnce
  RunsAPrefix
  NeverLocked
PROPERTIES
  KeepsContract
  TypingReturns
  ReadyKeysRun
