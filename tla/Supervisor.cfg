SPECIFICATION FairSpec
CONSTANTS
  MaxCommands = 3
  MaxKeys = 3
  MaxResizes = 2
  Codes = {"zero", "one"}
CHECK_DEADLOCK FALSE
INVARIANTS
  SizesAgree
  KeysStayWithTheirCommand
  SinkFollows
  EndsWithTheCommand
PROPERTY
  SignalEndsIt
