SPECIFICATION FairSpec
CONSTANTS
  MaxCommands = 2
  MaxTokens = 3
  MaxLinks = 2
  MaxPops = 3
CHECK_DEADLOCK FALSE
INVARIANTS
  TypeOK
  InOrder
  LinkStaysReadable
PROPERTIES
  LeftClean
  OutputAppears
