SPECIFICATION Spec
CONSTANTS
  MaxConns = 3
  MaxIds = 2
  MaxRestarts = 1
  MaxOut = 2
  MaxTitle = 2
  MaxCwd = 1
  MaxSize = 2
  MaxEvents = 2
CHECK_DEADLOCK FALSE
INVARIANTS
  TitleFollows
  SizeFollows
  OutputInOrder
  OneStrayEach
