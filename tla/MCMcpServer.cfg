SPECIFICATION FairSpec
CONSTANTS
  i1 = i1
  a1 = a1
  a2 = a2
  a3 = a3
  Ids = {i1, a1, a2}
  Initializes = {i1}
  None = None
  Size <- OneLarge
  MaxEntries = 2
  MaxBytes = 3
  MaxFrames = 4
  MaxRetained = 2
  StreamFails = TRUE
CHECK_DEADLOCK FALSE
INVARIANTS
  AnswersInOrder
  NothingWaitsUnnoticed
PROPERTIES
  EofEnds
  SignalEnds
