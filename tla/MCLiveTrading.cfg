CONSTANTS
  BUFFER_SIZE = 2
  Scenarios <- MCScenarios
  Sides = {"BUY"}
  Prices = {1, 2}
SPECIFICATION FairSpec
INVARIANT BooksInOrder
INVARIANT OneWriteAtATime
INVARIANT OneOrderPerSide
PROPERTY QueuedIsWritten
PROPERTY StopReturns
CHECK_DEADLOCK FALSE
