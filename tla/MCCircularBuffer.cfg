CONSTANTS
  Putters = {p1}
  Getters = {g1}
  size_ = 3
  Empty = Empty
  MaxPuts = 10
SPECIFICATION FairSpec
INVARIANT GetsInOrder
PROPERTY ImplementsStock
PROPERTY EverythingTaken
\* The putter stops at MaxPuts.
CHECK_DEADLOCK FALSE
