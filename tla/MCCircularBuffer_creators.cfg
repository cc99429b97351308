CONSTANTS
  Putters = {creator1, creator2}
  Getters = {consumer}
  size_ = 6
  Empty = Empty
  MaxPuts = 6
SPECIFICATION Spec
INVARIANT GetsAnElement
CHECK_DEADLOCK FALSE
