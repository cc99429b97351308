CONSTANTS
  Clients = {c1, c2}
  Workers = {w1, w2}
  Envs = {e1, e2}
  NumEnvs = 2
  None = None
  Idle = Idle
  InQueue = InQueue
  MaxAlloc = 5
SPECIFICATION FairSpec
INVARIANT FIFODelivery
INVARIANT NoSlotRace
INVARIANT HalfFull
PROPERTY ImplementsFIFO
PROPERTY EveryActionDequeued
\* Idle clients and workers waiting on an empty ring are a legal state.
CHECK_DEADLOCK FALSE
