CONSTANTS
  batch_ = 2
  max_num_players_ = 1
  Nobody = Nobody
  Envs = {e1, e2}
  num_envs = 2
  num_threads = 2
  Creators = {p1}
  Destroys = TRUE
  MaxWaits = 7
SPECIFICATION FairSpec
PROPERTY ImplementsBatchQueue
PROPERTY WaitReturns
PROPERTY StockedDestructorReturns
\* The run ends with the bound on the waits, or after the destructor.
CHECK_DEADLOCK FALSE
