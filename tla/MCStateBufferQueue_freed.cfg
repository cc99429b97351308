CONSTANTS
  batch_ = 2
  max_num_players_ = 1
  Nobody = Nobody
  Envs = {e1, e2}
  num_envs = 2
  num_threads = 2
  Creators = {p1}
  Destroys = FALSE
  MaxWaits = 2
SPECIFICATION Spec
INVARIANT ReadsLiveBuffer
\* The run ends with the bound on the waits.
CHECK_DEADLOCK FALSE
