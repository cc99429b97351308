CONSTANTS
  batch_ = 2
  max_num_players_ = 1
  Nobody = Nobody
  Envs = {e1, e2, e3}
  num_envs = 3
  num_threads = 2
  Creators = {p1}
  Destroys = FALSE
  MaxWaits = 7
SPECIFICATION Spec
INVARIANT WritesLiveBuffer
INVARIANT NeverThrows
INVARIANT ResultKept
SYMMETRY Symmetry
PROPERTY ImplementsBatchQueue
\* The run ends with the bound on the waits.
CHECK_DEADLOCK FALSE
