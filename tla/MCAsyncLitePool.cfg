CONSTANTS
  Clients = {c1, c2}
  Workers = {w1, w2}
  Envs = {e1, e2}
  num_envs_ = 2
  max_num_players_ = 1
  Actions = {a1, a2}
  Null = Null
  Destroys = TRUE
  MaxEpisode = 1
SPECIFICATION UserSpec
INVARIANT TypeOK
INVARIANT OneWorkerPerEnv
INVARIANT AnswersMatch
INVARIANT NothingLost
INVARIANT SteppingCount
PROPERTY RecvReturns
PROPERTY NobodyStarves
PROPERTY DestructorReturns
\* After the destructor nothing happens.
CHECK_DEADLOCK FALSE
