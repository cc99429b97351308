CONSTANTS
  batch_ = 3
  max_num_players_ = 2
  Calls = {c1, c2, c3, c4}
  Nobody = Nobody
SPECIFICATION Spec
INVARIANT TypeOK
INVARIANT SlicesDisjoint
INVARIANT NoWriterLeft
INVARIANT BatchComplete
INVARIANT PlayersFollowEnvs
\* The batch is handed over once: then nothing is left to do.
CHECK_DEADLOCK FALSE
