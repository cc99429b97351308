----------------------------- MODULE PlayerBatch -----------------------------
(***************************************************************************)
(* The players of a batch, there and back: Env::Allocate of core/env.h     *)
(* writes the env of each player into info:players.env_id, the caller of   *)
(* Recv answers with an action for each player under the same numbers, in  *)
(* whatever order, and Env::ParseAction picks those of its env.  Rows of   *)
(* an action batch are numbered from 1.                                    *)
(***************************************************************************)
EXTENDS StateBuffer, SortedSets, SequencesExt

\* info:players.env_id of the batch that Wait returned.
players_env_id == [k \in 1 .. ret.player |-> buf.prow[k - 1]]

\* Array::Slice
Slice(start, end) == [k \in 1 .. end - start |-> start + k - 1]

\* The rows of an env in the players.env_id of an action batch.
env_player_index(batch, c) == Sorted({k \in DOMAIN batch : batch[k] = c})

\* Mutant (see the README): any rows in ascending order are continuous.
Ascending(index) == index # <<>>

continuous(index) == index # <<>> /\ Len(index) = Last(index) + 1 - Head(index)

\* ParseAction: the rows of each player array that the env gets, as a slice of
\* the batch or as a copy; env_index is its row in the batch of envs.
ParseAction(batch, c, env_index) ==
  LET index == env_player_index(batch, c)
  IN  IF max_num_players_ = 1 THEN Slice(env_index, env_index + 1)
      ELSE IF continuous(index) THEN Slice(Head(index), Last(index) + 1)
      ELSE index

-----------------------------------------------------------------------------
(* Properties *)

Rotated(s, n) == SubSeq(s, n + 1, Len(s)) \o SubSeq(s, 1, n)

\* The rows in which the env may stand in a batch of envs: with one player for
\* each env, that of its player.
EnvRows(batch, c) == {k \in DOMAIN batch : max_num_players_ = 1 => batch[k] = c}

\* The players of a returned batch stand in the order of their envs, as the
\* example of dummy_litepool.h (lines 79-85) has it: two counters give the rows,
\* and only one atomic operation on both keeps them in step.  And wherever the
\* caller starts the answer, each player's action reaches its env, once and in
\* order (state_buffer.h, lines 85-97; env.h, lines 112-160).
PlayersFollowEnvs ==
  wpc = "returned" =>
    /\ \A c, d \in Allocated :
         slice[c].shared < slice[d].shared => slice[c].player + slice[c].players <= slice[d].player
    /\ \A n \in 0 .. ret.player : \A c \in Allocated :
         LET batch == Rotated(players_env_id, n)
         IN  \A env_index \in EnvRows(batch, c) :
               LET parsed == ParseAction(batch, c, env_index)
               IN  /\ Len(parsed) = slice[c].players
                   /\ \A k \in DOMAIN parsed : batch[parsed[k]] = c
                   /\ \A k \in 1 .. Len(parsed) - 1 : parsed[k] < parsed[k + 1]
=============================================================================
