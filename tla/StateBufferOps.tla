--------------------------- MODULE StateBufferOps ---------------------------
(***************************************************************************)
(* The data of one core/state_buffer.h StateBuffer and the effect of each  *)
(* of its atomic operations.  A buffer is a record: the two halves of the  *)
(* packed counter offsets_ are the fields player and shared; row and prow  *)
(* say who has written each row of the shared and of the player arrays.    *)
(***************************************************************************)
EXTENDS Integers

CONSTANTS batch_,            \* envs in a batch
          max_num_players_,  \* players of an env, at most
          Nobody             \* a row nobody has written

ASSUME BatchAssumption ==
  batch_ \in Nat \ {0} /\ max_num_players_ \in Nat \ {0}

NoOrder == -1

\* Mutants (see the README).
OnePlayerIncrement(np) == [player |-> 1, shared |-> 1]
QuotaOneTooMany(b) == b.alloc_count_ <= batch_
SignalOneEarly(b, num) == b.done_count_ + num = batch_ - 1
OrderIgnored(b, order) == b.shared

Rows == 0 .. batch_ - 1
PlayerRows == 0 .. batch_ * max_num_players_ - 1

\* A new StateBuffer.
FreshBuffer ==
  [alloc_count_ |-> 0, player |-> 0, shared |-> 0, done_count_ |-> 0, sem_ |-> 0,
   row |-> [r \in Rows |-> Nobody], prow |-> [r \in PlayerRows |-> Nobody]]

\* alloc_count_.fetch_add(1) and the test of the count before it.
CountAllocation(b) == [b EXCEPT !.alloc_count_ = b.alloc_count_ + 1]
HasQuota(b) == b.alloc_count_ < batch_

\* The packed increment (num_players << 32 | 1) and offsets_.fetch_add.
increment(np) == [player |-> np, shared |-> 1]
AdvanceOffsets(b, np) ==
  [b EXCEPT !.player = b.player + increment(np).player,
            !.shared = b.shared + increment(np).shared]

\* The row the caller gets: the next one, or the requested one in sync mode.
RowFor(b, order) ==
  IF order # NoOrder /\ max_num_players_ = 1 THEN order ELSE b.shared
SliceFor(b, np, order) ==
  [shared |-> RowFor(b, order),
   player |-> IF order # NoOrder /\ max_num_players_ = 1 THEN order ELSE b.player,
   players |-> np]

\* The player rows of a slice.
PlayersOf(s) == s.player .. s.player + s.players - 1

\* The caller fills the arrays of its slice.
FillSlice(b, s, who) ==
  [b EXCEPT !.row = [r \in Rows |-> IF r = s.shared THEN who ELSE b.row[r]],
            !.prow = [r \in PlayerRows |-> IF r \in PlayersOf(s) THEN who ELSE b.prow[r]]]

\* Done(num): the count, and the signal of the caller that completes the batch.
CountDone(b, num) == [b EXCEPT !.done_count_ = b.done_count_ + num]
Completes(b, num) == b.done_count_ + num = batch_
SignalBuffer(b) == [b EXCEPT !.sem_ = b.sem_ + 1]
=============================================================================
