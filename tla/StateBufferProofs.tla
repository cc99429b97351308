-------------------------- MODULE StateBufferProofs --------------------------
(***************************************************************************)
(* Proofs about StateBuffer for any batch size, number of players and      *)
(* number of concurrent calls, and about what an env takes from its batch. *)
(***************************************************************************)
EXTENDS PlayerBatch, CommonFacts, FiniteSetTheorems, TLAPS

(* The inductive invariant. *)

Filled == {c \in Calls : pc[c] \in {"done", "signal", "compare", "finished"}}
Signalling == {c \in Calls : pc[c] = "signal"}

\* What the waiter has added to done_count_.
counted == IF wpc \in {"idle", "done"} THEN 0 ELSE additional_done_count

\* Each counter counts the calls that have passed it.
CountInv ==
  /\ Cardinality(Granted) = IF buf.alloc_count_ <= batch_ THEN buf.alloc_count_ ELSE batch_
  /\ buf.shared = Cardinality(Allocated)
  /\ buf.done_count_ = Cardinality(Finished) + counted
  /\ stepping < batch_ => Cardinality(Started) <= stepping
  /\ wpc \in {"done", "signal"} => stepping < batch_

\* The slices handed out so far tile both arrays, in the same order.
SliceInv ==
  /\ buf.player <= buf.shared * max_num_players_
  /\ \A c \in Allocated :
       /\ slice[c].players = num_players[c]
       /\ slice[c].shared < buf.shared
       /\ slice[c].player + slice[c].players <= buf.player
  /\ \A c, d \in Allocated :
       /\ slice[c].shared = slice[d].shared => c = d
       /\ slice[c].shared < slice[d].shared =>
            slice[c].player + slice[c].players <= slice[d].player
  /\ \A r \in 0 .. buf.shared - 1 : \E c \in Allocated : slice[c].shared = r
  /\ \A r \in 0 .. buf.player - 1 : \E c \in Allocated : r \in PlayersOf(slice[c])

\* A slice that has been filled keeps what was written to it.
RowInv ==
  \A c \in Filled :
    /\ buf.row[slice[c].shared] = c
    /\ \A r \in PlayersOf(slice[c]) : buf.prow[r] = c

\* The batch is signalled once, when everything is counted, and the signal is
\* with the thread that gives it, in the semaphore, or with the waiter.
SignalInv ==
  /\ Signalling # {} \/ wpc \in {"signal", "compact", "returned"} \/ buf.sem_ # 0
       => buf.done_count_ = batch_
  /\ \A c, d \in Signalling : c = d
  /\ Signalling # {} => buf.sem_ = 0 /\ wpc \notin {"signal", "compact", "returned"}
  /\ wpc \in {"signal", "compact", "returned"} => buf.sem_ = 0

\* Nothing is allocated after the offsets were read.
RetInv ==
  wpc = "returned" => ret.shared = buf.shared /\ ret.player = buf.player

IInv == TypeOK /\ CountInv /\ SliceInv /\ RowInv /\ SignalInv /\ RetInv

-----------------------------------------------------------------------------
(* Counting sets of calls. *)

LEMMA FiniteCalls ==
  ASSUME NEW S \in SUBSET Calls
  PROVE  IsFiniteSet(S) /\ Cardinality(S) \in Nat
BY CallsAssumption, FS_Subset, FS_CardinalityType

LEMMA OneMore ==
  ASSUME NEW S \in SUBSET Calls, NEW c \in Calls, c \notin S
  PROVE  Cardinality(S \cup {c}) = Cardinality(S) + 1
BY FiniteCalls, FS_AddElement

LEMMA NotMore ==
  ASSUME NEW T \in SUBSET Calls, NEW S \in SUBSET T
  PROVE  /\ Cardinality(S) <= Cardinality(T)
         /\ Cardinality(S) = Cardinality(T) => S = T
BY FiniteCalls, FS_Subset

\* How many calls are where: at most the stepping envs get a slice.
LEMMA Counts ==
  ASSUME TypeOK, CountInv
  PROVE  /\ Cardinality(Finished) \in Nat /\ Cardinality(Allocated) \in Nat
         /\ Cardinality(Granted) \in Nat /\ Cardinality(Started) \in Nat
         /\ Cardinality(Finished) <= Cardinality(Allocated)
         /\ Cardinality(Allocated) <= Cardinality(Granted)
         /\ Cardinality(Granted) <= stepping
<1>1. /\ Finished \in SUBSET Allocated /\ Allocated \in SUBSET Granted
      /\ Granted \in SUBSET Started /\ Started \in SUBSET Calls
  BY DEF Finished, Allocated, Granted, Started
<1>2. /\ Cardinality(Finished) \in Nat /\ Cardinality(Allocated) \in Nat
      /\ Cardinality(Granted) \in Nat /\ Cardinality(Started) \in Nat
  BY <1>1, FiniteCalls
<1>3. /\ Cardinality(Finished) <= Cardinality(Allocated)
      /\ Cardinality(Allocated) <= Cardinality(Granted)
      /\ Cardinality(Granted) <= Cardinality(Started)
  BY <1>1, NotMore
<1>4. Cardinality(Granted) <= batch_
  BY BatchAssumption DEF CountInv, TypeOK
<1> QED
  BY <1>2, <1>3, <1>4, BatchAssumption DEF CountInv, TypeOK

\* Once everything is counted, every call that has quota is finished.
LEMMA AllFinished ==
  ASSUME TypeOK, CountInv, buf.done_count_ = batch_
  PROVE  /\ Granted = Finished /\ Allocated = Finished
         /\ stepping < batch_ => wpc \notin {"idle", "done"}
         /\ Cardinality(Finished) = stepping
<1>1. Cardinality(Finished) = stepping /\ (stepping < batch_ => wpc \notin {"idle", "done"})
  <2>1. /\ Cardinality(Finished) \in Nat /\ Cardinality(Finished) <= stepping
        /\ batch_ = Cardinality(Finished) + counted /\ stepping \in 0 .. batch_
    BY Counts DEF CountInv, TypeOK
  <2>2. counted = IF wpc \in {"idle", "done"} THEN 0 ELSE batch_ - stepping
    BY DEF counted, additional_done_count
  <2> QED
    BY <2>1, <2>2, BatchAssumption
<1>2. Finished \in SUBSET Granted /\ Allocated \in SUBSET Granted /\ Granted \in SUBSET Calls
      /\ Finished \in SUBSET Allocated
  BY DEF Finished, Allocated, Granted
<1>3. Finished = Granted
  <2>1. /\ Cardinality(Granted) \in Nat /\ Cardinality(Granted) <= stepping
        /\ Cardinality(Finished) <= Cardinality(Granted) /\ stepping \in Nat
    BY <1>2, Counts, NotMore DEF TypeOK
  <2> QED
    BY <1>1, <1>2, <2>1, NotMore
<1> QED
  BY <1>1, <1>2, <1>3

-----------------------------------------------------------------------------
(* The steps of the calls. *)

LEMMA CallAllocateStep ==
  ASSUME IInv, NEW c \in Calls, NEW n \in 1 .. max_num_players_, CallAllocate(c, n)
  PROVE  IInv'
<1> USE DEF IInv, TypeOK, CallAllocate, Goto
<1>1. TypeOK'
  OBVIOUS
<1>2. /\ Granted' = Granted /\ Allocated' = Allocated /\ Finished' = Finished
      /\ Filled' = Filled /\ Signalling' = Signalling /\ c \notin Allocated
      /\ c \notin Started /\ Started' = Started \cup {c}
  BY DEF Granted, Allocated, Finished, Filled, Signalling, Started
<1>3. CountInv'
  <2>1. Cardinality(Started') = Cardinality(Started) + 1
    BY <1>2, OneMore DEF Started
  <2>2. stepping < batch_ => Cardinality(Started) < stepping
    BY DEF MayCall
  <2>3. Cardinality(Started) \in Nat
    BY Counts
  <2> QED
    BY <1>2, <2>1, <2>2, <2>3 DEF CountInv, counted, additional_done_count
<1>4. SliceInv'
  BY <1>2 DEF SliceInv, PlayersOf, Allocated
<1>5. RowInv' /\ SignalInv' /\ RetInv'
  BY <1>2 DEF RowInv, SignalInv, RetInv, PlayersOf
<1> QED
  BY <1>1, <1>3, <1>4, <1>5

LEMMA TakeQuotaStep ==
  ASSUME IInv, NEW c \in Calls, TakeQuota(c)
  PROVE  IInv'
<1> USE DEF IInv, TypeOK, TakeQuota, Goto, CountAllocation
<1>1. TypeOK'
  OBVIOUS
<1>2. /\ Allocated' = Allocated /\ Finished' = Finished
      /\ Filled' = Filled /\ Signalling' = Signalling /\ Started' = Started
      /\ c \notin Granted /\ Granted' = Granted \cup {c} /\ Granted \in SUBSET Calls
  BY DEF Granted, Allocated, Finished, Filled, Signalling, Started
<1>3. CountInv'
  <2>1. Cardinality(Granted') = Cardinality(Granted) + 1
    BY <1>2, OneMore
  <2> QED
    BY <1>2, <2>1, BatchAssumption DEF CountInv, counted, additional_done_count, HasQuota
<1>4. SliceInv'
  BY <1>2 DEF SliceInv, PlayersOf
<1>5. RowInv' /\ SignalInv' /\ RetInv'
  BY <1>2 DEF RowInv, SignalInv, RetInv, PlayersOf
<1> QED
  BY <1>1, <1>3, <1>4, <1>5

LEMMA QuotaExhaustedStep ==
  ASSUME IInv, NEW c \in Calls, QuotaExhausted(c)
  PROVE  IInv'
<1> USE DEF IInv, TypeOK, QuotaExhausted, Goto, CountAllocation
<1>1. TypeOK'
  OBVIOUS
<1>2. /\ Allocated' = Allocated /\ Finished' = Finished /\ Granted' = Granted
      /\ Filled' = Filled /\ Signalling' = Signalling /\ Started' = Started
  BY DEF Granted, Allocated, Finished, Filled, Signalling, Started
<1>3. CountInv'
  <2>1. ~(buf.alloc_count_ < batch_) /\ buf'.alloc_count_ = buf.alloc_count_ + 1
    BY DEF HasQuota
  <2>2. /\ buf'.shared = buf.shared /\ buf'.done_count_ = buf.done_count_
        /\ buf.alloc_count_ \in Nat /\ UNCHANGED <<stepping, wpc>>
    OBVIOUS
  <2>3. counted' = counted
    BY <2>2 DEF counted, additional_done_count
  <2> HIDE DEF IInv, TypeOK, QuotaExhausted
  <2> QED
    BY <1>2, <2>1, <2>2, <2>3, BatchAssumption DEF IInv, CountInv
<1>4. SliceInv'
  BY <1>2 DEF SliceInv, PlayersOf
<1>5. RowInv' /\ SignalInv' /\ RetInv'
  BY <1>2 DEF RowInv, SignalInv, RetInv, PlayersOf
<1> QED
  BY <1>1, <1>3, <1>4, <1>5

LEMMA TakeOffsetsStep ==
  ASSUME IInv, NEW c \in Calls, TakeOffsets(c)
  PROVE  IInv'
<1> DEFINE np == num_players[c]
           s == [shared |-> buf.shared, player |-> buf.player, players |-> np]
           low == buf.shared * max_num_players_
           high == (buf.shared + 1) * max_num_players_
           all == batch_ * max_num_players_
<1>1. /\ pc[c] = "offset" /\ pc' = [pc EXCEPT ![c] = "fill"]
      /\ slice' = [slice EXCEPT ![c] = s]
      /\ buf' = [buf EXCEPT !.player = buf.player + np, !.shared = buf.shared + 1]
      /\ UNCHANGED <<stepping, num_players, wpc, ret>>
  BY DEF TakeOffsets, Goto, SliceFor, RowFor, AdvanceOffsets, increment, NoOrder
<1>2. /\ Granted' = Granted /\ Finished' = Finished /\ Started' = Started
      /\ Filled' = Filled /\ Signalling' = Signalling
      /\ c \notin Allocated /\ Allocated' = Allocated \cup {c} /\ Allocated \in SUBSET Calls
      /\ c \in Granted /\ Allocated \in SUBSET Granted /\ Granted \in SUBSET Calls
      /\ c \notin Filled /\ Filled \in SUBSET Allocated
  BY <1>1 DEF IInv, TypeOK, Granted, Allocated, Finished, Filled, Signalling, Started
<1>3. np \in 1 .. max_num_players_ /\ batch_ \in Nat \ {0} /\ max_num_players_ \in Nat \ {0}
  BY BatchAssumption DEF IInv, TypeOK
<1>4. Cardinality(Allocated') = Cardinality(Allocated) + 1
  BY <1>2, OneMore
<1>5. buf.shared \in 0 .. batch_ - 1
  <2>1. /\ buf.shared = Cardinality(Allocated) /\ stepping <= batch_
        /\ Cardinality(Allocated) \in Nat /\ Cardinality(Granted) \in Nat /\ stepping \in Nat
        /\ Cardinality(Allocated) <= Cardinality(Granted) /\ Cardinality(Granted) <= stepping
    BY Counts DEF IInv, CountInv, TypeOK
  <2>2. Cardinality(Allocated) # Cardinality(Granted)
    BY <1>2, NotMore
  <2> QED
    BY <1>3, <2>1, <2>2
<1>6. /\ high = low + max_num_players_ /\ high <= all
      /\ low \in Nat /\ high \in Nat /\ all \in Nat
  <2>1. high = low + max_num_players_
    BY <1>3, <1>5
  <2>2. high <= all
    BY <1>3, <1>5
  <2>3. low \in Nat /\ high \in Nat /\ all \in Nat
    BY <1>3, <1>5
  <2> QED
    BY <2>1, <2>2, <2>3
<1>7. /\ buf'.shared = buf.shared + 1 /\ buf'.player = buf.player + np
      /\ buf'.row = buf.row /\ buf'.prow = buf.prow /\ buf'.sem_ = buf.sem_
      /\ buf'.done_count_ = buf.done_count_ /\ buf'.alloc_count_ = buf.alloc_count_
      /\ \A d \in Allocated : slice'[d] = slice[d] /\ d # c
      /\ slice'[c] = s
  BY <1>1, <1>2 DEF IInv, TypeOK
<1>8. buf.player \in Nat /\ buf.player <= low
  BY <1>6 DEF IInv, SliceInv, TypeOK
<1>9. TypeOK'
  <2> HIDE DEF low, high, all
  <2>1. buf.player \in 0 .. all - 1 /\ buf.player + np \in 0 .. all
    BY <1>3, <1>6, <1>8
  <2>2. buf.shared + 1 \in 0 .. batch_ /\ buf.shared \in Rows
    BY <1>3, <1>5 DEF Rows
  <2>3. buf' \in [alloc_count_ : Nat, player : 0 .. all, shared : 0 .. batch_,
                  done_count_ : 0 .. batch_, sem_ : {0, 1},
                  row : [Rows -> Calls \cup {Nobody}], prow : [PlayerRows -> Calls \cup {Nobody}]]
    BY <1>1, <2>1, <2>2 DEF IInv, TypeOK, all
  <2>4. s \in [shared : Rows, player : PlayerRows, players : 0 .. max_num_players_]
    BY <1>3, <2>1, <2>2 DEF PlayerRows, all
  <2> QED
    BY <1>1, <2>3, <2>4 DEF IInv, TypeOK, all
<1>10. CountInv'
  BY <1>1, <1>2, <1>4, <1>7 DEF IInv, CountInv, counted, additional_done_count
<1>11. SliceInv'
  <2>1. \A d \in Allocated :
          slice[d].shared \in Nat /\ slice[d].player \in Nat /\ slice[d].players \in Nat
    BY <1>2 DEF IInv, TypeOK, Rows, PlayerRows
  <2>2. buf'.player <= buf'.shared * max_num_players_
    <3>1. buf.player + np <= high
      <4> HIDE DEF low, high
      <4> QED
        BY <1>3, <1>6, <1>8
    <3> QED
      BY <1>7, <3>1
  <2>3. \A d \in Allocated' :
          /\ slice'[d].players = num_players'[d]
          /\ slice'[d].shared < buf'.shared
          /\ slice'[d].player + slice'[d].players <= buf'.player
    BY <1>1, <1>2, <1>3, <1>5, <1>7, <1>8, <2>1 DEF IInv, SliceInv
  <2>4. \A d, e \in Allocated' :
       /\ slice'[d].shared = slice'[e].shared => d = e
       /\ slice'[d].shared < slice'[e].shared =>
            slice'[d].player + slice'[d].players <= slice'[e].player
    BY <1>2, <1>3, <1>5, <1>7, <1>8, <2>1 DEF IInv, SliceInv
  <2>5. \A r \in 0 .. buf'.shared - 1 : \E d \in Allocated' : slice'[d].shared = r
    <3> SUFFICES ASSUME NEW r \in 0 .. buf.shared
                 PROVE  \E d \in Allocated' : slice'[d].shared = r
      BY <1>5, <1>7
    <3>1. CASE r = buf.shared
      BY <1>2, <1>7, <3>1
    <3>2. CASE r \in 0 .. buf.shared - 1
      BY <1>2, <1>7, <3>2 DEF IInv, SliceInv
    <3> QED
      BY <1>5, <3>1, <3>2
  <2>6. \A r \in 0 .. buf'.player - 1 : \E d \in Allocated' : r \in PlayersOf(slice'[d])
    <3> SUFFICES ASSUME NEW r \in 0 .. buf.player + np - 1
                 PROVE  \E d \in Allocated' : r \in PlayersOf(slice'[d])
      <4>1. buf'.player - 1 = buf.player + np - 1
        <5>1. buf'.player = buf.player + np /\ buf.player \in Nat /\ np \in Nat
          BY <1>3, <1>7, <1>8
        <5> QED
          BY <5>1
      <4> QED
        BY <4>1
    <3>1. CASE r \in 0 .. buf.player - 1
      BY <1>2, <1>7, <3>1 DEF IInv, SliceInv
    <3>2. CASE r \in buf.player .. buf.player + np - 1
      BY <1>2, <1>7, <3>2 DEF PlayersOf
    <3> QED
      BY <1>3, <1>8, <3>1, <3>2
  <2> QED
    BY <2>2, <2>3, <2>4, <2>5, <2>6 DEF SliceInv
<1>12. RowInv'
  BY <1>2, <1>7 DEF IInv, RowInv
<1>13. SignalInv'
  BY <1>1, <1>2, <1>7 DEF IInv, SignalInv
<1>14. RetInv'
  <2>1. wpc = "returned" => buf.done_count_ = batch_
    BY DEF IInv, SignalInv
  <2>2. buf.done_count_ = batch_ => Granted = Allocated
    BY AllFinished DEF IInv
  <2> QED
    BY <1>1, <1>2, <2>1, <2>2 DEF RetInv
<1> QED
  BY <1>9, <1>10, <1>11, <1>12, <1>13, <1>14 DEF IInv

\* The slices lie in the arrays ...
LEMMA SlicesInArrays ==
  ASSUME TypeOK, SliceInv, NEW c \in Allocated
  PROVE  /\ slice[c].shared \in Rows /\ slice[c].player \in Nat /\ slice[c].players \in Nat
         /\ PlayersOf(slice[c]) \subseteq PlayerRows
<1> DEFINE all == batch_ * max_num_players_
<1>1. all \in Nat /\ buf.player \in 0 .. all
  BY BatchAssumption DEF TypeOK
<1>2. c \in Calls
  BY DEF Allocated
<1>3. /\ slice[c].shared \in Rows /\ slice[c].player \in PlayerRows
      /\ slice[c].players \in Nat /\ slice[c].player + slice[c].players <= buf.player
  BY <1>2, BatchAssumption DEF TypeOK, SliceInv
<1>4. PlayerRows = 0 .. all - 1
  BY DEF PlayerRows
<1> HIDE DEF all
<1>5. slice[c].player \in Nat
  BY <1>1, <1>3, <1>4
<1>6. slice[c].player .. slice[c].player + slice[c].players - 1 \subseteq 0 .. all - 1
  BY <1>1, <1>3, <1>5
<1> QED
  BY <1>3, <1>4, <1>5, <1>6 DEF PlayersOf

\* ... and apart.
LEMMA SlicesApart ==
  ASSUME TypeOK, SliceInv, NEW c \in Allocated, NEW d \in Allocated, c # d
  PROVE  /\ slice[c].shared # slice[d].shared
         /\ PlayersOf(slice[c]) \cap PlayersOf(slice[d]) = {}
<1>1. /\ slice[c].shared \in Nat /\ slice[d].shared \in Nat
      /\ slice[c].player \in Nat /\ slice[d].player \in Nat
      /\ slice[c].players \in Nat /\ slice[d].players \in Nat
  BY SlicesInArrays DEF Rows
<1>2. /\ slice[c].shared # slice[d].shared
      /\ slice[c].shared < slice[d].shared =>
           slice[c].player + slice[c].players <= slice[d].player
      /\ slice[d].shared < slice[c].shared =>
           slice[d].player + slice[d].players <= slice[c].player
  BY DEF SliceInv
<1> QED
  BY <1>1, <1>2 DEF PlayersOf

LEMMA FillStep ==
  ASSUME IInv, NEW c \in Calls, Fill(c)
  PROVE  IInv'
<1> USE DEF IInv, TypeOK, Fill, Goto, FillSlice
<1>1. TypeOK'
  <2>1. /\ [r \in Rows |-> IF r = slice[c].shared THEN c ELSE buf.row[r]]
             \in [Rows -> Calls \cup {Nobody}]
        /\ [r \in PlayerRows |-> IF r \in PlayersOf(slice[c]) THEN c ELSE buf.prow[r]]
             \in [PlayerRows -> Calls \cup {Nobody}]
    OBVIOUS
  <2> QED
    BY <2>1
<1>2. /\ Granted' = Granted /\ Allocated' = Allocated /\ Finished' = Finished
      /\ Signalling' = Signalling /\ Started' = Started
      /\ c \in Allocated /\ Filled' = Filled \cup {c} /\ Filled \in SUBSET Allocated
      /\ c \notin Filled
  BY DEF Granted, Allocated, Finished, Filled, Signalling, Started
<1>3. /\ buf'.shared = buf.shared /\ buf'.player = buf.player /\ buf'.sem_ = buf.sem_
      /\ buf'.done_count_ = buf.done_count_ /\ buf'.alloc_count_ = buf.alloc_count_
      /\ \A r \in Rows : buf'.row[r] = IF r = slice[c].shared THEN c ELSE buf.row[r]
      /\ \A r \in PlayerRows :
           buf'.prow[r] = IF r \in PlayersOf(slice[c]) THEN c ELSE buf.prow[r]
  OBVIOUS
<1>4. CountInv'
  BY <1>2, <1>3 DEF CountInv, counted, additional_done_count
<1>5. SliceInv'
  BY <1>2, <1>3 DEF SliceInv, PlayersOf
<1>6. RowInv'
  <2>1. \A d \in Allocated : slice[d].shared \in Rows /\ PlayersOf(slice[d]) \subseteq PlayerRows
    BY SlicesInArrays
  <2>2. \A d \in Allocated \ {c} :
          /\ slice[d].shared # slice[c].shared
          /\ PlayersOf(slice[d]) \cap PlayersOf(slice[c]) = {}
    BY <1>2, SlicesApart
  <2> QED
    BY <1>2, <1>3, <2>1, <2>2 DEF RowInv
<1>7. SignalInv' /\ RetInv'
  BY <1>2, <1>3 DEF SignalInv, RetInv
<1> QED
  BY <1>1, <1>4, <1>5, <1>6, <1>7

LEMMA CallDoneStep ==
  ASSUME IInv, NEW c \in Calls, CallDone(c)
  PROVE  IInv'
<1> USE DEF IInv, TypeOK, CallDone, Goto, CountDone, Completes
<1>1. /\ Granted' = Granted /\ Allocated' = Allocated /\ Started' = Started
      /\ Filled' = Filled /\ c \notin Finished /\ Finished' = Finished \cup {c}
      /\ Finished \in SUBSET Allocated /\ c \in Allocated /\ Allocated \in SUBSET Calls
      /\ Signalling' = (IF buf.done_count_ + 1 = batch_ THEN Signalling \cup {c} ELSE Signalling)
  BY DEF Granted, Allocated, Finished, Filled, Signalling, Started
<1>2. Cardinality(Finished') = Cardinality(Finished) + 1
  BY <1>1, OneMore
<1>3. buf.done_count_ + 1 <= batch_ /\ buf.done_count_ \in Nat /\ batch_ \in Nat \ {0}
  <2>1. Cardinality(Finished') <= Cardinality(Allocated)
    BY <1>1, NotMore
  <2> QED
    BY <1>2, <2>1, Counts, BatchAssumption DEF CountInv, counted, additional_done_count
<1>4. TypeOK'
  BY <1>3
<1>5. buf'.done_count_ = buf.done_count_ + 1 /\ buf'.sem_ = buf.sem_
  OBVIOUS
<1>6. CountInv'
  <2>1. counted' = counted /\ counted \in Int
    BY BatchAssumption DEF counted, additional_done_count
  <2> QED
    BY <1>1, <1>2, <1>5, <2>1, Counts DEF CountInv
<1>7. SliceInv' /\ RowInv' /\ RetInv'
  BY <1>1 DEF SliceInv, RowInv, RetInv, PlayersOf
<1>8. SignalInv'
  BY <1>1, <1>3, <1>5 DEF SignalInv
<1> QED
  BY <1>4, <1>6, <1>7, <1>8

LEMMA SignalStep ==
  ASSUME IInv, NEW c \in Calls, Signal(c)
  PROVE  IInv'
<1> USE DEF IInv, TypeOK, Signal, Goto, SignalBuffer
<1>1. /\ Granted' = Granted /\ Allocated' = Allocated /\ Started' = Started
      /\ Filled' = Filled /\ Finished' = Finished
      /\ c \in Signalling /\ Signalling' = Signalling \ {c}
  BY DEF Granted, Allocated, Finished, Filled, Signalling, Started
<1>2. buf.sem_ = 0 /\ wpc \notin {"signal", "compact", "returned"} /\ Signalling = {c}
  BY <1>1 DEF SignalInv
<1>3. TypeOK'
  <2>1. buf' = [buf EXCEPT !.sem_ = 1]
    BY <1>2
  <2> QED
    BY <2>1
<1>4. CountInv'
  BY <1>1 DEF CountInv, counted, additional_done_count
<1>5. SliceInv' /\ RowInv' /\ RetInv'
  BY <1>1 DEF SliceInv, RowInv, RetInv, PlayersOf
<1>6. SignalInv'
  BY <1>1, <1>2 DEF SignalInv
<1> QED
  BY <1>3, <1>4, <1>5, <1>6

LEMMA CompareStep ==
  ASSUME IInv, NEW c \in Calls, Compare(c)
  PROVE  IInv'
<1> USE DEF IInv, TypeOK, Compare, Goto
<1>1. /\ Granted' = Granted /\ Allocated' = Allocated /\ Started' = Started
      /\ Filled' = Filled /\ Finished' = Finished /\ Signalling' = Signalling
  BY DEF Granted, Allocated, Finished, Filled, Signalling, Started
<1>2. TypeOK'
  OBVIOUS
<1>3. CountInv' /\ SliceInv' /\ RowInv' /\ SignalInv' /\ RetInv'
  BY <1>1 DEF CountInv, counted, additional_done_count, SliceInv, RowInv, SignalInv, RetInv, PlayersOf
<1> QED
  BY <1>2, <1>3

-----------------------------------------------------------------------------
(* The steps of the waiter. *)

\* They leave the calls alone.
LEMMA WaiterLeavesCalls ==
  ASSUME UNCHANGED <<pc, num_players, slice>>
  PROVE  /\ Granted' = Granted /\ Allocated' = Allocated /\ Started' = Started
         /\ Filled' = Filled /\ Finished' = Finished /\ Signalling' = Signalling
BY DEF Granted, Allocated, Finished, Filled, Signalling, Started

LEMMA WaiterStepInv ==
  ASSUME IInv, WaiterStep
  PROVE  IInv'
<1> USE DEF IInv, TypeOK
<1>1. stepping \in 0 .. batch_ /\ batch_ \in Nat \ {0}
  BY BatchAssumption
<1>2. CASE CallWait
  <2> USE <1>2 DEF CallWait
  <2>1. counted' = counted
    BY <1>1 DEF counted, additional_done_count
  <2> QED
    BY <1>1, <2>1, WaiterLeavesCalls
    DEF CountInv, SliceInv, RowInv, SignalInv, RetInv, PlayersOf, additional_done_count
<1>3. CASE WaiterDone
  <2> USE <1>3 DEF WaiterDone, CountDone, Completes
  <2>1. counted = 0 /\ counted' = batch_ - stepping /\ stepping < batch_
    BY DEF counted, additional_done_count, CountInv
  <2>2. buf.done_count_ + (batch_ - stepping) <= batch_ /\ buf.done_count_ < batch_
    BY <1>1, <2>1, Counts DEF CountInv
  <2>3. buf'.done_count_ = buf.done_count_ + (batch_ - stepping) /\ buf'.sem_ = buf.sem_
    BY DEF additional_done_count
  <2>4. TypeOK'
    BY <1>1, <2>2, <2>3 DEF additional_done_count
  <2>5. CountInv'
    BY <1>1, <2>1, <2>3, WaiterLeavesCalls, Counts DEF CountInv
  <2>6. SliceInv' /\ RowInv' /\ RetInv'
    BY WaiterLeavesCalls DEF SliceInv, RowInv, RetInv, PlayersOf
  <2>7. SignalInv'
    BY <1>1, <2>2, <2>3, WaiterLeavesCalls DEF SignalInv, additional_done_count
  <2> QED
    BY <2>4, <2>5, <2>6, <2>7
<1>4. CASE WaiterSignal
  <2> USE <1>4 DEF WaiterSignal, SignalBuffer
  <2>1. Signalling = {} /\ buf.sem_ = 0
    BY DEF SignalInv
  <2>2. TypeOK'
    <3>1. buf' = [buf EXCEPT !.sem_ = 1]
      BY <2>1
    <3> QED
      BY <3>1
  <2>3. CountInv' /\ SliceInv' /\ RowInv' /\ RetInv'
    BY WaiterLeavesCalls
    DEF CountInv, counted, additional_done_count, SliceInv, RowInv, RetInv, PlayersOf
  <2>4. SignalInv'
    BY <2>1, WaiterLeavesCalls DEF SignalInv
  <2> QED
    BY <2>2, <2>3, <2>4
<1>5. CASE WaitSem
  <2> USE <1>5 DEF WaitSem
  <2>1. Signalling = {} /\ buf.sem_ = 1
    BY DEF SignalInv
  <2>2. TypeOK'
    <3>1. buf' = [buf EXCEPT !.sem_ = 0]
      BY <2>1
    <3> QED
      BY <3>1
  <2>3. CountInv' /\ SliceInv' /\ RowInv' /\ RetInv'
    BY WaiterLeavesCalls
    DEF CountInv, counted, additional_done_count, SliceInv, RowInv, RetInv, PlayersOf
  <2>4. SignalInv'
    BY <2>1, WaiterLeavesCalls DEF SignalInv
  <2> QED
    BY <2>2, <2>3, <2>4
<1>6. CASE Compact
  <2> USE <1>6 DEF Compact
  <2>1. TypeOK'
    OBVIOUS
  <2>2. CountInv' /\ SliceInv' /\ RowInv' /\ RetInv'
    BY WaiterLeavesCalls
    DEF CountInv, counted, additional_done_count, SliceInv, RowInv, RetInv, PlayersOf
  <2>3. SignalInv'
    BY WaiterLeavesCalls DEF SignalInv
  <2> QED
    BY <2>1, <2>2, <2>3
<1> QED
  BY <1>2, <1>3, <1>4, <1>5, <1>6 DEF WaiterStep

-----------------------------------------------------------------------------
(* The theorems. *)

LEMMA InitInv == Init => IInv
<1> SUFFICES ASSUME Init PROVE IInv
  OBVIOUS
<1> USE DEF Init, FreshBuffer, NoSlice
<1>1. batch_ \in Nat \ {0} /\ max_num_players_ \in Nat \ {0}
  BY BatchAssumption
<1>2. batch_ * max_num_players_ \in Nat \ {0}
  BY <1>1
<1>3. /\ Granted = {} /\ Allocated = {} /\ Started = {} /\ Finished = {}
      /\ Filled = {} /\ Signalling = {}
  BY DEF Granted, Allocated, Started, Finished, Filled, Signalling
<1>4. TypeOK
  <2> DEFINE all == batch_ * max_num_players_
  <2>1. all \in Nat \ {0}
    BY <1>2
  <2> HIDE DEF all
  <2>2. 0 \in 0 .. all - 1 /\ 0 \in 0 .. all /\ 0 \in 0 .. batch_ - 1 /\ 0 \in 0 .. batch_
        /\ 1 \in 1 .. max_num_players_ /\ 1 \in 0 .. max_num_players_
    BY <1>1, <2>1
  <2>3. buf \in [alloc_count_ : Nat, player : 0 .. all, shared : 0 .. batch_,
                 done_count_ : 0 .. batch_, sem_ : {0, 1},
                 row : [Rows -> Calls \cup {Nobody}], prow : [PlayerRows -> Calls \cup {Nobody}]]
    BY <2>2
  <2>4. NoSlice \in [shared : Rows, player : PlayerRows, players : 0 .. max_num_players_]
    BY <1>1, <2>2 DEF Rows, PlayerRows, all
  <2>5. ret \in [player : 0 .. all, shared : 0 .. batch_]
    BY <2>2
  <2> QED
    BY <1>1, <2>2, <2>3, <2>4, <2>5 DEF TypeOK, all
<1>5. CountInv
  BY <1>1, <1>3, FS_EmptySet DEF CountInv, counted
<1>6. SliceInv /\ RowInv /\ SignalInv /\ RetInv
  BY <1>1, <1>3 DEF SliceInv, RowInv, SignalInv, RetInv
<1> QED
  BY <1>4, <1>5, <1>6 DEF IInv

LEMMA StepInv == IInv /\ [Next]_vars => IInv'
<1> SUFFICES ASSUME IInv, [Next]_vars PROVE IInv'
  OBVIOUS
<1>1. ASSUME NEW c \in Calls, NEW n \in 1 .. max_num_players_, CallAllocate(c, n) PROVE IInv'
  BY <1>1, CallAllocateStep
<1>2. ASSUME NEW c \in Calls, CallStep(c) PROVE IInv'
  BY <1>2, TakeQuotaStep, QuotaExhaustedStep, TakeOffsetsStep, FillStep, CallDoneStep, SignalStep,
     CompareStep
  DEF CallStep
<1>3. CASE WaiterStep
  BY <1>3, WaiterStepInv
<1>4. CASE UNCHANGED vars
  BY <1>4, WaiterLeavesCalls
  DEF vars, IInv, TypeOK, CountInv, counted, additional_done_count, SliceInv, RowInv, SignalInv,
      RetInv, PlayersOf
<1> QED
  BY <1>1, <1>2, <1>3, <1>4 DEF Next

\* Every reachable state of a buffer satisfies the invariant.
THEOREM Invariance == Spec => []IInv
BY InitInv, StepInv, PTL DEF Spec

\* The counters of the buffer stay within its batch; in particular the packed
\* halves of offsets_ never carry into each other.
THEOREM TypeCorrect == Spec => []TypeOK
<1>1. IInv => TypeOK
  BY DEF IInv
<1> QED
  BY <1>1, Invariance, PTL

\* Callers of Allocate, however many and however interleaved, never share a
\* row of either array and never leave the arrays.
THEOREM SlicesDisjointCorrect == Spec => []SlicesDisjoint
<1>1. IInv => SlicesDisjoint
  BY SlicesInArrays, SlicesApart DEF IInv, SlicesDisjoint
<1> QED
  BY <1>1, Invariance, PTL

\* When sem_.wait() has returned, everybody who was given a slice has written it
\* and counted it.
THEOREM NoWriterLeftCorrect == Spec => []NoWriterLeft
<1>1. IInv => NoWriterLeft
  <2>1. IInv /\ wpc \in {"compact", "returned"} => Granted = Finished
    BY AllFinished DEF IInv, SignalInv
  <2> QED
    BY <2>1 DEF NoWriterLeft
<1> QED
  BY <1>1, Invariance, PTL

\* The arrays that Wait returns are full: as many rows as envs were stepping,
\* each written by the call whose slice it is, and so the rows of players.
THEOREM BatchCompleteCorrect == Spec => []BatchComplete
<1>1. IInv => BatchComplete
  <2> SUFFICES ASSUME IInv, wpc = "returned"
               PROVE  /\ ret.shared = stepping
                      /\ \A r \in 0 .. ret.shared - 1 :
                           \E c \in Allocated : slice[c].shared = r /\ buf.row[r] = c
                      /\ \A r \in 0 .. ret.player - 1 :
                           \E c \in Allocated : r \in PlayersOf(slice[c]) /\ buf.prow[r] = c
    BY DEF BatchComplete
  <2>1. Allocated = Finished /\ Cardinality(Finished) = stepping
    BY AllFinished DEF IInv, SignalInv
  <2>2. buf.shared = stepping /\ ret.shared = buf.shared /\ ret.player = buf.player
    BY <2>1 DEF IInv, CountInv, RetInv
  <2>3. Allocated \subseteq Filled
    BY <2>1 DEF Finished, Filled
  <2> QED
    BY <2>2, <2>3 DEF IInv, SliceInv, RowInv
<1> QED
  BY <1>1, Invariance, PTL

-----------------------------------------------------------------------------
(* The players of a returned batch. *)

\* A rotated sequence: where each element comes from.
LEMMA RotatedFacts ==
  ASSUME NEW X, NEW s \in Seq(X), NEW n \in 0 .. Len(s)
  PROVE  /\ Len(Rotated(s, n)) = Len(s) /\ DOMAIN Rotated(s, n) = 1 .. Len(s)
         /\ \A k \in 1 .. Len(s) :
              Rotated(s, n)[k] = s[IF k <= Len(s) - n THEN k + n ELSE k - (Len(s) - n)]
<1> DEFINE front == SubSeq(s, n + 1, Len(s))
           back == SubSeq(s, 1, n)
<1>1. Len(s) \in Nat /\ n \in Nat /\ n <= Len(s)
  OBVIOUS
<1>2. /\ front \in Seq(X) /\ Len(front) = Len(s) - n
      /\ \A k \in 1 .. Len(s) - n : front[k] = s[k + n]
  <2>1. \A k \in n + 1 .. Len(s) : s[k] \in X
    BY <1>1
  <2> QED
    BY <1>1, <2>1
<1>3. back \in Seq(X) /\ Len(back) = n /\ \A k \in 1 .. n : back[k] = s[k]
  <2>1. \A k \in 1 .. n : s[k] \in X
    BY <1>1
  <2> QED
    BY <1>1, <2>1
<1> HIDE DEF front, back
<1>4. /\ Len(front \o back) = Len(s) /\ DOMAIN (front \o back) = 1 .. Len(s)
      /\ \A k \in 1 .. Len(s) - n : (front \o back)[k] = front[k]
      /\ \A k \in Len(s) - n + 1 .. Len(s) : (front \o back)[k] = back[k - (Len(s) - n)]
  BY <1>1, <1>2, <1>3
<1>5. Rotated(s, n) = front \o back
  BY DEF Rotated, front, back
<1>6. ASSUME NEW k \in 1 .. Len(s)
      PROVE  Rotated(s, n)[k] = s[IF k <= Len(s) - n THEN k + n ELSE k - (Len(s) - n)]
  <2>1. CASE k <= Len(s) - n
    BY <1>1, <1>2, <1>4, <1>5, <2>1
  <2>2. CASE ~(k <= Len(s) - n)
    <3>1. k \in Len(s) - n + 1 .. Len(s) /\ k - (Len(s) - n) \in 1 .. n
      BY <1>1, <2>2
    <3> QED
      BY <1>3, <1>4, <1>5, <2>2, <3>1
  <2> QED
    BY <2>1, <2>2
<1> QED
  BY <1>4, <1>5, <1>6

\* In a returned batch the rows up to the truncation point that an env wrote are
\* the rows of its slice.
LEMMA PlayerRowsOfEnv ==
  ASSUME IInv, wpc = "returned", NEW c \in Allocated
  PROVE  /\ slice[c].player \in Nat /\ slice[c].players \in 1 .. max_num_players_
         /\ slice[c].player + slice[c].players <= ret.player /\ ret.player \in Nat
         /\ \A r \in 0 .. ret.player - 1 :
              buf.prow[r] \in Calls \cup {Nobody} /\ (buf.prow[r] = c <=> r \in PlayersOf(slice[c]))
<1>1. Allocated = Finished /\ ret.player = buf.player
  BY AllFinished DEF IInv, SignalInv, RetInv
<1>2. Allocated \subseteq Filled /\ Allocated \subseteq Calls
  BY <1>1 DEF Finished, Filled, Allocated
<1>3. /\ slice[c].player \in Nat /\ slice[c].players = num_players[c]
      /\ slice[c].player + slice[c].players <= ret.player
  BY <1>1, SlicesInArrays DEF IInv, SliceInv
<1>4. num_players[c] \in 1 .. max_num_players_
  BY <1>2 DEF IInv, TypeOK
<1>5. ret.player \in 0 .. batch_ * max_num_players_
  BY DEF IInv, TypeOK
<1>6. batch_ * max_num_players_ \in Nat
  BY BatchAssumption
<1>7. ASSUME NEW r \in 0 .. ret.player - 1
      PROVE  buf.prow[r] \in Calls \cup {Nobody} /\ (buf.prow[r] = c <=> r \in PlayersOf(slice[c]))
  <2>1. PICK d \in Allocated : r \in PlayersOf(slice[d])
    BY <1>1 DEF IInv, SliceInv
  <2>2. buf.prow[r] = d /\ d \in Calls
    BY <1>2, <2>1 DEF IInv, RowInv
  <2>3. d # c => r \notin PlayersOf(slice[c])
    BY <2>1, SlicesApart DEF IInv
  <2> QED
    BY <2>1, <2>2, <2>3
<1> QED
  BY <1>3, <1>4, <1>5, <1>6, <1>7

\* Wherever the answer starts, it has a row for each player of an env.
LEMMA PlayersCounted ==
  ASSUME IInv, wpc = "returned", NEW c \in Allocated, NEW n \in 0 .. ret.player,
         NEW S, S = {k \in DOMAIN Rotated(players_env_id, n) : Rotated(players_env_id, n)[k] = c}
  PROVE  /\ S \in SUBSET Int /\ IsFiniteSet(S) /\ Cardinality(S) = slice[c].players
<1> DEFINE batch == Rotated(players_env_id, n)
           P == ret.player
           from(k) == IF k <= P - n THEN k + n ELSE k - (P - n)
           back(r) == IF r + 1 > n THEN r + 1 - n ELSE r + 1 + (P - n)
           f == [k \in S |-> from(k) - 1]
           T == PlayersOf(slice[c])
<1>1. /\ slice[c].player \in Nat /\ slice[c].players \in 1 .. max_num_players_
      /\ slice[c].player + slice[c].players <= P /\ P \in Nat /\ n \in Nat /\ n <= P
      /\ \A r \in 0 .. P - 1 :
           buf.prow[r] \in Calls \cup {Nobody} /\ (buf.prow[r] = c <=> r \in T)
  BY PlayerRowsOfEnv
<1>2. players_env_id \in Seq(Calls \cup {Nobody}) /\ Len(players_env_id) = P
  BY <1>1 DEF players_env_id
<1>3. /\ DOMAIN batch = 1 .. P
      /\ \A k \in 1 .. P : batch[k] = players_env_id[from(k)]
  BY <1>2, RotatedFacts
<1>4. \A k \in 1 .. P : from(k) \in 1 .. P /\ batch[k] = buf.prow[from(k) - 1]
  BY <1>1, <1>3 DEF players_env_id
<1>5. S = {k \in 1 .. P : batch[k] = c}
  BY <1>3
<1>6. S \in SUBSET (1 .. P)
  BY <1>5
<1>7. IsFiniteSet(S) /\ S \in SUBSET Int
  <2>1. IsFiniteSet(1 .. P)
    BY <1>1, FS_Interval
  <2>2. IsFiniteSet(S)
    BY <1>6, <2>1, FS_Subset
  <2> QED
    BY <1>1, <1>6, <2>2
<1>8. f \in Bijection(S, T)
  <2>1. ASSUME NEW k \in S PROVE f[k] \in T
    <3>1. k \in 1 .. P /\ from(k) - 1 \in 0 .. P - 1 /\ buf.prow[from(k) - 1] = c
      BY <1>1, <1>4, <1>5
    <3> QED
      BY <1>1, <3>1
  <2>2. ASSUME NEW j \in S, NEW k \in S, f[j] = f[k] PROVE j = k
    <3>1. j \in 1 .. P /\ k \in 1 .. P /\ from(j) - 1 = from(k) - 1
      BY <1>5, <2>2
    <3> QED
      BY <1>1, <3>1
  <2>3. ASSUME NEW r \in T PROVE \E k \in S : f[k] = r
    <3>1. r \in 0 .. P - 1
      BY <1>1 DEF PlayersOf
    <3>2. back(r) \in 1 .. P /\ from(back(r)) - 1 = r
      BY <1>1, <3>1
    <3>3. batch[back(r)] = c
      BY <1>1, <1>4, <3>1, <3>2
    <3> HIDE DEF back
    <3>4. back(r) \in S
      BY <1>5, <3>2, <3>3
    <3> QED
      BY <3>2, <3>4
  <2> HIDE DEF f, T
  <2>4. f \in [S -> T]
    BY <2>1 DEF f
  <2> QED
    BY <2>2, <2>3, <2>4 DEF Bijection, Injection, Surjection, IsInjective
<1>9. Cardinality(T) = slice[c].players
  <2> DEFINE a == slice[c].player
             b == slice[c].player + slice[c].players - 1
  <2>1. a \in Int /\ b \in Int /\ ~(a > b) /\ b - a + 1 = slice[c].players
    BY <1>1
  <2>2. T = a .. b
    BY DEF PlayersOf
  <2> HIDE DEF a, b
  <2> QED
    BY <2>1, <2>2, FS_Interval
<1> QED
  BY <1>7, <1>8, <1>9, FS_Bijection DEF ExistsBijection

\* What ParseAction picks are the rows of the env, each once and in order.
LEMMA ParsedFacts ==
  ASSUME NEW X, NEW batch \in Seq(X), NEW c, NEW S, S = {k \in DOMAIN batch : batch[k] = c},
         NEW p \in Nat \ {0}, Cardinality(S) = p, max_num_players_ = 1 => p = 1,
         NEW env_index \in EnvRows(batch, c), NEW parsed, parsed = ParseAction(batch, c, env_index)
  PROVE  /\ Len(parsed) = p
         /\ \A k \in DOMAIN parsed : batch[parsed[k]] = c
         /\ \A k \in 1 .. Len(parsed) - 1 : parsed[k] < parsed[k + 1]
<1> DEFINE index == Sorted(S)
<1>1. S \in SUBSET Int /\ IsFiniteSet(S) /\ env_index \in Int
  <2>1. DOMAIN batch = 1 .. Len(batch) /\ Len(batch) \in Nat
    OBVIOUS
  <2>2. S \in SUBSET (1 .. Len(batch)) /\ IsFiniteSet(1 .. Len(batch))
    BY <2>1, FS_Interval
  <2> QED
    BY <2>1, <2>2, FS_Subset DEF EnvRows
<1>2. /\ index \in [1 .. p -> S] /\ \A x \in S : \E k \in 1 .. p : index[k] = x
      /\ \A j, k \in 1 .. p : j < k => index[j] < index[k]
  BY <1>1, SortedFacts
<1>3. \A k \in 1 .. p : index[k] \in Int /\ index[k] \in S /\ batch[index[k]] = c
  BY <1>1, <1>2
<1>4. env_player_index(batch, c) = index
  BY DEF env_player_index
<1> HIDE DEF index
<1>5. index \in Seq(S) /\ Len(index) = p /\ Head(index) = index[1] /\ Last(index) = index[p]
  BY <1>2 DEF Last
<1>6. CASE max_num_players_ = 1
  <2>1. parsed = Slice(env_index, env_index + 1) /\ batch[env_index] = c
    BY <1>6 DEF ParseAction, EnvRows
  <2>2. parsed = [k \in 1 .. 1 |-> env_index]
    BY <1>1, <2>1 DEF Slice
  <2> QED
    BY <1>6, <2>1, <2>2
<1>7. CASE max_num_players_ # 1 /\ continuous(index)
  <2> DEFINE low == index[1]
             high == index[p]
  <2>1. low \in Int /\ high \in Int /\ p = high + 1 - low /\ 1 \in 1 .. p /\ p \in 1 .. p
    BY <1>3, <1>5, <1>7 DEF continuous
  <2>2. parsed = [k \in 1 .. p |-> low + k - 1]
    BY <1>4, <1>5, <1>7, <2>1 DEF ParseAction, Slice
  <2>3. S \in SUBSET (low .. high)
    <3> SUFFICES ASSUME NEW x \in S PROVE x \in low .. high
      OBVIOUS
    <3>1. PICK k \in 1 .. p : index[k] = x
      BY <1>2
    <3>2. 1 < k => low < x
      BY <1>2, <2>1, <3>1
    <3>3. k < p => x < high
      BY <1>2, <2>1, <3>1
    <3>4. x \in Int /\ (k = 1 => x = low) /\ (k = p => x = high)
      BY <1>3, <3>1
    <3> HIDE DEF low, high
    <3> QED
      BY <2>1, <3>1, <3>2, <3>3, <3>4
  <2> HIDE DEF low, high
  <2>4. S = low .. high
    <3>1. ~(low > high) /\ high - low + 1 = p
      BY <2>1
    <3>2. IsFiniteSet(low .. high) /\ Cardinality(low .. high) = p
      BY <2>1, <3>1, FS_Interval
    <3> QED
      BY <2>3, <3>2, FS_Subset
  <2>5. \A k \in 1 .. p : low + k - 1 \in S
    BY <2>1, <2>4
  <2>6. \A k \in 1 .. p : parsed[k] = low + k - 1 /\ batch[parsed[k]] = c
    BY <2>2, <2>5
  <2> QED
    BY <2>1, <2>2, <2>6
<1>8. CASE max_num_players_ # 1 /\ ~continuous(index)
  <2>1. parsed = index
    BY <1>4, <1>8 DEF ParseAction
  <2> QED
    BY <1>2, <1>3, <1>5, <2>1
<1> QED
  BY <1>6, <1>7, <1>8

\* The players of a batch stand in the order of their envs, and of an answer
\* that starts with any of them each env gets the rows of its own players.
THEOREM PlayersFollowEnvsCorrect == Spec => []PlayersFollowEnvs
<1>1. IInv => PlayersFollowEnvs
  <2> SUFFICES ASSUME IInv, wpc = "returned"
               PROVE  PlayersFollowEnvs
    BY DEF PlayersFollowEnvs
  <2>1. \A c, d \in Allocated :
          slice[c].shared < slice[d].shared => slice[c].player + slice[c].players <= slice[d].player
    BY DEF IInv, SliceInv
  <2>2. ASSUME NEW n \in 0 .. ret.player, NEW c \in Allocated,
               NEW env_index \in EnvRows(Rotated(players_env_id, n), c),
               NEW parsed, parsed = ParseAction(Rotated(players_env_id, n), c, env_index)
        PROVE  /\ Len(parsed) = slice[c].players
               /\ \A k \in DOMAIN parsed : Rotated(players_env_id, n)[parsed[k]] = c
               /\ \A k \in 1 .. Len(parsed) - 1 : parsed[k] < parsed[k + 1]
    <3> DEFINE batch == Rotated(players_env_id, n)
               S == {k \in DOMAIN batch : batch[k] = c}
    <3>1. slice[c].players \in 1 .. max_num_players_ /\ max_num_players_ \in Nat \ {0}
      BY PlayerRowsOfEnv, BatchAssumption
    <3>2. Cardinality(S) = slice[c].players
      BY PlayersCounted
    <3>3. batch \in Seq(Calls \cup {Nobody})
      <4>1. players_env_id \in Seq(Calls \cup {Nobody}) /\ Len(players_env_id) = ret.player
            /\ ret.player \in Nat
        BY PlayerRowsOfEnv DEF players_env_id
      <4> QED
        BY <4>1 DEF Rotated
    <3> HIDE DEF batch, S
    <3>4. slice[c].players \in Nat \ {0} /\ (max_num_players_ = 1 => slice[c].players = 1)
      BY <3>1
    <3>5. S = {k \in DOMAIN batch : batch[k] = c} /\ env_index \in EnvRows(batch, c)
          /\ parsed = ParseAction(batch, c, env_index)
      BY <2>2 DEF S, batch
    <3>6. /\ Len(parsed) = slice[c].players
          /\ \A k \in DOMAIN parsed : batch[parsed[k]] = c
          /\ \A k \in 1 .. Len(parsed) - 1 : parsed[k] < parsed[k + 1]
      BY <3>2, <3>3, <3>4, <3>5, ParsedFacts
    <3> QED
      BY <3>6 DEF batch
  <2> QED
    BY <2>1, <2>2 DEF PlayersFollowEnvs
<1> QED
  BY <1>1, Invariance, PTL
=============================================================================
