----------------------- MODULE StateBufferQueueProofs -----------------------
(***************************************************************************)
(* Proofs about StateBufferQueue for any number of envs, batch size,       *)
(* players and workers, sync and async, with any number of creating        *)
(* threads whose stock keeps the promise of module Stock.                  *)
(***************************************************************************)
EXTENDS StateBufferQueue, CommonFacts, FiniteSetTheorems, TLAPS

(* The inductive invariant. *)

\* The envs with a ticket, and where those of block k are with their step.
Ticketed == {e \in Envs : pc[e] \notin {"idle", "ticket"}}
At(k) == {e \in Ticketed : block(ticket[e]) = k}
Counted(k) == {e \in At(k) : pc[e] # "count"}
Allocated(k) == {e \in At(k) : pc[e] \notin {"count", "offset"}}
Written(k) == {e \in At(k) : pc[e] \in {"done", "signal", "ready"}}
Finished(k) == {e \in At(k) : pc[e] \in {"signal", "ready"}}

\* Blocks less than a ring ahead of the next one to be swapped have a buffer of
\* their own.
LiveBlocks == swapped .. swapped + queue_size_ - 1
buffer(k) == queue_[offset(k)]

\* What Wait has added to the count of the block it waits for.
added(k) == IF k = swapped /\ cpc \in {"signal", "wait", "account", "swap"} THEN additional ELSE 0

Buffer ==
  [alloc_count_ : Nat, player : Nat, shared : Nat, done_count_ : Nat, sem_ : Nat,
   row : [Rows -> Envs \cup {Nobody}], prow : [PlayerRows -> Envs \cup {Nobody}]]
Claimed == {"add", "signal", "wait", "account", "swap"}

TypeInv ==
  /\ queue_ \in [0 .. queue_size_ - 1 -> Buffer]
  /\ alloc_count_ \in Nat /\ done_ptr_ \in Nat
  /\ pc \in [Envs -> {"idle", "ticket", "count", "offset", "fill", "done", "signal", "ready"}]
  /\ order \in [Envs -> {NoOrder} \cup 0 .. batch_ - 1]
  /\ ticket \in [Envs -> Nat]
  /\ slice \in [Envs -> [shared : Nat, player : Nat, players : Nat]]
  /\ cpc \in Waiting \cup {"idle", "destroy", "gone"}
  /\ additional \in 0 .. batch_ /\ wpos \in Nat
  /\ cpc \in Claimed => done_ptr_ > 0 /\ wpos = swapped

\* The tickets in use are the next ones after those of the swapped blocks, but
\* for those that Wait has taken for the missing envs and not yet swapped.
TicketInv ==
  /\ alloc_count_ = swapped * batch_ + Cardinality(Ticketed)
                      + (IF cpc = "swap" THEN additional ELSE 0)
  /\ \A e \in Ticketed :
       swapped * batch_ <= ticket[e] /\ ticket[e] < swapped * batch_ + Cardinality(Ticketed)
  /\ \A d, e \in Ticketed : ticket[d] = ticket[e] => d = e

\* In sync mode the actions of a batch are numbered, and the missing envs are
\* those that have no action.
SyncInv ==
  /\ ~is_sync_ => additional = 0 /\ \A e \in Envs : order[e] = NoOrder
  /\ is_sync_ =>
       /\ \A e \in InFlight : order[e] \in 0 .. Cardinality(InFlight) - 1
       /\ \A d, e \in InFlight : order[d] = order[e] => d = e
       /\ cpc \in Waiting => additional + Cardinality(InFlight) = batch_
  /\ cpc \notin Waiting => additional = 0

\* The buffer of a block counts the envs that have passed its counters, ...
CountInv(k) ==
  /\ buffer(k).alloc_count_ = Cardinality(Counted(k))
  /\ buffer(k).shared = Cardinality(Allocated(k))
  /\ buffer(k).done_count_ = Cardinality(Finished(k)) + added(k)

\* ... is signalled when all of them are done, ...
SignalInv(k) ==
  /\ buffer(k).sem_ > 0 \/ (\E e \in At(k) : pc[e] = "signal")
       \/ (k = swapped /\ cpc \in {"signal", "account", "swap"})
     => buffer(k).done_count_ = batch_

\* ... gives each of them a row of its own, ...
SliceInv(k) ==
  /\ \A e \in Allocated(k) :
       /\ slice[e].shared \in Rows
       /\ IF is_sync_ THEN slice[e].shared = order[e] ELSE slice[e].shared < buffer(k).shared
  /\ \A d, e \in Allocated(k) : slice[d].shared = slice[e].shared => d = e

\* ... and keeps what they write.
RowInv(k) ==
  \A r \in Rows : \A e \in Envs :
    buffer(k).row[r] = e <=> e \in Written(k) /\ slice[e].shared = r

BlockInv(k) == CountInv(k) /\ SignalInv(k) /\ SliceInv(k) /\ RowInv(k)

\* What Wait has collected are the envs of its block.
ReturnInv ==
  cpc \in {"account", "swap"} =>
    /\ \A e \in At(swapped) : \E r \in DOMAIN arr : arr[r] = e
    /\ \A r \in DOMAIN arr : arr[r] \in Envs => arr[r] \in At(swapped)
    /\ At(swapped) = Finished(swapped)

IInv ==
  /\ TypeInv /\ TicketInv /\ SyncInv /\ ReturnInv
  /\ \A k \in LiveBlocks : BlockInv(k)

-----------------------------------------------------------------------------
(* Arithmetic. *)

LEMMA Sizes ==
  /\ batch_ \in Nat \ {0} /\ num_envs \in Nat /\ batch_ <= num_envs
  /\ num_envs \div batch_ \in Nat
  /\ queue_size_ \in Nat \ {0} /\ queue_size_ \div 2 = num_envs \div batch_ + 2
  /\ queue_size_ \div 2 < queue_size_ /\ queue_size_ \div 2 \in Nat
<1>1. batch_ \in Nat \ {0} /\ num_envs \in Nat /\ batch_ <= num_envs
  BY BatchAssumption, QueueAssumption, FS_CardinalityType
<1>2. PICK q : q = num_envs \div batch_
  OBVIOUS
<1>3. q \in Nat
  BY <1>1, <1>2
<1>4. queue_size_ = (q + 2) * 2
  BY <1>2 DEF queue_size_
<1> QED
  BY <1>1, <1>2, <1>3, <1>4

\* The tickets of a block are its batch_ tickets.
LEMMA BlockTickets ==
  ASSUME NEW t \in Nat
  PROVE  /\ block(t) \in Nat
         /\ block(t) * batch_ <= t /\ t < block(t) * batch_ + batch_
<1>1. batch_ \in Nat \ {0}
  BY Sizes
<1>2. /\ t \div batch_ \in Nat /\ t % batch_ \in 0 .. batch_ - 1
      /\ t = batch_ * (t \div batch_) + (t % batch_)
  BY <1>1
<1> QED
  BY <1>1, <1>2 DEF block

\* A ticket after those of k blocks is of block k or a later one, ...
LEMMA BlockAtLeast ==
  ASSUME NEW t \in Nat, NEW k \in Nat, k * batch_ <= t
  PROVE  k <= block(t)
<1>1. PICK p \in Nat : p = block(t) /\ t < p * batch_ + batch_
  BY BlockTickets
<1>2. batch_ \in Nat \ {0}
  BY Sizes
<1>3. ASSUME p < k PROVE FALSE
  <2>1. (p + 1) * batch_ <= k * batch_
    BY <1>2, <1>3
  <2>2. (p + 1) * batch_ = p * batch_ + batch_ /\ p * batch_ \in Nat /\ k * batch_ \in Nat
    BY <1>2
  <2> QED
    BY <1>1, <1>2, <2>1, <2>2
<1> QED
  BY <1>1, <1>3

\* ... and one before those of block k is of an earlier one.
LEMMA BlockBefore ==
  ASSUME NEW t \in Nat, NEW k \in Nat, t < k * batch_
  PROVE  block(t) < k
<1>1. PICK p \in Nat : p = block(t) /\ p * batch_ <= t
  BY BlockTickets
<1>2. batch_ \in Nat \ {0}
  BY Sizes
<1>3. ASSUME k <= p PROVE FALSE
  <2>1. k * batch_ <= p * batch_
    BY <1>2, <1>3
  <2>2. p * batch_ \in Nat /\ k * batch_ \in Nat
    BY <1>2
  <2> QED
    BY <1>1, <1>2, <2>1, <2>2
<1> QED
  BY <1>1, <1>3

\* The tickets of all the envs fit in half of the ring.
LEMMA BlockInHalf ==
  ASSUME NEW t \in Nat, NEW k \in Nat, t < k * batch_ + num_envs
  PROVE  block(t) < k + queue_size_ \div 2
<1>1. /\ batch_ \in Nat \ {0} /\ num_envs \in Nat /\ queue_size_ \div 2 = num_envs \div batch_ + 2
      /\ k * batch_ \in Nat
  BY Sizes
<1>2. PICK q \in Nat : q = block(num_envs) /\ num_envs < q * batch_ + batch_
  BY <1>1, BlockTickets
<1>3. (k + (q + 1)) * batch_ = k * batch_ + q * batch_ + batch_ /\ q * batch_ \in Nat
  BY <1>1, <1>2
<1>4. t < (k + (q + 1)) * batch_ /\ k + (q + 1) \in Nat
  <2>1. PICK x \in Nat, y \in Nat : x = k * batch_ /\ y = q * batch_
    BY <1>1, <1>3
  <2>2. t < x + y + batch_
    BY <1>1, <1>2, <2>1
  <2> QED
    BY <1>3, <2>1, <2>2
<1>5. block(t) < k + (q + 1) /\ block(t) \in Nat
  BY <1>4, BlockBefore, BlockTickets
<1>6. queue_size_ \div 2 = q + 2
  BY <1>1, <1>2 DEF block
<1> QED
  BY <1>2, <1>5, <1>6

\* Blocks less than a ring apart have slots of their own, ...
LEMMA OwnSlot ==
  ASSUME NEW j \in Nat, NEW k \in Nat, j # k, j < k + queue_size_, k < j + queue_size_
  PROVE  offset(j) # offset(k)
<1>1. queue_size_ \in Nat \ {0}
  BY Sizes
<1>2. j < k \/ k < j
  OBVIOUS
<1>3. ASSUME j < k PROVE j % queue_size_ # k % queue_size_
  BY <1>1, <1>3, SlotsDiffer
<1>4. ASSUME k < j PROVE k % queue_size_ # j % queue_size_
  BY <1>1, <1>4, SlotsDiffer
<1> QED
  BY <1>2, <1>3, <1>4 DEF offset

\* ... and a ring of them takes every slot.
LEMMA EverySlot ==
  ASSUME NEW n \in Nat, NEW s \in 0 .. queue_size_ - 1
  PROVE  \E k \in n .. n + queue_size_ - 1 : offset(k) = s
<1>1. PICK m \in Nat \ {0} : m = queue_size_
  BY Sizes
<1>2. PICK q \in Nat, r \in 0 .. m - 1 : n = m * q + r
  <2>1. n \div m \in Nat /\ n % m \in 0 .. m - 1 /\ n = m * (n \div m) + (n % m)
    BY <1>1
  <2> QED
    BY <2>1
<1>3. s \in Nat /\ s \in 0 .. m - 1 /\ m * q \in Nat
  BY <1>1, <1>2
<1>4. CASE s >= r
  <2>1. PICK k \in Nat : k = m * q + s
    BY <1>3
  <2>2. k % m = s
    BY <1>3, <2>1, Remainder
  <2>3. k \in n .. n + m - 1
    BY <1>2, <1>3, <1>4, <2>1
  <2> QED
    BY <1>1, <2>2, <2>3 DEF offset
<1>5. CASE s < r
  <2>1. PICK k \in Nat : k = m * (q + 1) + s
    BY <1>3
  <2>2. k % m = s
    BY <1>3, <2>1, Remainder
  <2>3. m * (q + 1) = m * q + m
    BY <1>2
  <2>4. k \in n .. n + m - 1
    BY <1>2, <1>3, <1>5, <2>1, <2>3
  <2> QED
    BY <1>1, <2>2, <2>4 DEF offset
<1> QED
  BY <1>2, <1>3, <1>4, <1>5

LEMMA OffsetType == ASSUME NEW k \in Nat PROVE offset(k) \in 0 .. queue_size_ - 1
<1>1. queue_size_ \in Nat \ {0}
  BY Sizes
<1> QED
  BY <1>1 DEF offset

-----------------------------------------------------------------------------
(* Counting sets of envs. *)

LEMMA FiniteEnvs ==
  ASSUME NEW S \in SUBSET Envs
  PROVE  IsFiniteSet(S) /\ Cardinality(S) \in Nat /\ Cardinality(S) <= num_envs
BY QueueAssumption, FS_Subset, FS_CardinalityType

LEMMA OneMore ==
  ASSUME NEW S \in SUBSET Envs, NEW e \in Envs, e \notin S
  PROVE  Cardinality(S \cup {e}) = Cardinality(S) + 1
BY FiniteEnvs, FS_AddElement

LEMMA NotMore ==
  ASSUME NEW T \in SUBSET Envs, NEW S \in SUBSET T
  PROVE  /\ Cardinality(S) <= Cardinality(T)
         /\ Cardinality(S) = Cardinality(T) => S = T
BY FiniteEnvs, FS_Subset

\* A set without one of its members is smaller.
LEMMA OneMissing ==
  ASSUME NEW T \in SUBSET Envs, NEW S \in SUBSET T, NEW e \in T, e \notin S
  PROVE  Cardinality(S) < Cardinality(T)
<1>1. Cardinality(S) \in Nat /\ Cardinality(T) \in Nat
  BY FiniteEnvs
<1> QED
  BY <1>1, NotMore

LEMMA Without ==
  ASSUME NEW T \in SUBSET Envs, NEW S \in SUBSET T
  PROVE  Cardinality(T \ S) = Cardinality(T) - Cardinality(S)
<1>1. IsFiniteSet(T) /\ IsFiniteSet(S) /\ T \cap S = S
  BY FiniteEnvs
<1>2. Cardinality(T \ S) = Cardinality(T) - Cardinality(T \cap S)
  BY <1>1, FS_Difference
<1> QED
  BY <1>1, <1>2

-----------------------------------------------------------------------------
(* What the invariant says of a block. *)

LEMMA BlockSets ==
  ASSUME NEW k
  PROVE  /\ Ticketed \in SUBSET Envs /\ InFlight \in SUBSET Envs /\ Ticketed \in SUBSET InFlight
         /\ At(k) \in SUBSET Ticketed /\ At(k) \in SUBSET Envs
         /\ Counted(k) \in SUBSET At(k) /\ Allocated(k) \in SUBSET Counted(k)
         /\ Written(k) \in SUBSET Allocated(k) /\ Finished(k) \in SUBSET Written(k)
BY DEF Ticketed, InFlight, At, Counted, Allocated, Written, Finished

LEMMA SwappedType == ASSUME TypeInv PROVE swapped \in Nat /\ (cpc \in Claimed => wpos = swapped)
BY DEF TypeInv, swapped, Claimed

\* A ticket is of a block whose buffer is in the half of the ring that is used.
LEMMA TicketLive ==
  ASSUME TypeInv, TicketInv, NEW e \in Ticketed
  PROVE  /\ block(ticket[e]) \in Nat /\ ticket[e] \in Nat
         /\ swapped <= block(ticket[e]) /\ block(ticket[e]) < swapped + queue_size_ \div 2
         /\ block(ticket[e]) \in LiveBlocks /\ e \in At(block(ticket[e]))
<1>1. e \in Envs /\ ticket[e] \in Nat /\ swapped \in Nat
  BY BlockSets, SwappedType DEF TypeInv
<1>2. swapped * batch_ <= ticket[e] /\ ticket[e] < swapped * batch_ + Cardinality(Ticketed)
  BY DEF TicketInv
<1>3. /\ Cardinality(Ticketed) \in Nat /\ Cardinality(Ticketed) <= num_envs /\ num_envs \in Nat
      /\ swapped * batch_ \in Nat
  BY <1>1, BlockSets, FiniteEnvs, Sizes
<1>4. ticket[e] < swapped * batch_ + num_envs
  BY <1>1, <1>2, <1>3
<1>5. block(ticket[e]) \in Nat /\ swapped <= block(ticket[e])
  BY <1>1, <1>2, BlockTickets, BlockAtLeast
<1>6. block(ticket[e]) < swapped + queue_size_ \div 2
  BY <1>1, <1>4, BlockInHalf
<1>7. block(ticket[e]) \in LiveBlocks
  BY <1>1, <1>5, <1>6, Sizes DEF LiveBlocks
<1> QED
  BY <1>1, <1>5, <1>6, <1>7 DEF At

\* No block has more tickets than rows.
LEMMA FewTickets ==
  ASSUME TypeInv, TicketInv, NEW k \in Nat
  PROVE  Cardinality(At(k)) \in Nat /\ Cardinality(At(k)) <= batch_
<1> DEFINE f == [e \in At(k) |-> ticket[e]]
           T == k * batch_ .. k * batch_ + batch_ - 1
<1>1. batch_ \in Nat /\ k * batch_ \in Nat
  BY Sizes
<1>2. \A e \in At(k) : ticket[e] \in T
  <2> TAKE e \in At(k)
  <2>1. e \in Ticketed /\ block(ticket[e]) = k
    BY DEF At
  <2>2. ticket[e] \in Nat
    BY <2>1, TicketLive
  <2> QED
    BY <1>1, <2>1, <2>2, BlockTickets
<1>3. f \in Injection(At(k), T)
  BY <1>2, BlockSets DEF Injection, IsInjective, TicketInv
<1>4. IsFiniteSet(T) /\ Cardinality(T) = batch_
  BY <1>1, FS_Interval
<1>5. Cardinality(At(k)) <= Cardinality(T)
  BY <1>3, <1>4, FS_Injection
<1> QED
  BY <1>4, <1>5, BlockSets, FiniteEnvs

\* What Wait adds leaves room for the tickets of its block, ...
LEMMA RoomForTickets ==
  ASSUME TypeInv, TicketInv, SyncInv, NEW k \in Nat
  PROVE  /\ Cardinality(At(k)) + additional <= batch_ /\ additional \in Nat
         /\ Cardinality(At(k)) + additional = batch_ /\ additional > 0 => At(k) = InFlight
<1>0. batch_ \in Nat
  BY Sizes
<1>1. /\ batch_ \in Nat /\ Cardinality(At(k)) \in Nat /\ Cardinality(At(k)) <= batch_
      /\ additional \in Nat
  <2>1. additional \in Nat
    BY <1>0 DEF TypeInv
  <2> QED
    BY <1>0, <2>1, FewTickets
<1>2. CASE additional = 0
  BY <1>1, <1>2
<1>3. CASE additional > 0
  <2>1. additional + Cardinality(InFlight) = batch_
    BY <1>3 DEF SyncInv
  <2>2. /\ At(k) \in SUBSET InFlight /\ Cardinality(At(k)) <= Cardinality(InFlight)
        /\ Cardinality(InFlight) \in Nat
        /\ Cardinality(At(k)) = Cardinality(InFlight) => At(k) = InFlight
    BY BlockSets, NotMore, FiniteEnvs
  <2> QED
    BY <1>1, <2>1, <2>2
<1> QED
  BY <1>1, <1>2, <1>3

\* ... so a full count says that all of them are done.
LEMMA AllDone ==
  ASSUME IInv, NEW k \in LiveBlocks, buffer(k).done_count_ = batch_
  PROVE  At(k) = Finished(k) /\ Cardinality(At(k)) + added(k) = batch_
<1>1. k \in Nat
  BY SwappedType DEF IInv, LiveBlocks
<1>2. /\ Cardinality(At(k)) + additional <= batch_ /\ additional \in Nat
      /\ Cardinality(At(k)) \in Nat
  BY <1>1, RoomForTickets, FewTickets DEF IInv
<1>3. batch_ = Cardinality(Finished(k)) + added(k)
  BY DEF IInv, BlockInv, CountInv
<1>4. added(k) = additional \/ added(k) = 0
  BY DEF added
<1>5. /\ Finished(k) \in SUBSET At(k) /\ Cardinality(Finished(k)) \in Nat
      /\ Cardinality(Finished(k)) <= Cardinality(At(k))
      /\ Cardinality(Finished(k)) = Cardinality(At(k)) => Finished(k) = At(k)
  BY BlockSets, NotMore, FiniteEnvs
<1>6. batch_ \in Nat
  BY Sizes
<1>7. Cardinality(Finished(k)) = Cardinality(At(k))
  BY <1>2, <1>3, <1>4, <1>5, <1>6
<1> QED
  BY <1>3, <1>5, <1>7

\* A block keeps its invariant when neither its buffer nor its envs change.
LEMMA BlockFrame ==
  ASSUME NEW k, BlockInv(k), buffer(k)' = buffer(k), order' = order, added(k)' = added(k),
         Counted(k)' = Counted(k), Allocated(k)' = Allocated(k), Written(k)' = Written(k),
         Finished(k)' = Finished(k),
         \A e \in Allocated(k) : slice'[e] = slice[e],
         (\E e \in At(k)' : pc'[e] = "signal") => (\E e \in At(k) : pc[e] = "signal"),
         (k = swapped /\ cpc \in {"signal", "account", "swap"})'
           => k = swapped /\ cpc \in {"signal", "account", "swap"}
  PROVE  BlockInv(k)'
<1>1. CountInv(k)'
  BY DEF BlockInv, CountInv
<1>2. SignalInv(k)'
  BY DEF BlockInv, SignalInv
<1>3. SliceInv(k)'
  BY DEF BlockInv, SliceInv, is_sync_
<1>4. RowInv(k)'
  BY BlockSets DEF BlockInv, RowInv
<1> QED
  BY <1>1, <1>2, <1>3, <1>4 DEF BlockInv

-----------------------------------------------------------------------------
(* The steps of the producers. *)

\* Replacing the buffer of a live block leaves the buffers of the others.
LEMMA OtherBuffers ==
  ASSUME TypeInv, NEW k \in LiveBlocks, NEW b, queue_' = [queue_ EXCEPT ![offset(k)] = b]
  PROVE  /\ queue_'[offset(k)] = b
         /\ \A j \in LiveBlocks \ {k} : queue_'[offset(j)] = buffer(j)
<1>1. queue_ \in [0 .. queue_size_ - 1 -> Buffer] /\ swapped \in Nat /\ queue_size_ \in Nat
  BY SwappedType, Sizes DEF TypeInv
<1>2. k \in Nat /\ offset(k) \in 0 .. queue_size_ - 1
  BY <1>1, OffsetType DEF LiveBlocks
<1>3. \A j \in LiveBlocks \ {k} : j \in Nat /\ offset(j) # offset(k)
  <2> TAKE j \in LiveBlocks \ {k}
  <2>1. j \in Nat /\ j # k /\ j < k + queue_size_ /\ k < j + queue_size_
    BY <1>1, <1>2 DEF LiveBlocks
  <2> QED
    BY <1>2, <2>1, OwnSlot
<1>4. \A j \in LiveBlocks \ {k} : offset(j) \in 0 .. queue_size_ - 1
  BY <1>3, OffsetType
<1> QED
  BY <1>1, <1>2, <1>3, <1>4 DEF buffer

\* A step of an env with a ticket that changes only its place, its slice and
\* the buffer of its block keeps the invariant if that block keeps its own.
LEMMA ProducerFrame ==
  ASSUME IInv, NEW e \in Ticketed, NEW k, k = block(ticket[e]),
         NEW x \in {"count", "offset", "fill", "done", "signal", "ready"}, NEW b \in Buffer,
         pc[e] \in {"signal", "ready"} => x = "ready",
         pc' = [pc EXCEPT ![e] = x],
         queue_' = [queue_ EXCEPT ![offset(k)] = b],
         slice' \in [Envs -> [shared : Nat, player : Nat, players : Nat]],
         \A d \in Envs \ {e} : slice'[d] = slice[d],
         ticket' = ticket, order' = order, alloc_count_' = alloc_count_, done_ptr_' = done_ptr_,
         cpc' = cpc, additional' = additional, wpos' = wpos, arr' = arr,
         BlockInv(k)'
  PROVE  IInv'
<1>1. TypeInv /\ TicketInv /\ SyncInv /\ ReturnInv /\ \A j \in LiveBlocks : BlockInv(j)
  BY DEF IInv
<1>2. e \in Envs /\ pc[e] \notin {"idle", "ticket"} /\ pc \in [Envs -> {"idle", "ticket", "count", "offset", "fill", "done", "signal", "ready"}]
  BY <1>1 DEF Ticketed, TypeInv
<1>3. /\ pc' \in [Envs -> {"idle", "ticket", "count", "offset", "fill", "done", "signal", "ready"}]
      /\ pc'[e] = x /\ \A d \in Envs \ {e} : pc'[d] = pc[d]
  BY <1>2
<1>4. /\ Ticketed' = Ticketed /\ InFlight' = InFlight /\ swapped' = swapped
      /\ LiveBlocks' = LiveBlocks
  BY <1>2, <1>3 DEF Ticketed, InFlight, swapped, LiveBlocks
<1>5. \A j : At(j)' = At(j)
  BY <1>4 DEF At
<1>6. k \in LiveBlocks /\ k \in Nat
  BY <1>1, TicketLive
<1>7. TypeInv'
  <2>1. queue_' \in [0 .. queue_size_ - 1 -> Buffer]
    BY <1>1 DEF TypeInv
  <2> QED
    BY <1>1, <1>3, <1>4, <2>1 DEF TypeInv
<1>8. TicketInv'
  BY <1>1, <1>4 DEF TicketInv
<1>9. SyncInv'
  BY <1>1, <1>4 DEF SyncInv, is_sync_, Waiting
<1>10. ReturnInv'
  <2> SUFFICES ASSUME cpc \in {"account", "swap"}
               PROVE  /\ \A d \in At(swapped) : \E r \in DOMAIN arr : arr[r] = d
                      /\ \A r \in DOMAIN arr : arr[r] \in Envs => arr[r] \in At(swapped)
                      /\ At(swapped) = Finished(swapped)'
    BY <1>4, <1>5 DEF ReturnInv, Finished
  <2>1. Finished(swapped)' = {d \in At(swapped) : pc'[d] \in {"signal", "ready"}}
    BY <1>4, <1>5 DEF Finished
  <2>2. \A d \in At(swapped) : pc[d] \in {"signal", "ready"}
    BY <1>1 DEF ReturnInv, Finished
  <2>3. \A d \in At(swapped) : pc'[d] \in {"signal", "ready"}
    BY <1>3, <2>2, BlockSets
  <2> QED
    BY <1>1, <2>1, <2>3 DEF ReturnInv
<1>11. \A j \in LiveBlocks \ {k} : BlockInv(j)'
  <2> TAKE j \in LiveBlocks \ {k}
  <2>1. e \notin At(j) /\ At(j) \in SUBSET Envs
    BY BlockSets DEF At
  <2>2. \A d \in At(j) : pc'[d] = pc[d] /\ slice'[d] = slice[d]
    BY <1>3, <2>1
  <2>3. /\ Counted(j)' = Counted(j) /\ Allocated(j)' = Allocated(j)
        /\ Written(j)' = Written(j) /\ Finished(j)' = Finished(j)
    BY <1>5, <2>2 DEF Counted, Allocated, Written, Finished
  <2>4. buffer(j)' = buffer(j)
    BY <1>1, <1>6, OtherBuffers DEF buffer
  <2>5. added(j)' = added(j)
    BY <1>4 DEF added
  <2>6. \A d \in Allocated(j) : slice'[d] = slice[d]
    BY <2>2, BlockSets
  <2>7. (\E d \in At(j)' : pc'[d] = "signal") => (\E d \in At(j) : pc[d] = "signal")
    BY <1>5, <2>2
  <2> QED
    BY <1>1, <1>4, <2>3, <2>4, <2>5, <2>6, <2>7, BlockFrame
<1> QED
  BY <1>4, <1>7, <1>8, <1>9, <1>10, <1>11 DEF IInv

\* What a producer that holds a buffer may rely on.
LEMMA ProducerFacts ==
  ASSUME IInv, NEW e \in Envs, pc[e] \in {"count", "offset", "fill", "done", "signal"}
  PROVE  /\ e \in Ticketed /\ block(ticket[e]) \in LiveBlocks /\ block(ticket[e]) \in Nat
         /\ e \in At(block(ticket[e])) /\ BlockInv(block(ticket[e]))
         /\ buffer(block(ticket[e])) \in Buffer
         /\ slotOf(e) = offset(block(ticket[e]))
<1>1. e \in Ticketed /\ TypeInv /\ TicketInv /\ \A k \in LiveBlocks : BlockInv(k)
  BY DEF IInv, Ticketed
<1>2. /\ block(ticket[e]) \in LiveBlocks /\ block(ticket[e]) \in Nat
      /\ e \in At(block(ticket[e]))
  BY <1>1, TicketLive
<1>3. buffer(block(ticket[e])) \in Buffer
  BY <1>1, <1>2, OffsetType DEF TypeInv, buffer
<1> QED
  BY <1>1, <1>2, <1>3 DEF slotOf

\* The envs of a block are where they were, but for the one that moves.
LEMMA Moves ==
  ASSUME TypeInv, NEW e \in Ticketed, NEW k, k = block(ticket[e]),
         NEW x \in {"count", "offset", "fill", "done", "signal", "ready"},
         pc' = [pc EXCEPT ![e] = x], ticket' = ticket
  PROVE  /\ At(k)' = At(k) /\ e \in At(k) /\ pc'[e] = x
         /\ \A d \in At(k) \ {e} : pc'[d] = pc[d]
         /\ Counted(k)' = IF x = "count" THEN Counted(k) \ {e} ELSE Counted(k) \cup {e}
         /\ Allocated(k)' = IF x \in {"count", "offset"} THEN Allocated(k) \ {e}
                            ELSE Allocated(k) \cup {e}
         /\ Written(k)' = IF x \in {"done", "signal", "ready"} THEN Written(k) \cup {e}
                          ELSE Written(k) \ {e}
         /\ Finished(k)' = IF x \in {"signal", "ready"} THEN Finished(k) \cup {e}
                           ELSE Finished(k) \ {e}
<1>1. e \in Envs /\ pc[e] \notin {"idle", "ticket"} /\ e \in At(k)
  BY DEF Ticketed, At
<1>2. pc' \in [Envs -> {"idle", "ticket", "count", "offset", "fill", "done", "signal", "ready"}]
      /\ pc'[e] = x /\ \A d \in Envs \ {e} : pc'[d] = pc[d]
  BY <1>1 DEF TypeInv
<1>3. Ticketed' = Ticketed
  BY <1>1, <1>2 DEF Ticketed
<1>4. At(k)' = At(k) /\ At(k) \in SUBSET Envs
  BY <1>3, BlockSets DEF At
<1> QED
  BY <1>1, <1>2, <1>4 DEF Counted, Allocated, Written, Finished

LEMMA TakeQuotaStep ==
  ASSUME IInv, NEW e \in Envs, TakeQuota(e)
  PROVE  IInv'
<1>1. pc[e] = "count" /\ TypeInv /\ TicketInv
  BY DEF TakeQuota, Step, IInv
<1>2. PICK k \in Nat : /\ k = block(ticket[e]) /\ k \in LiveBlocks /\ e \in At(k) /\ e \in Ticketed
                       /\ BlockInv(k) /\ buffer(k) \in Buffer /\ slotOf(e) = offset(k)
  BY <1>1, ProducerFacts
<1>3. PICK b \in Buffer : b = buffer(k)
  BY <1>2
<1>4. e \notin Counted(k) /\ e \notin Allocated(k) /\ e \notin Written(k) /\ e \notin Finished(k)
  BY <1>1 DEF Counted, Allocated, Written, Finished
<1>5. b.alloc_count_ = Cardinality(Counted(k)) /\ b.alloc_count_ < batch_
  <2>1. Cardinality(Counted(k)) < Cardinality(At(k))
    BY <1>2, <1>4, BlockSets, OneMissing
  <2>2. Cardinality(At(k)) <= batch_ /\ Cardinality(At(k)) \in Nat /\ batch_ \in Nat
    BY <1>1, FewTickets, Sizes
  <2>3. b.alloc_count_ = Cardinality(Counted(k))
    BY <1>2, <1>3 DEF BlockInv, CountInv
  <2>4. Cardinality(Counted(k)) \in Nat
    BY BlockSets, FiniteEnvs
  <2> QED
    BY <2>1, <2>2, <2>3, <2>4
<1>6. PICK c : c = CountAllocation(b)
  OBVIOUS
<1>7. c \in Buffer /\ c = [b EXCEPT !.alloc_count_ = b.alloc_count_ + 1]
  BY <1>3, <1>6 DEF Buffer, CountAllocation
<1>8. /\ pc' = [pc EXCEPT ![e] = "offset"] /\ queue_' = [queue_ EXCEPT ![offset(k)] = c]
      /\ UNCHANGED <<slice, ticket, order, alloc_count_, done_ptr_, cpc, additional, wpos, arr>>
  BY <1>2, <1>3, <1>5, <1>6 DEF TakeQuota, Step, Update, HasQuota, buffer, waitVars
<1>9. /\ At(k)' = At(k) /\ pc'[e] = "offset" /\ (\A d \in At(k) \ {e} : pc'[d] = pc[d])
      /\ Counted(k)' = Counted(k) \cup {e} /\ Allocated(k)' = Allocated(k)
      /\ Written(k)' = Written(k) /\ Finished(k)' = Finished(k)
  <2>1. /\ At(k)' = At(k) /\ pc'[e] = "offset" /\ (\A d \in At(k) \ {e} : pc'[d] = pc[d])
        /\ Counted(k)' = Counted(k) \cup {e} /\ Allocated(k)' = Allocated(k) \ {e}
        /\ Written(k)' = Written(k) \ {e} /\ Finished(k)' = Finished(k) \ {e}
    BY <1>1, <1>2, <1>8, Moves
  <2> QED
    BY <1>4, <2>1
<1>10. buffer(k)' = c
  BY <1>1, <1>2, <1>8, OtherBuffers DEF buffer
<1>11. added(k)' = added(k) /\ swapped' = swapped
  BY <1>8 DEF added, swapped
<1>12. CountInv(k)'
  <2>1. Cardinality(Counted(k) \cup {e}) = Cardinality(Counted(k)) + 1
    BY <1>4, BlockSets, OneMore
  <2>2. /\ c.alloc_count_ = b.alloc_count_ + 1 /\ c.shared = b.shared
        /\ c.done_count_ = b.done_count_
    BY <1>3, <1>7 DEF Buffer
  <2> QED
    BY <1>2, <1>3, <1>9, <1>10, <1>11, <2>1, <2>2 DEF BlockInv, CountInv
<1>13. SignalInv(k)'
  <2>1. c.done_count_ = b.done_count_ /\ c.sem_ = b.sem_
    BY <1>3, <1>7 DEF Buffer
  <2>2. (\E d \in At(k)' : pc'[d] = "signal") => \E d \in At(k) : pc[d] = "signal"
    BY <1>9
  <2> QED
    BY <1>2, <1>3, <1>8, <1>10, <1>11, <2>1, <2>2 DEF BlockInv, SignalInv
<1>14. SliceInv(k)'
  <2>1. c.shared = b.shared
    BY <1>3, <1>7 DEF Buffer
  <2> QED
    BY <1>2, <1>3, <1>8, <1>9, <1>10, <2>1 DEF BlockInv, SliceInv, is_sync_
<1>15. RowInv(k)'
  <2>1. c.row = b.row
    BY <1>3, <1>7 DEF Buffer
  <2> QED
    BY <1>2, <1>3, <1>8, <1>9, <1>10, <2>1 DEF BlockInv, RowInv
<1>16. BlockInv(k)'
  BY <1>12, <1>13, <1>14, <1>15 DEF BlockInv
<1>17. slice' \in [Envs -> [shared : Nat, player : Nat, players : Nat]] /\ slice' = slice
  BY <1>1, <1>8 DEF TypeInv
<1> QED
  BY <1>1, <1>2, <1>7, <1>8, <1>16, <1>17, ProducerFrame

LEMMA TakeOffsetsStep ==
  ASSUME IInv, NEW e \in Envs, TakeOffsets(e)
  PROVE  IInv'
<1>1. pc[e] = "offset" /\ TypeInv /\ TicketInv /\ SyncInv
  BY DEF TakeOffsets, Step, IInv
<1>2. PICK k \in Nat : /\ k = block(ticket[e]) /\ k \in LiveBlocks /\ e \in At(k) /\ e \in Ticketed
                       /\ BlockInv(k) /\ buffer(k) \in Buffer /\ slotOf(e) = offset(k)
  BY <1>1, ProducerFacts
<1>3. PICK b \in Buffer : b = buffer(k)
  BY <1>2
<1>4. e \in Counted(k) /\ e \notin Allocated(k) /\ e \notin Written(k) /\ e \notin Finished(k)
  BY <1>1, <1>2 DEF Counted, Allocated, Written, Finished
<1>5. /\ b.shared = Cardinality(Allocated(k)) /\ b.shared < batch_ /\ b.shared \in Nat
      /\ b.player \in Nat
  <2>1. Cardinality(Allocated(k)) < Cardinality(At(k))
    BY <1>2, <1>4, BlockSets, OneMissing
  <2>2. Cardinality(At(k)) <= batch_ /\ Cardinality(At(k)) \in Nat /\ batch_ \in Nat
    BY <1>1, FewTickets, Sizes
  <2>3. b.shared = Cardinality(Allocated(k))
    BY <1>2, <1>3 DEF BlockInv, CountInv
  <2>4. b.shared \in Nat /\ b.player \in Nat
    BY DEF Buffer
  <2> QED
    BY <2>1, <2>2, <2>3, <2>4
<1>6. PICK np \in 1 .. max_num_players_ :
        /\ pc' = [pc EXCEPT ![e] = "fill"]
        /\ slice' = [slice EXCEPT ![e] = SliceFor(b, np, order[e])]
        /\ queue_' = [queue_ EXCEPT ![offset(k)] = AdvanceOffsets(b, np)]
        /\ UNCHANGED <<ticket, order, alloc_count_, done_ptr_, cpc, additional, wpos, arr>>
  BY <1>2, <1>3 DEF TakeOffsets, Step, Update, buffer, waitVars
<1>7. PICK c : c = AdvanceOffsets(b, np)
  OBVIOUS
<1>8. /\ c \in Buffer /\ c.shared = b.shared + 1
      /\ c.alloc_count_ = b.alloc_count_ /\ c.done_count_ = b.done_count_ /\ c.sem_ = b.sem_
      /\ c.row = b.row
  <2>1. np \in Nat
    BY BatchAssumption
  <2>2. c = [b EXCEPT !.player = b.player + np, !.shared = b.shared + 1]
    BY <1>7 DEF AdvanceOffsets, increment
  <2>3. b.player + np \in Nat /\ b.shared + 1 \in Nat
    BY <1>5, <2>1
  <2> QED
    BY <2>2, <2>3 DEF Buffer
<1>9. /\ At(k)' = At(k) /\ pc'[e] = "fill" /\ (\A d \in At(k) \ {e} : pc'[d] = pc[d])
      /\ Counted(k)' = Counted(k) /\ Allocated(k)' = Allocated(k) \cup {e}
      /\ Written(k)' = Written(k) /\ Finished(k)' = Finished(k)
  <2>1. /\ At(k)' = At(k) /\ pc'[e] = "fill" /\ (\A d \in At(k) \ {e} : pc'[d] = pc[d])
        /\ Counted(k)' = Counted(k) \cup {e} /\ Allocated(k)' = Allocated(k) \cup {e}
        /\ Written(k)' = Written(k) \ {e} /\ Finished(k)' = Finished(k) \ {e}
    BY <1>1, <1>2, <1>6, Moves
  <2> QED
    BY <1>4, <2>1
<1>10. buffer(k)' = c
  BY <1>1, <1>2, <1>6, <1>7, OtherBuffers DEF buffer
<1>11. added(k)' = added(k) /\ swapped' = swapped
  BY <1>6 DEF added, swapped
<1>12. CountInv(k)'
  <2>1. Cardinality(Allocated(k) \cup {e}) = Cardinality(Allocated(k)) + 1
    BY <1>4, BlockSets, OneMore
  <2> QED
    BY <1>2, <1>3, <1>8, <1>9, <1>10, <1>11, <2>1 DEF BlockInv, CountInv
<1>13. SignalInv(k)'
  <2>1. (\E d \in At(k)' : pc'[d] = "signal") => \E d \in At(k) : pc[d] = "signal"
    BY <1>9
  <2> QED
    BY <1>2, <1>3, <1>6, <1>8, <1>10, <1>11, <2>1 DEF BlockInv, SignalInv
<1>14. PICK s : s = SliceFor(b, np, order[e])
  OBVIOUS
<1>15. /\ is_sync_ => s.shared = order[e]
       /\ ~is_sync_ => s.shared = b.shared
       /\ s \in [shared : Nat, player : Nat, players : Nat]
       /\ s.shared \in Rows
  <2>1. order[e] \in {NoOrder} \cup 0 .. batch_ - 1 /\ batch_ \in Nat /\ np \in Nat
    BY <1>1, Sizes, BatchAssumption DEF TypeInv
  <2>2. ~is_sync_ => order[e] = NoOrder
    BY <1>1 DEF SyncInv
  <2>3. is_sync_ => order[e] \in 0 .. batch_ - 1 /\ order[e] # NoOrder /\ max_num_players_ = 1
    <3> SUFFICES ASSUME is_sync_ PROVE order[e] # NoOrder /\ max_num_players_ = 1
      BY <2>1
    <3>1. e \in InFlight
      BY <1>1 DEF InFlight
    <3>2. order[e] \in 0 .. Cardinality(InFlight) - 1
      BY <1>1, <3>1 DEF SyncInv
    <3> QED
      BY <3>2 DEF NoOrder, is_sync_
  <2> QED
    BY <1>5, <1>14, <2>1, <2>2, <2>3 DEF SliceFor, RowFor, Rows, NoOrder
<1>16. /\ slice' \in [Envs -> [shared : Nat, player : Nat, players : Nat]]
       /\ slice'[e] = s /\ \A d \in Envs \ {e} : slice'[d] = slice[d]
  BY <1>1, <1>6, <1>14, <1>15 DEF TypeInv
<1>17. SliceInv(k)'
  <2>1. \A d \in Allocated(k) :
          /\ d \in Envs /\ d # e /\ slice'[d] = slice[d] /\ slice[d].shared \in Rows
          /\ IF is_sync_ THEN slice[d].shared = order[d] ELSE slice[d].shared < b.shared
    BY <1>2, <1>3, <1>4, <1>16, BlockSets DEF BlockInv, SliceInv
  <2>2. \A d, f \in Allocated(k) : slice[d].shared = slice[f].shared => d = f
    BY <1>2 DEF BlockInv, SliceInv
  <2>3. \A d \in Allocated(k) : slice[d].shared # s.shared
    <3> TAKE d \in Allocated(k)
    <3>1. CASE is_sync_
      <4>1. d \in InFlight /\ e \in InFlight
        BY <1>1, BlockSets DEF InFlight
      <4>2. order[d] # order[e]
        BY <1>1, <2>1, <3>1, <4>1 DEF SyncInv
      <4> QED
        BY <1>15, <2>1, <3>1, <4>2
    <3>2. CASE ~is_sync_
      BY <1>5, <1>15, <2>1, <3>2 DEF Rows
    <3> QED
      BY <3>1, <3>2
  <2>4. \A d \in Allocated(k) : ~is_sync_ => slice[d].shared < c.shared
    BY <1>5, <1>8, <2>1, Sizes DEF Rows
  <2>5. ~is_sync_ => s.shared < c.shared
    BY <1>5, <1>8, <1>15
  <2>6. \A d \in Allocated(k)' :
          /\ slice'[d].shared \in Rows
          /\ IF is_sync_ THEN slice'[d].shared = order'[d] ELSE slice'[d].shared < c.shared
    BY <1>6, <1>9, <1>15, <1>16, <2>1, <2>4, <2>5
  <2>7. \A d, f \in Allocated(k)' : slice'[d].shared = slice'[f].shared => d = f
    BY <1>9, <1>16, <2>1, <2>2, <2>3
  <2> QED
    BY <1>10, <2>6, <2>7 DEF SliceInv, is_sync_
<1>18. RowInv(k)'
  <2>1. \A d \in Written(k) : slice'[d] = slice[d]
    BY <1>4, <1>16, BlockSets
  <2>2. \A r \in Rows : \A d \in Envs : c.row[r] = d <=> d \in Written(k) /\ slice[d].shared = r
    BY <1>2, <1>3, <1>8 DEF BlockInv, RowInv
  <2> QED
    BY <1>9, <1>10, <2>1, <2>2 DEF RowInv
<1>19. BlockInv(k)'
  BY <1>12, <1>13, <1>17, <1>18 DEF BlockInv
<1> QED
  BY <1>1, <1>2, <1>6, <1>7, <1>8, <1>16, <1>19, ProducerFrame

LEMMA FillStep ==
  ASSUME IInv, NEW e \in Envs, Fill(e)
  PROVE  IInv'
<1>1. pc[e] = "fill" /\ TypeInv /\ TicketInv
  BY DEF Fill, Step, IInv
<1>2. PICK k \in Nat : /\ k = block(ticket[e]) /\ k \in LiveBlocks /\ e \in At(k) /\ e \in Ticketed
                       /\ BlockInv(k) /\ buffer(k) \in Buffer /\ slotOf(e) = offset(k)
  BY <1>1, ProducerFacts
<1>3. PICK b \in Buffer : b = buffer(k)
  BY <1>2
<1>4. e \in Counted(k) /\ e \in Allocated(k) /\ e \notin Written(k) /\ e \notin Finished(k)
  BY <1>1, <1>2 DEF Counted, Allocated, Written, Finished
<1>5. PICK c : c = FillSlice(b, slice[e], e)
  OBVIOUS
<1>6. /\ c \in Buffer /\ c.shared = b.shared
      /\ c.alloc_count_ = b.alloc_count_ /\ c.done_count_ = b.done_count_ /\ c.sem_ = b.sem_
      /\ c.row = [r \in Rows |-> IF r = slice[e].shared THEN e ELSE b.row[r]]
  BY <1>3, <1>5 DEF Buffer, FillSlice
<1>7. /\ pc' = [pc EXCEPT ![e] = "done"] /\ queue_' = [queue_ EXCEPT ![offset(k)] = c]
      /\ UNCHANGED <<slice, ticket, order, alloc_count_, done_ptr_, cpc, additional, wpos, arr>>
  BY <1>2, <1>3, <1>5 DEF Fill, Step, Update, buffer, waitVars
<1>8. /\ At(k)' = At(k) /\ pc'[e] = "done" /\ (\A d \in At(k) \ {e} : pc'[d] = pc[d])
      /\ Counted(k)' = Counted(k) /\ Allocated(k)' = Allocated(k)
      /\ Written(k)' = Written(k) \cup {e} /\ Finished(k)' = Finished(k)
  <2>1. /\ At(k)' = At(k) /\ pc'[e] = "done" /\ (\A d \in At(k) \ {e} : pc'[d] = pc[d])
        /\ Counted(k)' = Counted(k) \cup {e} /\ Allocated(k)' = Allocated(k) \cup {e}
        /\ Written(k)' = Written(k) \cup {e} /\ Finished(k)' = Finished(k) \ {e}
    BY <1>1, <1>2, <1>7, Moves
  <2> QED
    BY <1>4, <2>1
<1>9. buffer(k)' = c
  BY <1>1, <1>2, <1>7, OtherBuffers DEF buffer
<1>10. added(k)' = added(k) /\ swapped' = swapped
  BY <1>7 DEF added, swapped
<1>11. CountInv(k)'
  BY <1>2, <1>3, <1>6, <1>8, <1>9, <1>10 DEF BlockInv, CountInv
<1>12. SignalInv(k)'
  <2>1. (\E d \in At(k)' : pc'[d] = "signal") => \E d \in At(k) : pc[d] = "signal"
    BY <1>8
  <2> QED
    BY <1>2, <1>3, <1>6, <1>7, <1>9, <1>10, <2>1 DEF BlockInv, SignalInv
<1>13. SliceInv(k)'
  BY <1>2, <1>3, <1>6, <1>7, <1>8, <1>9 DEF BlockInv, SliceInv, is_sync_
<1>14. RowInv(k)'
  <2>1. \A r \in Rows : \A d \in Envs : b.row[r] = d <=> d \in Written(k) /\ slice[d].shared = r
    BY <1>2, <1>3 DEF BlockInv, RowInv
  <2>2. \A d \in Written(k) : slice[d].shared # slice[e].shared
    BY <1>2, <1>4, BlockSets DEF BlockInv, SliceInv
  <2>3. \A r \in Rows : \A d \in Envs :
          c.row[r] = d <=> d \in Written(k) \cup {e} /\ slice[d].shared = r
    <3> TAKE r \in Rows
    <3> TAKE d \in Envs
    <3>1. CASE r = slice[e].shared
      <4>1. c.row[r] = e
        BY <1>6, <3>1
      <4> QED
        BY <2>2, <3>1, <4>1
    <3>2. CASE r # slice[e].shared
      <4>1. c.row[r] = b.row[r]
        BY <1>6, <3>2
      <4> QED
        BY <2>1, <3>2, <4>1
    <3> QED
      BY <3>1, <3>2
  <2> QED
    BY <1>7, <1>8, <1>9, <2>3 DEF RowInv
<1>15. BlockInv(k)'
  BY <1>11, <1>12, <1>13, <1>14 DEF BlockInv
<1>16. slice' \in [Envs -> [shared : Nat, player : Nat, players : Nat]] /\ slice' = slice
  BY <1>1, <1>7 DEF TypeInv
<1> QED
  BY <1>1, <1>2, <1>6, <1>7, <1>15, <1>16, ProducerFrame

\* An env that is not done leaves the count of its block below batch_.
LEMMA NotAllDone ==
  ASSUME IInv, NEW k \in LiveBlocks, NEW e \in At(k), pc[e] \notin {"signal", "ready"}
  PROVE  /\ buffer(k).done_count_ # batch_ /\ buffer(k).sem_ \in Nat /\ ~(buffer(k).sem_ > 0)
         /\ \A d \in At(k) : pc[d] # "signal"
         /\ ~(k = swapped /\ cpc \in {"signal", "account", "swap"})
<1>1. e \notin Finished(k)
  BY DEF Finished
<1>2. buffer(k).done_count_ # batch_
  BY <1>1, AllDone
<1>3. k \in Nat /\ TypeInv
  BY SwappedType DEF LiveBlocks, IInv
<1>4. buffer(k) \in Buffer
  BY <1>3, OffsetType DEF TypeInv, buffer
<1>5. SignalInv(k) /\ buffer(k).sem_ \in Nat
  BY <1>4 DEF IInv, BlockInv, Buffer
<1> QED
  BY <1>2, <1>5 DEF SignalInv

LEMMA DoneStep ==
  ASSUME IInv, NEW e \in Envs, Done(e)
  PROVE  IInv'
<1>1. pc[e] = "done" /\ TypeInv /\ TicketInv
  BY DEF Done, Step, IInv
<1>2. PICK k \in Nat : /\ k = block(ticket[e]) /\ k \in LiveBlocks /\ e \in At(k) /\ e \in Ticketed
                       /\ BlockInv(k) /\ buffer(k) \in Buffer /\ slotOf(e) = offset(k)
  BY <1>1, ProducerFacts
<1>3. PICK b \in Buffer : b = buffer(k)
  BY <1>2
<1>4. e \in Counted(k) /\ e \in Allocated(k) /\ e \in Written(k) /\ e \notin Finished(k)
  BY <1>1, <1>2 DEF Counted, Allocated, Written, Finished
<1>5. PICK c : c = CountDone(b, 1)
  OBVIOUS
<1>6. /\ c \in Buffer /\ c.done_count_ = b.done_count_ + 1 /\ c.shared = b.shared
      /\ c.alloc_count_ = b.alloc_count_ /\ c.sem_ = b.sem_ /\ c.row = b.row
  BY <1>3, <1>5 DEF Buffer, CountDone
<1>7. PICK x \in {"signal", "ready"} : x = IF Completes(b, 1) THEN "signal" ELSE "ready"
  OBVIOUS
<1>8. /\ pc' = [pc EXCEPT ![e] = x] /\ queue_' = [queue_ EXCEPT ![offset(k)] = c]
      /\ UNCHANGED <<slice, ticket, order, alloc_count_, done_ptr_, cpc, additional, wpos, arr>>
  BY <1>2, <1>3, <1>5, <1>7 DEF Done, Step, Update, buffer, waitVars
<1>9. /\ At(k)' = At(k) /\ pc'[e] = x /\ (\A d \in At(k) \ {e} : pc'[d] = pc[d])
      /\ Counted(k)' = Counted(k) /\ Allocated(k)' = Allocated(k)
      /\ Written(k)' = Written(k) /\ Finished(k)' = Finished(k) \cup {e}
  <2>1. /\ At(k)' = At(k) /\ pc'[e] = x /\ (\A d \in At(k) \ {e} : pc'[d] = pc[d])
        /\ Counted(k)' = Counted(k) \cup {e} /\ Allocated(k)' = Allocated(k) \cup {e}
        /\ Written(k)' = Written(k) \cup {e} /\ Finished(k)' = Finished(k) \cup {e}
    BY <1>1, <1>2, <1>8, Moves
  <2> QED
    BY <1>4, <2>1
<1>10. buffer(k)' = c
  BY <1>1, <1>2, <1>8, OtherBuffers DEF buffer
<1>11. added(k)' = added(k) /\ swapped' = swapped
  BY <1>8 DEF added, swapped
<1>12. CountInv(k)'
  <2>1. Cardinality(Finished(k) \cup {e}) = Cardinality(Finished(k)) + 1
    BY <1>4, BlockSets, OneMore
  <2>2. Cardinality(Finished(k)) \in Nat
    BY BlockSets, FiniteEnvs
  <2>3. added(k) \in Nat
    BY <1>1, Sizes DEF added, TypeInv
  <2>4. b.done_count_ = Cardinality(Finished(k)) + added(k)
    BY <1>2, <1>3 DEF BlockInv, CountInv
  <2>5. c.done_count_ = Cardinality(Finished(k))' + added(k)'
    BY <1>6, <1>9, <1>11, <2>1, <2>2, <2>3, <2>4
  <2> QED
    BY <1>2, <1>3, <1>6, <1>9, <1>10, <2>5 DEF BlockInv, CountInv
<1>13. SignalInv(k)'
  <2>1. /\ ~(b.sem_ > 0) /\ \A d \in At(k) : pc[d] # "signal"
        /\ ~(k = swapped /\ cpc \in {"signal", "account", "swap"})
    BY <1>1, <1>2, <1>3, NotAllDone
  <2>2. (\E d \in At(k)' : pc'[d] = "signal") => x = "signal"
    BY <1>9, <2>1
  <2>3. x = "signal" => c.done_count_ = batch_
    BY <1>6, <1>7 DEF Completes
  <2> QED
    BY <1>6, <1>8, <1>10, <1>11, <2>1, <2>2, <2>3 DEF SignalInv
<1>14. SliceInv(k)'
  BY <1>2, <1>3, <1>6, <1>8, <1>9, <1>10 DEF BlockInv, SliceInv, is_sync_
<1>15. RowInv(k)'
  BY <1>2, <1>3, <1>6, <1>8, <1>9, <1>10 DEF BlockInv, RowInv
<1>16. BlockInv(k)'
  BY <1>12, <1>13, <1>14, <1>15 DEF BlockInv
<1>17. slice' \in [Envs -> [shared : Nat, player : Nat, players : Nat]] /\ slice' = slice
  BY <1>1, <1>8 DEF TypeInv
<1> QED
  BY <1>1, <1>2, <1>6, <1>7, <1>8, <1>16, <1>17, ProducerFrame

LEMMA SignalStep ==
  ASSUME IInv, NEW e \in Envs, Signal(e)
  PROVE  IInv'
<1>1. pc[e] = "signal" /\ TypeInv /\ TicketInv
  BY DEF Signal, Step, IInv
<1>2. PICK k \in Nat : /\ k = block(ticket[e]) /\ k \in LiveBlocks /\ e \in At(k) /\ e \in Ticketed
                       /\ BlockInv(k) /\ buffer(k) \in Buffer /\ slotOf(e) = offset(k)
  BY <1>1, ProducerFacts
<1>3. PICK b \in Buffer : b = buffer(k)
  BY <1>2
<1>4. e \in Counted(k) /\ e \in Allocated(k) /\ e \in Written(k) /\ e \in Finished(k)
  BY <1>1, <1>2 DEF Counted, Allocated, Written, Finished
<1>5. PICK c : c = SignalBuffer(b)
  OBVIOUS
<1>6. /\ c \in Buffer /\ c.done_count_ = b.done_count_ /\ c.shared = b.shared
      /\ c.alloc_count_ = b.alloc_count_ /\ c.row = b.row
  BY <1>3, <1>5 DEF Buffer, SignalBuffer
<1>7. /\ pc' = [pc EXCEPT ![e] = "ready"] /\ queue_' = [queue_ EXCEPT ![offset(k)] = c]
      /\ UNCHANGED <<slice, ticket, order, alloc_count_, done_ptr_, cpc, additional, wpos, arr>>
  BY <1>2, <1>3, <1>5 DEF Signal, Step, Update, buffer, waitVars
<1>8. /\ At(k)' = At(k)
      /\ Counted(k)' = Counted(k) /\ Allocated(k)' = Allocated(k)
      /\ Written(k)' = Written(k) /\ Finished(k)' = Finished(k)
  <2>1. /\ At(k)' = At(k)
        /\ Counted(k)' = Counted(k) \cup {e} /\ Allocated(k)' = Allocated(k) \cup {e}
        /\ Written(k)' = Written(k) \cup {e} /\ Finished(k)' = Finished(k) \cup {e}
    BY <1>1, <1>2, <1>7, Moves
  <2> QED
    BY <1>4, <2>1
<1>9. buffer(k)' = c
  BY <1>1, <1>2, <1>7, OtherBuffers DEF buffer
<1>10. added(k)' = added(k)
  BY <1>7 DEF added, swapped
<1>11. CountInv(k)'
  BY <1>2, <1>3, <1>6, <1>8, <1>9, <1>10 DEF BlockInv, CountInv
<1>12. SignalInv(k)'
  <2>1. b.done_count_ = batch_
    BY <1>1, <1>2, <1>3 DEF BlockInv, SignalInv
  <2> QED
    BY <1>6, <1>9, <2>1 DEF SignalInv
<1>13. SliceInv(k)'
  BY <1>2, <1>3, <1>6, <1>7, <1>8, <1>9 DEF BlockInv, SliceInv, is_sync_
<1>14. RowInv(k)'
  BY <1>2, <1>3, <1>6, <1>7, <1>8, <1>9 DEF BlockInv, RowInv
<1>15. BlockInv(k)'
  BY <1>11, <1>12, <1>13, <1>14 DEF BlockInv
<1>16. slice' \in [Envs -> [shared : Nat, player : Nat, players : Nat]] /\ slice' = slice
  BY <1>1, <1>7 DEF TypeInv
<1> QED
  BY <1>1, <1>2, <1>6, <1>7, <1>15, <1>16, ProducerFrame

\* A block that has envs neither arrive nor move keeps its invariant while the
\* consumer and the buffers stay as they are.
LEMMA StillBlock ==
  ASSUME NEW k, BlockInv(k), Ticketed \in SUBSET Ticketed', Ticketed' \in SUBSET Envs,
         \A e \in Ticketed : pc'[e] = pc[e] /\ ticket'[e] = ticket[e] /\ order'[e] = order[e],
         \A e \in Ticketed' \ Ticketed : pc'[e] = "count",
         queue_' = queue_, slice' = slice, done_ptr_' = done_ptr_, cpc' = cpc,
         additional' = additional
  PROVE  BlockInv(k)'
<1>1. swapped' = swapped /\ added(k)' = added(k) /\ buffer(k)' = buffer(k)
  BY DEF swapped, added, buffer
<1>2. /\ Counted(k)' = Counted(k) /\ Allocated(k)' = Allocated(k)
      /\ Written(k)' = Written(k) /\ Finished(k)' = Finished(k)
  BY DEF At, Counted, Allocated, Written, Finished
<1>3. (\E e \in At(k)' : pc'[e] = "signal") => (\E e \in At(k) : pc[e] = "signal")
  BY DEF At
<1>4. \A e \in Allocated(k) : order'[e] = order[e]
  BY BlockSets
<1>5. CountInv(k)'
  BY <1>1, <1>2 DEF BlockInv, CountInv
<1>6. SignalInv(k)'
  BY <1>1, <1>3 DEF BlockInv, SignalInv
<1>7. SliceInv(k)'
  BY <1>1, <1>2, <1>4 DEF BlockInv, SliceInv, is_sync_
<1>8. RowInv(k)'
  BY <1>1, <1>2 DEF BlockInv, RowInv
<1> QED
  BY <1>5, <1>6, <1>7, <1>8 DEF BlockInv

LEMMA SendAsyncStep ==
  ASSUME IInv, NEW e \in Envs, SendAsync(e)
  PROVE  IInv'
<1>1. TypeInv /\ TicketInv /\ SyncInv /\ ReturnInv /\ \A k \in LiveBlocks : BlockInv(k)
  BY DEF IInv
<1>2. /\ ~is_sync_ /\ pc[e] = "idle" /\ pc' = [pc EXCEPT ![e] = "ticket"]
      /\ UNCHANGED <<queue_, alloc_count_, done_ptr_, order, ticket, slice, cpc, additional, wpos, arr>>
  BY DEF SendAsync, waitVars
<1>3. /\ pc' \in [Envs -> {"idle", "ticket", "count", "offset", "fill", "done", "signal", "ready"}]
      /\ pc'[e] = "ticket" /\ \A d \in Envs \ {e} : pc'[d] = pc[d]
  BY <1>1, <1>2 DEF TypeInv
<1>4. Ticketed' = Ticketed /\ \A d \in Ticketed : pc'[d] = pc[d] /\ d \in Envs
  BY <1>2, <1>3 DEF Ticketed
<1>5. swapped' = swapped /\ LiveBlocks' = LiveBlocks
  BY <1>2 DEF swapped, LiveBlocks
<1>6. TypeInv'
  BY <1>1, <1>2, <1>3, <1>5 DEF TypeInv
<1>7. TicketInv'
  BY <1>1, <1>2, <1>4, <1>5 DEF TicketInv
<1>8. SyncInv'
  BY <1>1, <1>2 DEF SyncInv, is_sync_
<1>9. \A k : At(k)' = At(k) /\ Finished(k)' = Finished(k)
  BY <1>2, <1>4 DEF At, Finished
<1>10. ReturnInv'
  BY <1>1, <1>2, <1>5, <1>9 DEF ReturnInv
<1>11. \A k \in LiveBlocks : BlockInv(k)'
  <2> TAKE k \in LiveBlocks
  <2> QED
    BY <1>1, <1>2, <1>4, StillBlock
<1> QED
  BY <1>5, <1>6, <1>7, <1>8, <1>10, <1>11 DEF IInv

LEMMA SendSyncStep ==
  ASSUME IInv, NEW S \in SUBSET Envs, NEW f \in Numberings(S), SendSync(S, f)
  PROVE  IInv'
<1>1. TypeInv /\ TicketInv /\ SyncInv /\ ReturnInv /\ \A k \in LiveBlocks : BlockInv(k)
  BY DEF IInv
<1>2. /\ is_sync_ /\ cpc = "idle" /\ InFlight = {}
      /\ pc' = [e \in Envs |-> IF e \in S THEN "ticket" ELSE pc[e]]
      /\ order' = [e \in Envs |-> IF e \in S THEN f[e] ELSE order[e]]
      /\ UNCHANGED <<queue_, alloc_count_, done_ptr_, ticket, slice, cpc, additional, wpos, arr>>
  BY DEF SendSync, waitVars
<1>3. /\ \A e \in Envs : pc[e] = "idle"
      /\ \A e \in Envs : pc'[e] = IF e \in S THEN "ticket" ELSE "idle"
  BY <1>2 DEF InFlight
<1>4. Ticketed' = {} /\ Ticketed = {} /\ InFlight' = S
  BY <1>3 DEF Ticketed, InFlight
<1>5. /\ f \in [S -> 0 .. Cardinality(S) - 1] /\ \A d, e \in S : f[d] = f[e] => d = e
  BY DEF Numberings
<1>6. Cardinality(S) \in Nat /\ Cardinality(S) <= batch_ /\ batch_ \in Nat
  BY <1>2, FiniteEnvs, Sizes DEF is_sync_
<1>7. swapped' = swapped /\ LiveBlocks' = LiveBlocks
  BY <1>2 DEF swapped, LiveBlocks
<1>8. \A e \in S : order'[e] = f[e]
  BY <1>2
<1>9. TypeInv'
  <2>1. order' \in [Envs -> {NoOrder} \cup 0 .. batch_ - 1]
    BY <1>1, <1>2, <1>5, <1>6 DEF TypeInv
  <2>2. pc' \in [Envs -> {"idle", "ticket", "count", "offset", "fill", "done", "signal", "ready"}]
    BY <1>1, <1>2 DEF TypeInv
  <2> QED
    BY <1>1, <1>2, <1>7, <2>1, <2>2 DEF TypeInv
<1>10. TicketInv'
  BY <1>1, <1>2, <1>4, <1>7 DEF TicketInv
<1>11. SyncInv'
  <2>1. \A e \in S : order'[e] \in 0 .. Cardinality(S) - 1
    BY <1>5, <1>8
  <2>2. \A d, e \in S : order'[d] = order'[e] => d = e
    BY <1>5, <1>8
  <2>3. cpc' \notin Waiting /\ additional' = 0
    BY <1>1, <1>2 DEF SyncInv, Waiting
  <2> QED
    BY <1>2, <1>4, <2>1, <2>2, <2>3 DEF SyncInv, is_sync_, Waiting
<1>12. ReturnInv'
  BY <1>2 DEF ReturnInv
<1>13. \A k \in LiveBlocks : BlockInv(k)'
  <2> TAKE k \in LiveBlocks
  <2> QED
    BY <1>1, <1>2, <1>4, StillBlock
<1> QED
  BY <1>7, <1>9, <1>10, <1>11, <1>12, <1>13 DEF IInv

\* While Wait holds what it collected, everything of its block is done; if some
\* envs were missing then nobody else is on the way.
LEMMA Collected ==
  ASSUME IInv, cpc \in {"account", "swap"}
  PROVE  /\ Cardinality(At(swapped)) + additional = batch_
         /\ additional > 0 => InFlight = At(swapped)
<1>1. TypeInv /\ TicketInv /\ SyncInv /\ \A k \in LiveBlocks : BlockInv(k)
  BY DEF IInv
<1>2. swapped \in Nat /\ swapped \in LiveBlocks
  BY <1>1, SwappedType, Sizes DEF LiveBlocks
<1>3. buffer(swapped).done_count_ = batch_
  BY <1>1, <1>2 DEF BlockInv, SignalInv
<1>4. Cardinality(At(swapped)) + additional = batch_
  BY <1>2, <1>3, AllDone DEF added
<1> QED
  BY <1>1, <1>2, <1>4, RoomForTickets

LEMMA TakeTicketStep ==
  ASSUME IInv, NEW e \in Envs, TakeTicket(e)
  PROVE  IInv'
<1>1. TypeInv /\ TicketInv /\ SyncInv /\ ReturnInv /\ \A k \in LiveBlocks : BlockInv(k)
  BY DEF IInv
<1>2. /\ pc[e] = "ticket" /\ pc' = [pc EXCEPT ![e] = "count"]
      /\ ticket' = [ticket EXCEPT ![e] = alloc_count_] /\ alloc_count_' = alloc_count_ + 1
      /\ UNCHANGED <<queue_, done_ptr_, order, slice, cpc, additional, wpos, arr>>
  BY DEF TakeTicket, Step, waitVars
<1>3. /\ pc' \in [Envs -> {"idle", "ticket", "count", "offset", "fill", "done", "signal", "ready"}]
      /\ pc'[e] = "count" /\ \A d \in Envs \ {e} : pc'[d] = pc[d]
  BY <1>1, <1>2 DEF TypeInv
<1>4. /\ ticket' \in [Envs -> Nat] /\ alloc_count_ \in Nat
      /\ ticket'[e] = alloc_count_ /\ \A d \in Envs \ {e} : ticket'[d] = ticket[d]
  BY <1>1, <1>2 DEF TypeInv
<1>5. e \notin Ticketed /\ Ticketed' = Ticketed \cup {e} /\ InFlight' = InFlight /\ e \in InFlight
  BY <1>2, <1>3 DEF Ticketed, InFlight
<1>6. \A d \in Ticketed : d \in Envs \ {e} /\ pc'[d] = pc[d] /\ ticket'[d] = ticket[d]
  BY <1>3, <1>4, <1>5, BlockSets
<1>7. swapped' = swapped /\ LiveBlocks' = LiveBlocks /\ swapped \in Nat
  BY <1>1, <1>2, SwappedType DEF swapped, LiveBlocks
<1>8. PICK n \in Nat, base \in Nat : n = Cardinality(Ticketed) /\ base = swapped * batch_
  <2>1. swapped * batch_ \in Nat
    BY <1>7, Sizes
  <2> QED
    BY <2>1, BlockSets, FiniteEnvs
<1>9. Cardinality(Ticketed)' = n + 1
  BY <1>5, <1>8, BlockSets, OneMore
<1>10. /\ cpc \in {"account", "swap"} => additional = 0 /\ e \notin At(swapped)
       /\ alloc_count_ = base + n
  <2>1. cpc \in {"account", "swap"} => additional = 0
    <3>1. e \notin At(swapped)
      BY <1>5, BlockSets
    <3> QED
      BY <1>1, <1>5, <3>1, Collected, Sizes DEF TypeInv
  <2> QED
    BY <1>1, <1>5, <1>8, <2>1, BlockSets DEF TicketInv
<1>11. TypeInv'
  BY <1>1, <1>2, <1>3, <1>4, <1>7 DEF TypeInv
<1>12. TicketInv'
  <2>1. alloc_count_' = base + (n + 1) + (IF cpc = "swap" THEN additional ELSE 0)
    BY <1>2, <1>8, <1>10
  <2>2. \A d \in Ticketed : base <= ticket[d] /\ ticket[d] < base + n
    BY <1>1, <1>8 DEF TicketInv
  <2>3. \A d \in Ticketed' : base <= ticket'[d] /\ ticket'[d] < base + (n + 1)
    <3> TAKE d \in Ticketed'
    <3>1. CASE d = e
      BY <1>4, <1>8, <1>10, <3>1
    <3>2. CASE d \in Ticketed
      <4>1. ticket'[d] = ticket[d] /\ ticket[d] \in Nat
        BY <1>1, <1>6, <3>2 DEF TypeInv
      <4> QED
        BY <1>8, <2>2, <3>2, <4>1
    <3> QED
      BY <1>5, <3>1, <3>2
  <2>4. \A c, d \in Ticketed' : ticket'[c] = ticket'[d] => c = d
    <3>1. \A d \in Ticketed : ticket'[d] # ticket'[e]
      BY <1>4, <1>6, <1>8, <1>10, <2>2
    <3>2. \A c, d \in Ticketed : ticket'[c] = ticket'[d] => c = d
      BY <1>1, <1>6 DEF TicketInv
    <3> QED
      BY <1>5, <3>1, <3>2
  <2> QED
    BY <1>2, <1>7, <1>8, <1>9, <2>1, <2>3, <2>4 DEF TicketInv
<1>13. SyncInv'
  BY <1>1, <1>2, <1>5 DEF SyncInv, is_sync_, Waiting
<1>14. ReturnInv'
  <2> SUFFICES ASSUME cpc \in {"account", "swap"}
               PROVE  At(swapped)' = At(swapped) /\ Finished(swapped)' = Finished(swapped)
    BY <1>1, <1>2, <1>7 DEF ReturnInv
  <2>1. Cardinality(At(swapped)) = batch_
    BY <1>10, Collected, FewTickets, <1>1, <1>7
  <2>2. batch_ <= n /\ batch_ \in Nat
    BY <1>8, <2>1, BlockSets, NotMore, Sizes
  <2>3. (swapped + 1) * batch_ <= alloc_count_
    <3>1. (swapped + 1) * batch_ = base + batch_
      BY <1>7, <1>8, <2>2
    <3> QED
      BY <1>8, <1>10, <2>2, <3>1
  <2>4. swapped + 1 <= block(alloc_count_) /\ block(alloc_count_) \in Nat
    BY <1>4, <1>7, <2>3, BlockAtLeast, BlockTickets
  <2>5. block(ticket'[e]) # swapped
    BY <1>4, <1>7, <2>4
  <2>6. \A d \in Ticketed : block(ticket'[d]) = block(ticket[d])
    BY <1>6
  <2>7. At(swapped)' = {d \in Ticketed' : block(ticket'[d]) = swapped}
    BY <1>7 DEF At
  <2>8. At(swapped)' = At(swapped)
    BY <1>5, <2>5, <2>6, <2>7 DEF At
  <2> QED
    BY <1>6, <1>7, <2>8, BlockSets DEF Finished
<1>15. \A k \in LiveBlocks : BlockInv(k)'
  <2> TAKE k \in LiveBlocks
  <2>1. Ticketed' \in SUBSET Envs /\ \A d \in Ticketed' \ Ticketed : pc'[d] = "count"
    BY <1>3, <1>5, BlockSets
  <2> QED
    BY <1>1, <1>2, <1>5, <1>6, <2>1, StillBlock
<1> QED
  BY <1>7, <1>11, <1>12, <1>13, <1>14, <1>15 DEF IInv

-----------------------------------------------------------------------------
(* The steps of the consumer and of the creating threads. *)

LEMMA SameSets ==
  ASSUME pc' = pc, ticket' = ticket
  PROVE  /\ Ticketed' = Ticketed /\ InFlight' = InFlight
         /\ \A k : /\ At(k)' = At(k) /\ Counted(k)' = Counted(k) /\ Allocated(k)' = Allocated(k)
                   /\ Written(k)' = Written(k) /\ Finished(k)' = Finished(k)
<1>1. Ticketed' = Ticketed /\ InFlight' = InFlight
  BY DEF Ticketed, InFlight
<1>2. \A k : At(k)' = At(k)
  BY <1>1 DEF At
<1>3. \A k : /\ Counted(k)' = Counted(k) /\ Allocated(k)' = Allocated(k)
             /\ Written(k)' = Written(k) /\ Finished(k)' = Finished(k)
  BY <1>2 DEF Counted, Allocated, Written, Finished
<1> QED
  BY <1>1, <1>2, <1>3

\* The consumer changes at most the buffer of the block it waits for.
LEMMA ConsumerFrame ==
  ASSUME IInv, pc' = pc, ticket' = ticket, slice' = slice, order' = order, swapped' = swapped,
         \A j \in LiveBlocks \ {swapped} : queue_'[offset(j)] = buffer(j),
         TypeInv', TicketInv', SyncInv', ReturnInv', BlockInv(swapped)'
  PROVE  IInv'
<1>1. LiveBlocks' = LiveBlocks
  BY DEF LiveBlocks
<1>2. \A j \in LiveBlocks \ {swapped} : BlockInv(j)'
  <2> TAKE j \in LiveBlocks \ {swapped}
  <2>1. /\ Counted(j)' = Counted(j) /\ Allocated(j)' = Allocated(j)
        /\ Written(j)' = Written(j) /\ Finished(j)' = Finished(j) /\ At(j)' = At(j)
    BY SameSets
  <2>2. added(j) = 0 /\ added(j)' = 0 /\ buffer(j)' = buffer(j) /\ BlockInv(j)
    BY DEF added, buffer, IInv
  <2> QED
    BY <2>1, <2>2, BlockFrame
<1>3. \A j \in LiveBlocks' : BlockInv(j)'
  <2>1. ASSUME NEW j \in LiveBlocks PROVE BlockInv(j)'
    <3>1. CASE j = swapped
      BY <3>1
    <3>2. CASE j # swapped
      BY <1>2, <3>2
    <3> QED
      BY <3>1, <3>2
  <2> QED
    BY <1>1, <2>1
<1> QED
  BY <1>3 DEF IInv

\* Moving on without touching a buffer or a count.
LEMMA MoveOn ==
  ASSUME IInv, producerVars' = producerVars, queue_' = queue_, alloc_count_' = alloc_count_,
         swapped' = swapped, arr' = arr, TypeInv', SyncInv',
         cpc \notin {"account", "swap"}, cpc' \notin {"signal", "account", "swap"},
         added(swapped)' = added(swapped)
  PROVE  IInv'
<1>1. pc' = pc /\ ticket' = ticket /\ slice' = slice /\ order' = order
  BY DEF producerVars
<1>2. /\ TypeInv /\ TicketInv /\ SyncInv /\ ReturnInv /\ \A k \in LiveBlocks : BlockInv(k)
      /\ swapped \in LiveBlocks
  BY SwappedType, Sizes DEF IInv, LiveBlocks
<1>3. TicketInv'
  <2>1. Ticketed' = Ticketed
    BY <1>1, SameSets
  <2> QED
    BY <1>1, <1>2, <2>1 DEF TicketInv
<1>4. ReturnInv'
  BY DEF ReturnInv
<1>5. BlockInv(swapped)'
  <2>1. PICK k : k = swapped
    OBVIOUS
  <2>2. /\ Counted(k)' = Counted(k) /\ Allocated(k)' = Allocated(k)
        /\ Written(k)' = Written(k) /\ Finished(k)' = Finished(k) /\ At(k)' = At(k)
    BY <1>1, SameSets
  <2>3. added(k)' = added(k) /\ buffer(k)' = buffer(k) /\ BlockInv(k) /\ k = swapped'
    BY <1>2, <2>1 DEF buffer
  <2>4. BlockInv(k)'
    BY <1>1, <2>2, <2>3, BlockFrame
  <2> QED
    BY <2>3, <2>4
<1>6. \A j \in LiveBlocks \ {swapped} : queue_'[offset(j)] = buffer(j)
  BY DEF buffer
<1> QED
  BY <1>1, <1>3, <1>4, <1>5, <1>6, ConsumerFrame

LEMMA CallWaitStep == IInv /\ CallWait => IInv'
<1> SUFFICES ASSUME IInv, CallWait PROVE IInv'
  OBVIOUS
<1>1. /\ cpc = "idle" /\ cpc' = "stock" /\ additional' = missing /\ producerVars' = producerVars
      /\ UNCHANGED <<queue_, alloc_count_, done_ptr_, wpos, arr>>
  BY DEF CallWait, Goto
<1>2. pc' = pc /\ ticket' = ticket /\ slice' = slice /\ order' = order
  BY <1>1 DEF producerVars
<1>3. TypeInv /\ SyncInv
  BY DEF IInv
<1>4. swapped' = swapped /\ InFlight' = InFlight
  BY <1>1, <1>2, SameSets DEF swapped
<1>5. PICK n \in Nat : n = Cardinality(InFlight) /\ n <= num_envs
  BY BlockSets, FiniteEnvs
<1>6. /\ missing \in 0 .. batch_
      /\ is_sync_ => missing + n = batch_
      /\ ~is_sync_ => missing = 0
  BY <1>5, Sizes DEF missing, is_sync_
<1>7. TypeInv'
  <2>1. cpc' \in Waiting \cup {"idle", "destroy", "gone"} /\ cpc' \notin Claimed
    BY <1>1 DEF Waiting, Claimed
  <2> QED
    BY <1>1, <1>2, <1>3, <1>4, <1>6, <2>1 DEF TypeInv
<1>8. SyncInv'
  BY <1>1, <1>2, <1>3, <1>4, <1>5, <1>6 DEF SyncInv, is_sync_, Waiting
<1>9. added(swapped)' = added(swapped)
  BY <1>1 DEF added
<1> QED
  BY <1>1, <1>4, <1>7, <1>8, <1>9, MoveOn

LEMMA TakeFromStockStep == IInv /\ TakeFromStock => IInv'
<1> SUFFICES ASSUME IInv, TakeFromStock PROVE IInv'
  OBVIOUS
<1>1. /\ cpc = "stock" /\ cpc' = "claim" /\ producerVars' = producerVars
      /\ UNCHANGED <<queue_, alloc_count_, done_ptr_, additional, wpos, arr>>
  BY DEF TakeFromStock, Goto, waitVars
<1>2. pc' = pc /\ ticket' = ticket /\ slice' = slice /\ order' = order
  BY <1>1 DEF producerVars
<1>3. TypeInv /\ SyncInv
  BY DEF IInv
<1>4. swapped' = swapped /\ InFlight' = InFlight
  BY <1>1, <1>2, SameSets DEF swapped
<1>5. TypeInv'
  <2>1. cpc' \in Waiting \cup {"idle", "destroy", "gone"} /\ cpc' \notin Claimed
    BY <1>1 DEF Waiting, Claimed
  <2> QED
    BY <1>1, <1>2, <1>3, <1>4, <2>1 DEF TypeInv
<1>6. SyncInv'
  BY <1>1, <1>2, <1>3, <1>4 DEF SyncInv, is_sync_, Waiting
<1>7. added(swapped)' = added(swapped)
  BY <1>1 DEF added
<1> QED
  BY <1>1, <1>4, <1>5, <1>6, <1>7, MoveOn

LEMMA ClaimBlockStep == IInv /\ ClaimBlock => IInv'
<1> SUFFICES ASSUME IInv, ClaimBlock PROVE IInv'
  OBVIOUS
<1>1. /\ cpc = "claim" /\ cpc' \in {"add", "wait"} /\ (cpc' = "wait" => ~(additional > 0))
      /\ producerVars' = producerVars /\ wpos' = done_ptr_ /\ done_ptr_' = done_ptr_ + 1
      /\ UNCHANGED <<queue_, alloc_count_, additional, arr>>
  BY DEF ClaimBlock, Goto
<1>2. pc' = pc /\ ticket' = ticket /\ slice' = slice /\ order' = order
  BY <1>1 DEF producerVars
<1>3. TypeInv /\ SyncInv /\ done_ptr_ \in Nat /\ additional \in Nat
  BY Sizes DEF IInv, TypeInv
<1>4. swapped' = swapped /\ InFlight' = InFlight /\ swapped = done_ptr_
  BY <1>1, <1>2, <1>3, SameSets DEF swapped
<1>5. TypeInv'
  <2>1. cpc' \in Waiting \cup {"idle", "destroy", "gone"}
    BY <1>1 DEF Waiting
  <2>2. wpos' = swapped' /\ done_ptr_' > 0 /\ done_ptr_' \in Nat
    BY <1>1, <1>3, <1>4
  <2> QED
    BY <1>1, <1>2, <1>3, <2>1, <2>2 DEF TypeInv
<1>6. SyncInv'
  BY <1>1, <1>2, <1>3, <1>4 DEF SyncInv, is_sync_, Waiting
<1>7. added(swapped)' = added(swapped)
  BY <1>1, <1>3 DEF added
<1> QED
  BY <1>1, <1>4, <1>5, <1>6, <1>7, MoveOn

\* The creating threads and the destructor touch none of this.
LEMMA AsideStep ==
  ASSUME IInv, producerVars' = producerVars,
         UNCHANGED <<queue_, alloc_count_, done_ptr_, additional, arr>>,
         \/ cpc' = cpc /\ wpos' = wpos
         \/ /\ cpc \in {"idle", "destroy"} /\ cpc' \in {"destroy", "gone"} /\ wpos' \in Nat
  PROVE  IInv'
<1>1. TypeInv /\ TicketInv /\ SyncInv /\ ReturnInv /\ \A k \in LiveBlocks : BlockInv(k)
  BY DEF IInv
<1>2. pc' = pc /\ ticket' = ticket /\ slice' = slice /\ order' = order
  BY DEF producerVars
<1>3. /\ swapped' = swapped /\ LiveBlocks' = LiveBlocks /\ Ticketed' = Ticketed
      /\ InFlight' = InFlight
  BY <1>2, SameSets DEF swapped, LiveBlocks
<1>4. TypeInv'
  <2>1. /\ cpc' \in Waiting \cup {"idle", "destroy", "gone"} /\ wpos' \in Nat
        /\ cpc' \in Claimed => cpc' = cpc /\ wpos' = wpos
    BY <1>1 DEF TypeInv, Claimed
  <2> QED
    BY <1>1, <1>2, <1>3, <2>1 DEF TypeInv
<1>5. TicketInv'
  BY <1>1, <1>2, <1>3 DEF TicketInv
<1>6. SyncInv'
  BY <1>1, <1>2, <1>3 DEF SyncInv, is_sync_, Waiting
<1>7. ReturnInv'
  BY <1>1, <1>2, <1>3, SameSets DEF ReturnInv
<1>8. \A k \in LiveBlocks : BlockInv(k)'
  <2> TAKE k \in LiveBlocks
  <2>1. /\ Counted(k)' = Counted(k) /\ Allocated(k)' = Allocated(k)
        /\ Written(k)' = Written(k) /\ Finished(k)' = Finished(k) /\ At(k)' = At(k)
    BY <1>2, SameSets
  <2>2. added(k)' = added(k) /\ buffer(k)' = buffer(k)
    BY <1>3 DEF added, buffer
  <2> QED
    BY <1>1, <1>2, <1>3, <2>1, <2>2, BlockFrame
<1> QED
  BY <1>3, <1>4, <1>5, <1>6, <1>7, <1>8 DEF IInv

\* What Wait may rely on once it has claimed its block.
LEMMA ClaimedFacts ==
  ASSUME IInv, cpc \in Claimed
  PROVE  /\ wpos = swapped /\ swapped \in Nat /\ swapped \in LiveBlocks /\ wpos \in Nat
         /\ buffer(swapped) \in Buffer /\ BlockInv(swapped) /\ additional \in Nat
         /\ swapped = done_ptr_ - 1 /\ done_ptr_ \in Nat
<1>1. TypeInv /\ \A k \in LiveBlocks : BlockInv(k)
  BY DEF IInv
<1>2. wpos = swapped /\ swapped \in Nat /\ swapped \in LiveBlocks /\ wpos \in Nat
  BY <1>1, SwappedType, Sizes DEF LiveBlocks
<1>3. buffer(swapped) \in Buffer
  BY <1>1, <1>2, OffsetType DEF TypeInv, buffer
<1>4. additional \in Nat /\ done_ptr_ \in Nat
  BY <1>1, Sizes DEF TypeInv
<1> QED
  BY <1>1, <1>2, <1>3, <1>4 DEF swapped, Claimed

LEMMA AddDoneStep == IInv /\ AddDone => IInv'
<1> SUFFICES ASSUME IInv, AddDone PROVE IInv'
  OBVIOUS
<1>1. PICK k \in Nat : k = swapped /\ k = wpos /\ k \in LiveBlocks /\ buffer(k) \in Buffer /\ BlockInv(k)
                       /\ additional \in Nat
  BY ClaimedFacts DEF AddDone, Goto, Claimed
<1>2. PICK b \in Buffer : b = buffer(k)
  BY <1>1
<1>3. PICK c : c = CountDone(b, additional)
  OBVIOUS
<1>4. /\ c \in Buffer /\ c.done_count_ = b.done_count_ + additional /\ c.shared = b.shared
      /\ c.alloc_count_ = b.alloc_count_ /\ c.sem_ = b.sem_ /\ c.row = b.row
  BY <1>1, <1>3 DEF Buffer, CountDone
<1>5. /\ cpc = "add" /\ cpc' \in {"signal", "wait"}
      /\ cpc' = "signal" => c.done_count_ = batch_
      /\ queue_' = [queue_ EXCEPT ![offset(k)] = c]
      /\ producerVars' = producerVars
      /\ UNCHANGED <<alloc_count_, done_ptr_, additional, wpos, arr>>
  BY <1>1, <1>2, <1>3, <1>4 DEF AddDone, Goto, Update, buffer, waitVars, Completes
<1>6. pc' = pc /\ ticket' = ticket /\ slice' = slice /\ order' = order
  BY <1>5 DEF producerVars
<1>7. TypeInv /\ TicketInv /\ SyncInv
  BY DEF IInv
<1>8. swapped' = swapped
  BY <1>5 DEF swapped
<1>9. /\ Counted(k)' = Counted(k) /\ Allocated(k)' = Allocated(k) /\ Written(k)' = Written(k)
      /\ Finished(k)' = Finished(k) /\ At(k)' = At(k) /\ Ticketed' = Ticketed
      /\ InFlight' = InFlight
  BY <1>6, SameSets
<1>10. buffer(k)' = c /\ \A j \in LiveBlocks \ {k} : queue_'[offset(j)] = buffer(j)
  BY <1>1, <1>5, <1>7, OtherBuffers DEF buffer
<1>11. added(k) = 0 /\ added(k)' = additional
  BY <1>1, <1>5, <1>8 DEF added
<1>12. b.done_count_ = Cardinality(Finished(k)) /\ b.done_count_ \in Nat
  <2>1. b.done_count_ = Cardinality(Finished(k)) + 0
    BY <1>1, <1>2, <1>11 DEF BlockInv, CountInv
  <2> QED
    BY <2>1, BlockSets, FiniteEnvs
<1>13. CountInv(k)'
  BY <1>1, <1>2, <1>4, <1>9, <1>10, <1>11, <1>12 DEF BlockInv, CountInv
<1>14. SignalInv(k)'
  <2>1. CASE b.done_count_ = batch_
    <3>1. Cardinality(At(k)) + additional <= batch_ /\ Cardinality(At(k)) + added(k) = batch_
      BY <1>1, <1>2, <1>7, <2>1, AllDone, RoomForTickets
    <3>2. additional = 0
      BY <1>1, <1>11, <3>1, BlockSets, FiniteEnvs, Sizes
    <3> QED
      BY <1>4, <1>10, <1>12, <2>1, <3>2 DEF SignalInv
  <2>2. CASE b.done_count_ # batch_
    <3>1. ~(b.sem_ > 0) /\ \A e \in At(k) : pc[e] # "signal"
      BY <1>1, <1>2, <2>2 DEF BlockInv, SignalInv
    <3> QED
      BY <1>4, <1>5, <1>6, <1>9, <1>10, <3>1 DEF SignalInv
  <2> QED
    BY <2>1, <2>2
<1>15. SliceInv(k)'
  BY <1>1, <1>2, <1>4, <1>6, <1>9, <1>10 DEF BlockInv, SliceInv, is_sync_
<1>16. RowInv(k)'
  BY <1>1, <1>2, <1>4, <1>6, <1>9, <1>10 DEF BlockInv, RowInv
<1>17. BlockInv(k)'
  BY <1>13, <1>14, <1>15, <1>16 DEF BlockInv
<1>18. TypeInv'
  <2>1. queue_' \in [0 .. queue_size_ - 1 -> Buffer]
    BY <1>4, <1>5, <1>7 DEF TypeInv
  <2>2. cpc' \in Waiting \cup {"idle", "destroy", "gone"} /\ cpc \in Claimed
    BY <1>5 DEF Waiting, Claimed
  <2> QED
    BY <1>5, <1>6, <1>7, <1>8, <2>1, <2>2 DEF TypeInv
<1>19. TicketInv'
  BY <1>5, <1>6, <1>7, <1>8, <1>9 DEF TicketInv
<1>20. SyncInv'
  BY <1>5, <1>6, <1>7, <1>9 DEF SyncInv, is_sync_, Waiting
<1>21. ReturnInv'
  BY <1>5 DEF ReturnInv
<1> QED
  BY <1>1, <1>6, <1>8, <1>10, <1>17, <1>18, <1>19, <1>20, <1>21, ConsumerFrame

LEMMA AddSignalStep == IInv /\ AddSignal => IInv'
<1> SUFFICES ASSUME IInv, AddSignal PROVE IInv'
  OBVIOUS
<1>1. PICK k \in Nat : k = swapped /\ k = wpos /\ k \in LiveBlocks /\ buffer(k) \in Buffer /\ BlockInv(k)
  BY ClaimedFacts DEF AddSignal, Goto, Claimed
<1>2. PICK b \in Buffer : b = buffer(k)
  BY <1>1
<1>3. PICK c : c = SignalBuffer(b)
  OBVIOUS
<1>4. /\ c \in Buffer /\ c.done_count_ = b.done_count_ /\ c.shared = b.shared
      /\ c.alloc_count_ = b.alloc_count_ /\ c.row = b.row
  BY <1>3 DEF Buffer, SignalBuffer
<1>5. /\ cpc = "signal" /\ cpc' = "wait"
      /\ queue_' = [queue_ EXCEPT ![offset(k)] = c]
      /\ producerVars' = producerVars
      /\ UNCHANGED <<alloc_count_, done_ptr_, additional, wpos, arr>>
  BY <1>1, <1>2, <1>3 DEF AddSignal, Goto, Update, buffer, waitVars
<1>6. pc' = pc /\ ticket' = ticket /\ slice' = slice /\ order' = order
  BY <1>5 DEF producerVars
<1>7. TypeInv /\ TicketInv /\ SyncInv
  BY DEF IInv
<1>8. swapped' = swapped
  BY <1>5 DEF swapped
<1>9. /\ Counted(k)' = Counted(k) /\ Allocated(k)' = Allocated(k) /\ Written(k)' = Written(k)
      /\ Finished(k)' = Finished(k) /\ At(k)' = At(k) /\ Ticketed' = Ticketed
      /\ InFlight' = InFlight
  BY <1>6, SameSets
<1>10. buffer(k)' = c /\ \A j \in LiveBlocks \ {k} : queue_'[offset(j)] = buffer(j)
  BY <1>1, <1>5, <1>7, OtherBuffers DEF buffer
<1>11. added(k)' = added(k)
  BY <1>1, <1>5, <1>8 DEF added
<1>12. CountInv(k)'
  BY <1>1, <1>2, <1>4, <1>9, <1>10, <1>11 DEF BlockInv, CountInv
<1>13. SignalInv(k)'
  <2>1. b.done_count_ = batch_
    BY <1>1, <1>2, <1>5 DEF BlockInv, SignalInv
  <2> QED
    BY <1>4, <1>10, <2>1 DEF SignalInv
<1>14. SliceInv(k)'
  BY <1>1, <1>2, <1>4, <1>6, <1>9, <1>10 DEF BlockInv, SliceInv, is_sync_
<1>15. RowInv(k)'
  BY <1>1, <1>2, <1>4, <1>6, <1>9, <1>10 DEF BlockInv, RowInv
<1>16. BlockInv(k)'
  BY <1>12, <1>13, <1>14, <1>15 DEF BlockInv
<1>17. TypeInv'
  <2>1. queue_' \in [0 .. queue_size_ - 1 -> Buffer]
    BY <1>4, <1>5, <1>7 DEF TypeInv
  <2>2. cpc' \in Waiting \cup {"idle", "destroy", "gone"} /\ cpc \in Claimed
    BY <1>5 DEF Waiting, Claimed
  <2> QED
    BY <1>5, <1>6, <1>7, <1>8, <2>1, <2>2 DEF TypeInv
<1>18. TicketInv'
  BY <1>5, <1>6, <1>7, <1>8, <1>9 DEF TicketInv
<1>19. SyncInv'
  BY <1>5, <1>6, <1>7, <1>9 DEF SyncInv, is_sync_, Waiting
<1>20. ReturnInv'
  BY <1>5 DEF ReturnInv
<1> QED
  BY <1>1, <1>6, <1>8, <1>10, <1>16, <1>17, <1>18, <1>19, <1>20, ConsumerFrame

LEMMA CollectStep == IInv /\ Collect => IInv'
<1> SUFFICES ASSUME IInv, Collect PROVE IInv'
  OBVIOUS
<1>1. PICK k \in Nat : k = swapped /\ k = wpos /\ k \in LiveBlocks /\ buffer(k) \in Buffer /\ BlockInv(k)
                       /\ additional \in Nat
  BY ClaimedFacts DEF Collect, Goto, Claimed
<1>2. PICK b \in Buffer : b = buffer(k)
  BY <1>1
<1>3. PICK c : c = [b EXCEPT !.sem_ = b.sem_ - 1]
  OBVIOUS
<1>4. /\ cpc = "wait" /\ cpc' \in {"account", "swap"}
      /\ cpc' = "swap" => ~(additional > 0)
      /\ b.sem_ > 0
      /\ queue_' = [queue_ EXCEPT ![offset(k)] = c]
      /\ arr' = [r \in 0 .. b.shared - 1 |-> b.row[r]]
      /\ producerVars' = producerVars
      /\ UNCHANGED <<alloc_count_, done_ptr_, additional, wpos>>
  BY <1>1, <1>2, <1>3 DEF Collect, Goto, Update, buffer
<1>5. /\ c \in Buffer /\ c.done_count_ = b.done_count_ /\ c.shared = b.shared
      /\ c.alloc_count_ = b.alloc_count_ /\ c.row = b.row
  BY <1>3, <1>4 DEF Buffer
<1>6. pc' = pc /\ ticket' = ticket /\ slice' = slice /\ order' = order
  BY <1>4 DEF producerVars
<1>7. TypeInv /\ TicketInv /\ SyncInv
  BY DEF IInv
<1>8. swapped' = swapped
  BY <1>4 DEF swapped
<1>9. /\ Counted(k)' = Counted(k) /\ Allocated(k)' = Allocated(k) /\ Written(k)' = Written(k)
      /\ Finished(k)' = Finished(k) /\ At(k)' = At(k) /\ Ticketed' = Ticketed
      /\ InFlight' = InFlight
  BY <1>6, SameSets
<1>10. buffer(k)' = c /\ \A j \in LiveBlocks \ {k} : queue_'[offset(j)] = buffer(j)
  BY <1>1, <1>4, <1>7, OtherBuffers DEF buffer
<1>11. added(k)' = added(k) /\ added(k) = additional
  BY <1>1, <1>4, <1>8 DEF added
<1>12. b.done_count_ = batch_
  BY <1>1, <1>2, <1>4 DEF BlockInv, SignalInv
<1>13. CountInv(k)'
  BY <1>1, <1>2, <1>5, <1>9, <1>10, <1>11 DEF BlockInv, CountInv
<1>14. SignalInv(k)'
  BY <1>5, <1>10, <1>12 DEF SignalInv
<1>15. SliceInv(k)'
  BY <1>1, <1>2, <1>5, <1>6, <1>9, <1>10 DEF BlockInv, SliceInv, is_sync_
<1>16. RowInv(k)'
  BY <1>1, <1>2, <1>5, <1>6, <1>9, <1>10 DEF BlockInv, RowInv
<1>17. BlockInv(k)'
  BY <1>13, <1>14, <1>15, <1>16 DEF BlockInv
<1>18. TypeInv'
  <2>1. queue_' \in [0 .. queue_size_ - 1 -> Buffer]
    BY <1>4, <1>5, <1>7 DEF TypeInv
  <2>2. cpc' \in Waiting \cup {"idle", "destroy", "gone"} /\ cpc \in Claimed
    BY <1>4 DEF Waiting, Claimed
  <2> QED
    BY <1>4, <1>6, <1>7, <1>8, <2>1, <2>2 DEF TypeInv
<1>19. TicketInv'
  <2>1. (IF cpc' = "swap" THEN additional' ELSE 0) = 0 /\ (IF cpc = "swap" THEN additional ELSE 0) = 0
    BY <1>1, <1>4
  <2> QED
    BY <1>4, <1>6, <1>7, <1>8, <1>9, <2>1 DEF TicketInv
<1>20. SyncInv'
  BY <1>4, <1>6, <1>7, <1>9 DEF SyncInv, is_sync_, Waiting
<1>21. ReturnInv'
  <2>1. At(k) = Finished(k) /\ Cardinality(At(k)) + additional = batch_
    BY <1>1, <1>2, <1>11, <1>12, AllDone
  <2>2. Allocated(k) = At(k) /\ Written(k) = At(k)
    BY <2>1, BlockSets
  <2>3. b.shared = Cardinality(At(k)) /\ b.shared \in Nat /\ b.shared <= batch_ /\ batch_ \in Nat
    <3>1. b.shared = Cardinality(At(k))
      BY <1>1, <1>2, <2>2 DEF BlockInv, CountInv
    <3> QED
      BY <1>1, <1>7, <3>1, FewTickets, Sizes
  <2>4. \A e \in At(k) : e \in Envs /\ slice[e].shared \in 0 .. b.shared - 1
    <3> TAKE e \in At(k)
    <3>1. /\ slice[e].shared \in Rows
          /\ IF is_sync_ THEN slice[e].shared = order[e] ELSE slice[e].shared < b.shared
      BY <1>1, <1>2, <2>2 DEF BlockInv, SliceInv
    <3>2. CASE is_sync_
      <4>1. e \in InFlight /\ e \in Envs
        BY BlockSets
      <4>2. order[e] \in 0 .. Cardinality(InFlight) - 1 /\ additional + Cardinality(InFlight) = batch_
        BY <1>4, <1>7, <3>2, <4>1 DEF SyncInv, Waiting
      <4>3. Cardinality(InFlight) = b.shared
        BY <1>1, <2>1, <2>3, <4>2, BlockSets, FiniteEnvs
      <4> QED
        BY <3>1, <3>2, <4>1, <4>2, <4>3
    <3>3. CASE ~is_sync_
      BY <2>3, <3>1, <3>3, BlockSets DEF Rows
    <3> QED
      BY <3>2, <3>3
  <2>5. \A r \in 0 .. b.shared - 1 : r \in Rows
    BY <2>3 DEF Rows
  <2>6. \A r \in Rows : \A e \in Envs : b.row[r] = e <=> e \in At(k) /\ slice[e].shared = r
    BY <1>1, <1>2, <2>2 DEF BlockInv, RowInv
  <2>7. \A e \in At(k) : \E r \in DOMAIN arr' : arr'[r] = e
    <3> TAKE e \in At(k)
    <3>1. PICK r : r = slice[e].shared
      OBVIOUS
    <3>2. r \in 0 .. b.shared - 1 /\ b.row[r] = e
      BY <2>4, <2>5, <2>6, <3>1
    <3> QED
      BY <1>4, <3>2
  <2>8. \A r \in DOMAIN arr' : arr'[r] \in Envs => arr'[r] \in At(k)
    BY <1>4, <2>5, <2>6
  <2> QED
    BY <1>1, <1>8, <1>9, <2>1, <2>7, <2>8 DEF ReturnInv
<1> QED
  BY <1>1, <1>6, <1>8, <1>10, <1>17, <1>18, <1>19, <1>20, <1>21, ConsumerFrame

LEMMA AccountStep == IInv /\ Account => IInv'
<1> SUFFICES ASSUME IInv, Account PROVE IInv'
  OBVIOUS
<1>1. /\ cpc = "account" /\ cpc' = "swap" /\ alloc_count_' = alloc_count_ + additional
      /\ producerVars' = producerVars
      /\ UNCHANGED <<queue_, done_ptr_, additional, wpos, arr>>
  BY DEF Account, Goto, waitVars, moveOn
<1>2. pc' = pc /\ ticket' = ticket /\ slice' = slice /\ order' = order
  BY <1>1 DEF producerVars
<1>3. TypeInv /\ TicketInv /\ SyncInv /\ ReturnInv
  BY DEF IInv
<1>4. PICK k \in Nat : k = swapped /\ k \in LiveBlocks /\ BlockInv(k) /\ additional \in Nat
  BY <1>1, ClaimedFacts DEF Claimed
<1>5. swapped' = swapped
  BY <1>1 DEF swapped
<1>6. /\ Counted(k)' = Counted(k) /\ Allocated(k)' = Allocated(k) /\ Written(k)' = Written(k)
      /\ Finished(k)' = Finished(k) /\ At(k)' = At(k) /\ Ticketed' = Ticketed
      /\ InFlight' = InFlight
  BY <1>2, SameSets
<1>7. BlockInv(k)'
  <2>1. added(k)' = added(k) /\ buffer(k)' = buffer(k)
    BY <1>1, <1>5 DEF added, buffer
  <2> QED
    BY <1>1, <1>2, <1>4, <1>6, <2>1, BlockFrame
<1>8. TypeInv'
  <2>1. cpc' \in Waiting \cup {"idle", "destroy", "gone"} /\ cpc \in Claimed
    BY <1>1 DEF Waiting, Claimed
  <2>2. alloc_count_' \in Nat
    BY <1>1, <1>3, <1>4 DEF TypeInv
  <2> QED
    BY <1>1, <1>2, <1>3, <1>5, <2>1, <2>2 DEF TypeInv
<1>9. TicketInv'
  <2>1. PICK n \in Nat, base \in Nat : n = Cardinality(Ticketed) /\ base = swapped * batch_
    <3>1. swapped * batch_ \in Nat
      BY <1>4, Sizes
    <3> QED
      BY <3>1, BlockSets, FiniteEnvs
  <2>2. alloc_count_ = base + n
    BY <1>1, <1>3, <2>1 DEF TicketInv
  <2>3. alloc_count_' = base + n + additional
    BY <1>1, <2>2
  <2> QED
    BY <1>1, <1>2, <1>3, <1>5, <1>6, <2>1, <2>3 DEF TicketInv
<1>10. SyncInv'
  BY <1>1, <1>2, <1>3, <1>6 DEF SyncInv, is_sync_, Waiting
<1>11. ReturnInv'
  BY <1>1, <1>3, <1>4, <1>5, <1>6 DEF ReturnInv
<1>12. \A j \in LiveBlocks \ {swapped} : queue_'[offset(j)] = buffer(j)
  BY <1>1 DEF buffer
<1> QED
  BY <1>2, <1>4, <1>5, <1>7, <1>8, <1>9, <1>10, <1>11, <1>12, ConsumerFrame

LEMMA FreshType == FreshBuffer \in Buffer
<1> DEFINE rows == [r \in Rows |-> Nobody]
           prows == [r \in PlayerRows |-> Nobody]
<1>1. rows \in [Rows -> Envs \cup {Nobody}] /\ prows \in [PlayerRows -> Envs \cup {Nobody}]
  OBVIOUS
<1> QED
  BY <1>1 DEF FreshBuffer, Buffer

LEMMA SwapStep == IInv /\ Swap => IInv'
<1> SUFFICES ASSUME IInv, Swap PROVE IInv'
  OBVIOUS
<1>1. TypeInv /\ TicketInv /\ SyncInv /\ ReturnInv /\ \A k \in LiveBlocks : BlockInv(k)
  BY DEF IInv
<1>2. PICK k \in Nat : k = swapped /\ k = wpos /\ k = done_ptr_ - 1 /\ k \in LiveBlocks
                       /\ additional \in Nat /\ done_ptr_ \in Nat
  BY ClaimedFacts DEF Swap, Claimed
<1>3. PICK R \in SUBSET Envs : R = At(k)
  BY BlockSets
<1>4. /\ \A e \in R : \E r \in DOMAIN arr : arr[r] = e
      /\ \A r \in DOMAIN arr : arr[r] \in Envs => arr[r] \in R
      /\ cpc = "swap"
  BY <1>1, <1>2, <1>3 DEF ReturnInv, Swap
<1>5. PICK returned : returned = {arr[r] : r \in DOMAIN arr}
  OBVIOUS
<1>6. \A e \in Envs : e \in returned <=> e \in R
  BY <1>4, <1>5
<1>7. /\ cpc' = "idle" /\ queue_' = [queue_ EXCEPT ![offset(k)] = FreshBuffer]
      /\ pc' = [e \in Envs |-> IF e \in returned THEN "idle" ELSE pc[e]]
      /\ order' = [e \in Envs |-> IF e \in returned THEN NoOrder ELSE order[e]]
      /\ ticket' = [e \in Envs |-> IF e \in returned THEN 0 ELSE ticket[e]]
      /\ slice' = [e \in Envs |-> IF e \in returned THEN NoSlice ELSE slice[e]]
      /\ additional' = 0 /\ wpos' = 0 /\ arr' = NoRows
      /\ alloc_count_' = alloc_count_ /\ done_ptr_' = done_ptr_
  BY <1>2, <1>5 DEF Swap, Update
<1>8. /\ \A e \in R : pc'[e] = "idle" /\ order'[e] = NoOrder
      /\ \A e \in Envs \ R : /\ pc'[e] = pc[e] /\ order'[e] = order[e] /\ ticket'[e] = ticket[e]
                             /\ slice'[e] = slice[e]
  BY <1>6, <1>7
<1>9. swapped' = k + 1 /\ LiveBlocks' = k + 1 .. k + queue_size_ /\ queue_size_ \in Nat \ {0}
      /\ LiveBlocks = k .. k + queue_size_ - 1
  <2>1. swapped' = done_ptr_
    BY <1>7 DEF swapped
  <2>2. swapped' = k + 1 /\ queue_size_ \in Nat \ {0}
    BY <1>2, <2>1, Sizes
  <2> QED
    BY <1>2, <2>2 DEF LiveBlocks
<1>10. Ticketed' = Ticketed \ R /\ R \in SUBSET Ticketed /\ InFlight' = InFlight \ R
  BY <1>3, <1>8, BlockSets DEF Ticketed, InFlight
<1>11. Cardinality(R) + additional = batch_ /\ (additional > 0 => InFlight = R)
  BY <1>2, <1>3, <1>4, Collected
<1>12. TypeInv'
  <2>1. queue_' \in [0 .. queue_size_ - 1 -> Buffer]
    BY <1>1, <1>7, FreshType DEF TypeInv
  <2>2. /\ pc' \in [Envs -> {"idle", "ticket", "count", "offset", "fill", "done", "signal", "ready"}]
        /\ order' \in [Envs -> {NoOrder} \cup 0 .. batch_ - 1]
        /\ ticket' \in [Envs -> Nat]
    BY <1>1, <1>7 DEF TypeInv
  <2>3. slice' \in [Envs -> [shared : Nat, player : Nat, players : Nat]]
    <3>1. NoSlice \in [shared : Nat, player : Nat, players : Nat]
      BY DEF NoSlice
    <3> QED
      BY <1>1, <1>7, <3>1 DEF TypeInv
  <2>4. cpc' \in Waiting \cup {"idle", "destroy", "gone"} /\ cpc' \notin Claimed
    BY <1>7 DEF Claimed
  <2>5. additional' \in 0 .. batch_ /\ wpos' \in Nat
    BY <1>7, Sizes
  <2>6. alloc_count_' \in Nat /\ done_ptr_' \in Nat
    BY <1>1, <1>7 DEF TypeInv
  <2> QED
    BY <2>1, <2>2, <2>3, <2>4, <2>5, <2>6 DEF TypeInv
<1>13. \A e \in Ticketed' : /\ e \in Ticketed /\ e \in Envs \ R
                            /\ ticket'[e] = ticket[e] /\ ticket[e] \in Nat
                            /\ block(ticket[e]) # k /\ k <= block(ticket[e])
                            /\ block(ticket[e]) \in Nat
                            /\ block(ticket[e]) < k + queue_size_
  <2> TAKE e \in Ticketed'
  <2>1. e \in Ticketed /\ e \in Envs \ R
    BY <1>10, BlockSets
  <2>2. block(ticket[e]) # k
    BY <1>3, <2>1 DEF At
  <2> QED
    BY <1>1, <1>2, <1>8, <1>9, <2>1, <2>2, TicketLive DEF LiveBlocks
<1>14. TicketInv'
  <2>1. PICK n \in Nat, m \in Nat, base \in Nat :
          n = Cardinality(Ticketed) /\ m = Cardinality(R) /\ base = k * batch_
    <3>1. k * batch_ \in Nat
      BY Sizes
    <3> QED
      BY <3>1, BlockSets, FiniteEnvs
  <2>2. Cardinality(Ticketed)' = n - m /\ batch_ \in Nat
    BY <1>10, <2>1, BlockSets, Without, Sizes
  <2>3. swapped' * batch_ = base + batch_
    BY <1>9, <2>1, <2>2
  <2>4. alloc_count_ = base + n + additional
    BY <1>1, <1>2, <1>4, <2>1 DEF TicketInv
  <2>5. alloc_count_' = swapped' * batch_ + Cardinality(Ticketed)'
    BY <1>2, <1>7, <1>11, <2>1, <2>2, <2>3, <2>4
  <2>6. \A e \in Ticketed' : swapped' * batch_ <= ticket'[e]
                             /\ ticket'[e] < swapped' * batch_ + Cardinality(Ticketed)'
    <3> TAKE e \in Ticketed'
    <3>1. ticket[e] < base + n
      BY <1>1, <1>2, <1>13, <2>1 DEF TicketInv
    <3>2. base + n <= (base + batch_) + (n - m)
      BY <1>2, <1>11, <2>1, <2>2
    <3>3. ticket'[e] < swapped' * batch_ + Cardinality(Ticketed)'
      BY <1>13, <2>1, <2>2, <2>3, <3>1, <3>2
    <3>4. PICK p \in Nat : p = block(ticket[e]) /\ k + 1 <= p /\ p * batch_ <= ticket[e]
      BY <1>13, BlockTickets
    <3>5. (k + 1) * batch_ <= p * batch_ /\ (k + 1) * batch_ = base + batch_ /\ p * batch_ \in Nat
      BY <2>1, <2>2, <3>4
    <3> QED
      BY <1>13, <2>1, <2>2, <2>3, <3>3, <3>4, <3>5
  <2>7. \A d, e \in Ticketed' : ticket'[d] = ticket'[e] => d = e
    BY <1>1, <1>13 DEF TicketInv
  <2>8. swapped' * batch_ + Cardinality(Ticketed)' + 0 = swapped' * batch_ + Cardinality(Ticketed)'
    BY <2>1, <2>2, <2>3
  <2>9. (IF cpc' = "swap" THEN additional' ELSE 0) = 0
    BY <1>7
  <2> QED
    BY <2>5, <2>6, <2>7, <2>8, <2>9 DEF TicketInv
<1>15. SyncInv'
  <2>1. ~is_sync_ => \A e \in Envs : order'[e] = NoOrder
    BY <1>1, <1>8 DEF SyncInv
  <2>2. is_sync_ => InFlight' = {}
    <3> SUFFICES ASSUME is_sync_ PROVE InFlight = R
      BY <1>10
    <3>1. additional + Cardinality(InFlight) = batch_
      BY <1>1, <1>4 DEF SyncInv, Waiting
    <3>2. R \in SUBSET InFlight /\ Cardinality(InFlight) \in Nat /\ Cardinality(R) \in Nat
      BY <1>10, BlockSets, FiniteEnvs
    <3>3. Cardinality(R) = Cardinality(InFlight)
      BY <1>2, <1>11, <3>1, <3>2, Sizes
    <3> QED
      BY <3>2, <3>3, NotMore, BlockSets
  <2>3. cpc' \notin Waiting /\ additional' = 0
    BY <1>7 DEF Waiting
  <2> QED
    BY <2>1, <2>2, <2>3 DEF SyncInv, is_sync_, Waiting
<1>16. ReturnInv'
  BY <1>7 DEF ReturnInv
<1>17. \A j \in LiveBlocks' : BlockInv(j)'
  <2> TAKE j \in LiveBlocks'
  <2>1. j \in Nat /\ added(j)' = 0
    BY <1>7, <1>9 DEF added
  <2>2. CASE j = k + queue_size_
    <3>1. At(j)' = {}
      BY <1>13, <2>2, <1>9 DEF At
    <3>2. offset(j) = offset(k)
      BY <1>9, <2>2, NextLap DEF offset
    <3>3. buffer(j)' = FreshBuffer
      BY <1>1, <1>2, <1>7, <3>2, OtherBuffers DEF buffer
    <3>4. /\ Counted(j)' = {} /\ Allocated(j)' = {} /\ Written(j)' = {} /\ Finished(j)' = {}
      BY <3>1 DEF Counted, Allocated, Written, Finished
    <3>5. Cardinality({}) = 0
      BY FS_EmptySet
    <3>6. CountInv(j)'
      BY <2>1, <3>3, <3>4, <3>5 DEF CountInv, FreshBuffer
    <3>7. SignalInv(j)'
      BY <1>7, <3>1, <3>3 DEF SignalInv, FreshBuffer
    <3>8. SliceInv(j)'
      BY <3>4 DEF SliceInv
    <3>9. RowInv(j)'
      BY <3>3, <3>4, QueueAssumption DEF RowInv, FreshBuffer
    <3> QED
      BY <3>6, <3>7, <3>8, <3>9 DEF BlockInv
  <2>3. CASE j # k + queue_size_
    <3>1. j \in LiveBlocks \ {k}
      BY <1>9, <2>1, <2>3
    <3>2. BlockInv(j) /\ buffer(j)' = buffer(j)
      BY <1>1, <1>2, <1>7, <3>1, OtherBuffers DEF buffer
    <3>3. At(j) \cap R = {} /\ At(j) \in SUBSET (Envs \ R)
      BY <1>3, <3>1, BlockSets DEF At
    <3>4. At(j)' = {e \in Ticketed' : block(ticket'[e]) = j}
      BY DEF At
    <3>5. At(j)' = At(j)
      BY <1>10, <1>13, <3>3, <3>4 DEF At
    <3>6. \A e \in At(j) : pc'[e] = pc[e] /\ slice'[e] = slice[e] /\ order'[e] = order[e]
      BY <1>8, <3>3
    <3>7. /\ Counted(j)' = Counted(j) /\ Allocated(j)' = Allocated(j)
          /\ Written(j)' = Written(j) /\ Finished(j)' = Finished(j)
      BY <3>5, <3>6 DEF Counted, Allocated, Written, Finished
    <3>8. added(j) = 0
      BY <1>2, <3>1 DEF added
    <3>9. CountInv(j)'
      BY <2>1, <3>2, <3>7, <3>8 DEF BlockInv, CountInv
    <3>10. SignalInv(j)'
      BY <1>7, <3>2, <3>5, <3>6 DEF BlockInv, SignalInv
    <3>11. SliceInv(j)'
      BY <3>2, <3>6, <3>7, BlockSets DEF BlockInv, SliceInv, is_sync_
    <3>12. RowInv(j)'
      BY <3>2, <3>6, <3>7, BlockSets DEF BlockInv, RowInv
    <3> QED
      BY <3>9, <3>10, <3>11, <3>12 DEF BlockInv
  <2> QED
    BY <2>2, <2>3
<1> QED
  BY <1>12, <1>14, <1>15, <1>16, <1>17 DEF IInv

-----------------------------------------------------------------------------
(* The invariant. *)

LEMMA InitInv == Init => IInv
<1> SUFFICES ASSUME Init PROVE IInv
  OBVIOUS
<1> USE DEF Init
<1>1. swapped = 0 /\ additional = 0 /\ cpc = "idle"
  BY DEF swapped
<1>2. Ticketed = {} /\ InFlight = {} /\ Cardinality({}) = 0 /\ batch_ \in Nat
  BY FS_EmptySet, Sizes DEF Ticketed, InFlight
<1>3. TypeInv
  <2>1. NoSlice \in [shared : Nat, player : Nat, players : Nat]
    BY DEF NoSlice
  <2>2. queue_ \in [0 .. queue_size_ - 1 -> Buffer]
    BY FreshType
  <2> QED
    BY <1>1, <1>2, <2>1, <2>2 DEF TypeInv, Claimed
<1>4. TicketInv
  BY <1>1, <1>2 DEF TicketInv
<1>5. SyncInv
  BY <1>1, <1>2 DEF SyncInv, Waiting
<1>6. ReturnInv
  BY <1>1 DEF ReturnInv
<1>7. \A k \in LiveBlocks : BlockInv(k)
  <2> TAKE k \in LiveBlocks
  <2>1. k \in Nat /\ offset(k) \in 0 .. queue_size_ - 1
    BY <1>1, OffsetType DEF LiveBlocks
  <2>2. buffer(k) = FreshBuffer
    BY <2>1 DEF buffer
  <2>3. /\ At(k) = {} /\ Counted(k) = {} /\ Allocated(k) = {} /\ Written(k) = {}
        /\ Finished(k) = {} /\ added(k) = 0
    BY <1>1, <1>2 DEF At, Counted, Allocated, Written, Finished, added
  <2>4. CountInv(k)
    BY <1>2, <2>2, <2>3 DEF CountInv, FreshBuffer
  <2>5. SignalInv(k)
    BY <1>1, <2>2, <2>3 DEF SignalInv, FreshBuffer
  <2>6. SliceInv(k)
    BY <2>3 DEF SliceInv
  <2>7. RowInv(k)
    BY <2>2, <2>3, QueueAssumption DEF RowInv, FreshBuffer
  <2> QED
    BY <2>4, <2>5, <2>6, <2>7 DEF BlockInv
<1> QED
  BY <1>3, <1>4, <1>5, <1>6, <1>7 DEF IInv

LEMMA StepInv == IInv /\ [Next]_vars => IInv'
<1> SUFFICES ASSUME IInv, [Next]_vars PROVE IInv'
  OBVIOUS
<1>1. ASSUME NEW e \in Envs, SendAsync(e) PROVE IInv'
  BY <1>1, SendAsyncStep
<1>2. ASSUME NEW e \in Envs, ProducerStep(e) PROVE IInv'
  BY <1>2, TakeTicketStep, TakeQuotaStep, TakeOffsetsStep, FillStep, DoneStep, SignalStep
     DEF ProducerStep
<1>3. ASSUME NEW S \in SUBSET Envs, NEW f \in Numberings(S), SendSync(S, f) PROVE IInv'
  BY <1>3, SendSyncStep
<1>4. ASSUME NEW p \in Creators, CreatorStep(p) PROVE IInv'
  <2>1. /\ producerVars' = producerVars /\ cpc' = cpc /\ wpos' = wpos
        /\ UNCHANGED <<queue_, alloc_count_, done_ptr_, additional, arr>>
    BY <1>4 DEF CreatorStep, CreatorPut, TestQuit, waitVars
  <2> QED
    BY <2>1, AsideStep
<1>5. CASE WaitStep
  BY <1>5, TakeFromStockStep, ClaimBlockStep, AddDoneStep, AddSignalStep, CollectStep, AccountStep,
     SwapStep DEF WaitStep
<1>6. CASE Destroy \/ DestroyStep
  <2>1. wpos \in Nat
    BY DEF IInv, TypeInv
  <2>2. /\ producerVars' = producerVars /\ UNCHANGED <<queue_, alloc_count_, done_ptr_, additional, arr>>
        /\ cpc \in {"idle", "destroy"} /\ cpc' \in {"destroy", "gone"} /\ wpos' \in Nat
    BY <1>6, <2>1 DEF Destroy, DestroyStep, DestroyGet, DestroyJoin, Goto, waitVars
  <2> QED
    BY <2>2, AsideStep
<1>7. CASE (\E t \in late : Compare(t)) \/ UNCHANGED vars
  <2>1. /\ producerVars' = producerVars /\ cpc' = cpc /\ wpos' = wpos
        /\ UNCHANGED <<queue_, alloc_count_, done_ptr_, additional, arr>>
    BY <1>7 DEF Compare, vars, waitVars
  <2> QED
    BY <2>1, AsideStep
<1> QED
  BY <1>1, <1>2, <1>3, <1>4, <1>5, <1>6, <1>7, CallWaitStep DEF Next

\* The invariant holds in every reachable state of the queue (lines 64-165 of
\* state_buffer_queue.h).
THEOREM Invariance == Spec => []IInv
BY InitInv, StepInv, PTL DEF Spec

\* Whatever the number of envs and the batch size, an env that has a ticket and
\* has not counted itself done, or is to signal, works on the buffer of the
\* ticket's block: Wait has not swapped it out and freed it and the ring has not
\* wrapped onto it, for all tickets lie in half of the ring behind the block
\* swapped next.  The comparison of the others after their count is not covered:
\* for it this is false (ReadsLiveBuffer).
THEOREM WritesLiveBufferCorrect == Spec => []WritesLiveBuffer
<1>1. IInv => WritesLiveBuffer
  <2> SUFFICES ASSUME IInv, NEW e \in Holding
               PROVE  swapped <= block(ticket[e]) /\ block(ticket[e]) < swapped + queue_size_ \div 2
    BY DEF WritesLiveBuffer
  <2>1. e \in Ticketed
    BY DEF Holding, Ticketed
  <2> QED
    BY <2>1, TicketLive DEF IInv
<1> QED
  BY <1>1, Invariance, PTL

\* No producer finds its buffer out of quota: the queue's ticket counter and the
\* buffers' own counters stay in step, though Wait moves the first ahead for the
\* missing envs without a lock.
THEOREM NeverThrowsCorrect == Spec => []NeverThrows
<1>1. IInv => NeverThrows
  BY DEF IInv, TypeInv, NeverThrows
<1> QED
  BY <1>1, Invariance, PTL

\* A finished result is in exactly one row of one buffer, in the ring slot of
\* its ticket, until Wait returns it.
THEOREM ResultKeptCorrect == Spec => []ResultKept
<1>1. IInv => ResultKept
  <2> SUFFICES ASSUME IInv, NEW e \in Envs, pc[e] = "ready"
               PROVE  /\ swapped <= block(ticket[e])
                      /\ \A s \in 0 .. queue_size_ - 1, r \in Rows :
                           queue_[s].row[r] = e <=> s = slotOf(e) /\ r = slice[e].shared
    BY DEF ResultKept
  <2>1. TypeInv /\ TicketInv /\ \A k \in LiveBlocks : BlockInv(k)
    BY DEF IInv
  <2>2. e \in Ticketed
    BY DEF Ticketed
  <2>3. PICK j \in Nat : j = block(ticket[e]) /\ j \in LiveBlocks /\ swapped <= j
    BY <2>1, <2>2, TicketLive
  <2>4. ASSUME NEW s \in 0 .. queue_size_ - 1, NEW r \in Rows
        PROVE  queue_[s].row[r] = e <=> s = slotOf(e) /\ r = slice[e].shared
    <3>1. swapped \in Nat
      BY <2>1, SwappedType
    <3>2. PICK k \in LiveBlocks : offset(k) = s
      BY <3>1, EverySlot DEF LiveBlocks
    <3>3. queue_[s].row[r] = e <=> e \in Written(k) /\ slice[e].shared = r
      BY <2>1, <3>2 DEF BlockInv, RowInv, buffer
    <3>4. e \in Written(k) <=> j = k
      BY <2>2, <2>3 DEF Written, At
    <3>5. j = k <=> s = slotOf(e)
      <4>1. j # k => offset(j) # offset(k)
        BY <2>3, <3>1, <3>2, Sizes, OwnSlot DEF LiveBlocks
      <4> QED
        BY <2>3, <3>2, <4>1 DEF slotOf
    <3> QED
      BY <3>3, <3>4, <3>5
  <2> QED
    BY <2>3, <2>4
<1> QED
  BY <1>1, Invariance, PTL

-----------------------------------------------------------------------------
(* The refinement of BatchQueue. *)

\* What Wait returns has a row for each env it has collected, and is there from
\* the truncation to the swap.
ArrInv ==
  /\ \E n \in 0 .. batch_ : arr \in [0 .. n - 1 -> Envs]
  /\ \A q, r \in DOMAIN arr : arr[q] = arr[r] => q = r
  /\ cpc \notin {"account", "swap"} => DOMAIN arr = {}

\* A set with as many members as there are rows, each in a row of its own, fills
\* all rows.
LEMMA AllRowsTaken ==
  ASSUME NEW S \in SUBSET Envs, NEW n \in Nat, n = Cardinality(S),
         NEW f \in [S -> 0 .. n - 1], \A d, e \in S : f[d] = f[e] => d = e
  PROVE  \A r \in 0 .. n - 1 : \E e \in S : f[e] = r
<1> DEFINE T == {f[e] : e \in S}
           g == [e \in S |-> f[e]]
<1>1. IsFiniteSet(S) /\ IsFiniteSet(0 .. n - 1) /\ Cardinality(0 .. n - 1) = n
  <2>1. IsFiniteSet(S)
    BY FiniteEnvs
  <2>2. 0 \in Int /\ n - 1 \in Int
    OBVIOUS
  <2>3. /\ IsFiniteSet(0 .. n - 1)
        /\ Cardinality(0 .. n - 1) = IF 0 > n - 1 THEN 0 ELSE (n - 1) - 0 + 1
    BY <2>2, FS_Interval
  <2> QED
    BY <2>1, <2>3
<1>2. T \subseteq 0 .. n - 1
  OBVIOUS
<1>3. IsFiniteSet(T) /\ Cardinality(T) \in Nat
  BY <1>1, <1>2, FS_Subset, FS_CardinalityType
<1>4. g \in Injection(S, T)
  BY DEF Injection, IsInjective
<1>5. Cardinality(S) <= Cardinality(T)
  BY <1>3, <1>4, FS_Injection
<1>6. T = 0 .. n - 1
  <2>1. Cardinality(T) <= n /\ (Cardinality(T) = n => T = 0 .. n - 1)
    BY <1>1, <1>2, FS_Subset
  <2> QED
    BY <1>3, <1>5, <2>1
<1> QED
  BY <1>6

LEMMA ArrInit == Init => ArrInv
<1> SUFFICES ASSUME Init PROVE ArrInv
  OBVIOUS
<1>1. arr = [r \in {} |-> Nobody] /\ cpc = "idle"
  BY DEF Init, NoRows
<1>2. arr \in [0 .. 0 - 1 -> Envs] /\ DOMAIN arr = {}
  BY <1>1
<1>3. 0 \in 0 .. batch_
  BY Sizes
<1> QED
  BY <1>2, <1>3 DEF ArrInv

\* The rows of the truncated arrays are the envs of the block, each in one row,
\* in sync mode that of its order.
LEMMA CollectedRows ==
  ASSUME IInv, Collect
  PROVE  \E n \in 0 .. batch_ :
           /\ n = Cardinality(At(swapped))
           /\ arr' \in [0 .. n - 1 -> At(swapped)]
           /\ \A q, r \in 0 .. n - 1 : arr'[q] = arr'[r] => q = r
           /\ \A e \in At(swapped) : \E r \in 0 .. n - 1 : arr'[r] = e
           /\ \A r \in 0 .. n - 1 : is_sync_ => order[arr'[r]] = r
           /\ At(swapped) = Finished(swapped) /\ n + additional = batch_
<1>1. PICK k \in Nat : k = swapped /\ k = wpos /\ k \in LiveBlocks /\ buffer(k) \in Buffer /\ BlockInv(k)
                       /\ additional \in Nat
  BY ClaimedFacts DEF Collect, Goto, Claimed
<1>2. PICK b \in Buffer : b = buffer(k)
  BY <1>1
<1>3. /\ cpc = "wait" /\ b.sem_ > 0
      /\ arr' = [r \in 0 .. b.shared - 1 |-> b.row[r]]
  BY <1>1, <1>2 DEF Collect, Goto, buffer
<1>4. TypeInv /\ TicketInv /\ SyncInv
  BY DEF IInv
<1>5. b.done_count_ = batch_ /\ added(k) = additional
  BY <1>1, <1>2, <1>3 DEF BlockInv, SignalInv, added
<1>6. At(k) = Finished(k) /\ Cardinality(At(k)) + additional = batch_
  BY <1>1, <1>2, <1>5, AllDone
<1>7. Allocated(k) = At(k) /\ Written(k) = At(k) /\ At(k) \in SUBSET Envs
  BY <1>6, BlockSets
<1>8. PICK n \in 0 .. batch_ : n = Cardinality(At(k)) /\ b.shared = n
  <2>1. b.shared = Cardinality(At(k))
    BY <1>1, <1>2, <1>7 DEF BlockInv, CountInv
  <2> QED
    BY <1>1, <1>4, <2>1, FewTickets, Sizes
<1>9. n \in Nat /\ n <= batch_ /\ batch_ \in Nat
  BY Sizes
<1>10. \A e \in At(k) : slice[e].shared \in 0 .. n - 1 /\ (is_sync_ => order[e] = slice[e].shared)
  <2> TAKE e \in At(k)
  <2>1. /\ slice[e].shared \in Rows
        /\ IF is_sync_ THEN slice[e].shared = order[e] ELSE slice[e].shared < b.shared
    BY <1>1, <1>2, <1>7 DEF BlockInv, SliceInv
  <2>2. CASE is_sync_
    <3>1. e \in InFlight /\ e \in Envs
      BY BlockSets
    <3>2. order[e] \in 0 .. Cardinality(InFlight) - 1 /\ additional + Cardinality(InFlight) = batch_
      BY <1>3, <1>4, <2>2, <3>1 DEF SyncInv, Waiting
    <3>3. Cardinality(InFlight) = n
      BY <1>1, <1>6, <1>8, <1>9, <3>2, BlockSets, FiniteEnvs
    <3> QED
      BY <2>1, <2>2, <3>2, <3>3
  <2>3. CASE ~is_sync_
    BY <1>8, <1>9, <2>1, <2>3 DEF Rows
  <2> QED
    BY <2>2, <2>3
<1>11. \A r \in 0 .. n - 1 : r \in Rows
  BY <1>9 DEF Rows
<1>12. \A r \in Rows : \A e \in Envs : b.row[r] = e <=> e \in At(k) /\ slice[e].shared = r
  BY <1>1, <1>2, <1>7 DEF BlockInv, RowInv
<1>13. arr' = [r \in 0 .. n - 1 |-> b.row[r]]
  BY <1>3, <1>8
<1>14. \A r \in 0 .. n - 1 : \E e \in At(k) : slice[e].shared = r
  <2> DEFINE f == [e \in At(k) |-> slice[e].shared]
  <2>1. f \in [At(k) -> 0 .. n - 1]
    BY <1>10
  <2>2. \A d, e \in At(k) : f[d] = f[e] => d = e
    BY <1>1, <1>7 DEF BlockInv, SliceInv
  <2> HIDE DEF f
  <2>3. \A r \in 0 .. n - 1 : \E e \in At(k) : f[e] = r
    BY <1>7, <1>8, <1>9, <2>1, <2>2, AllRowsTaken
  <2> QED
    BY <2>3 DEF f
<1>15. \A r \in 0 .. n - 1 : arr'[r] \in At(k) /\ slice[arr'[r]].shared = r
  <2> TAKE r \in 0 .. n - 1
  <2>1. PICK e \in At(k) : slice[e].shared = r
    BY <1>14
  <2>2. b.row[r] = e
    BY <1>7, <1>11, <1>12, <2>1
  <2> QED
    BY <1>13, <2>1, <2>2
<1>16. \A e \in At(k) : \E r \in 0 .. n - 1 : arr'[r] = e
  <2> TAKE e \in At(k)
  <2>1. slice[e].shared \in 0 .. n - 1 /\ b.row[slice[e].shared] = e
    BY <1>7, <1>10, <1>11, <1>12
  <2> QED
    BY <1>13, <2>1
<1>17. arr' \in [0 .. n - 1 -> At(k)]
  BY <1>13, <1>15
<1>18. \A q, r \in 0 .. n - 1 : arr'[q] = arr'[r] => q = r
  BY <1>15
<1>19. \A r \in 0 .. n - 1 : is_sync_ => order[arr'[r]] = r
  BY <1>10, <1>15
<1> QED
  BY <1>1, <1>6, <1>8, <1>16, <1>17, <1>18, <1>19

LEMMA ArrStep == IInv /\ ArrInv /\ [Next]_vars => ArrInv'
<1> SUFFICES ASSUME IInv, ArrInv, [Next]_vars PROVE ArrInv'
  OBVIOUS
<1>1. CASE Collect
  <2>1. PICK n \in 0 .. batch_ :
           /\ arr' \in [0 .. n - 1 -> At(swapped)]
           /\ \A q, r \in 0 .. n - 1 : arr'[q] = arr'[r] => q = r
    BY <1>1, CollectedRows
  <2>2. cpc' \in {"account", "swap"}
    BY <1>1 DEF Collect, Goto
  <2>3. arr' \in [0 .. n - 1 -> Envs] /\ DOMAIN arr' = 0 .. n - 1
    BY <2>1, BlockSets
  <2> QED
    BY <2>1, <2>2, <2>3 DEF ArrInv
<1>2. CASE Swap
  <2>1. arr' = [r \in {} |-> Nobody]
    BY <1>2 DEF Swap, NoRows
  <2>2. arr' \in [0 .. 0 - 1 -> Envs] /\ DOMAIN arr' = {}
    BY <2>1
  <2>3. 0 \in 0 .. batch_
    BY Sizes
  <2> QED
    BY <2>2, <2>3 DEF ArrInv
<1>3. ASSUME arr' = arr, cpc' \in {"account", "swap"} \/ cpc \notin {"account", "swap"}
      PROVE  ArrInv'
  BY <1>3 DEF ArrInv
<1>4. ASSUME ~Collect, ~Swap
      PROVE  arr' = arr /\ (cpc' \in {"account", "swap"} \/ cpc \notin {"account", "swap"})
  <2>1. CASE (\E t \in late : Compare(t)) \/ UNCHANGED vars
    BY <2>1 DEF Compare, vars, waitVars
  <2>2. ASSUME NEW e \in Envs, SendAsync(e) \/ ProducerStep(e)
        PROVE  arr' = arr /\ cpc' = cpc
    BY <2>2 DEF SendAsync, ProducerStep, TakeTicket, TakeQuota, TakeOffsets, Fill, Done, Signal, Step,
                waitVars
  <2>3. ASSUME NEW S, NEW f, SendSync(S, f)
        PROVE  arr' = arr /\ cpc' = cpc
    BY <2>3 DEF SendSync, waitVars
  <2>4. ASSUME NEW p \in Creators, CreatorStep(p)
        PROVE  arr' = arr /\ cpc' = cpc
    BY <2>4 DEF CreatorStep, CreatorPut, TestQuit, waitVars
  <2>5. CASE CallWait \/ WaitStep \/ Destroy \/ DestroyStep
    BY <1>4, <2>5 DEF CallWait, WaitStep, TakeFromStock, ClaimBlock, AddDone, AddSignal, Account, Goto,
                      Destroy, DestroyStep, DestroyGet, DestroyJoin, waitVars
  <2> QED
    BY <2>1, <2>2, <2>3, <2>4, <2>5 DEF Next
<1> QED
  BY <1>1, <1>2, <1>3, <1>4

\* Once collected, the envs of the block are those that are returned.
Returned == {arr[r] : r \in DOMAIN arr}

LEMMA ReturnedEnvs ==
  ASSUME IInv, ArrInv
  PROVE  /\ Returned = IF cpc \in {"account", "swap"} THEN At(swapped) ELSE {}
         /\ reserving = Ticketed \ Returned
<1>1. reserving = Ticketed \ Returned
  BY DEF reserving, Ticketed, InFlight, Returned
<1>2. CASE cpc \in {"account", "swap"}
  <2>1. Returned \in SUBSET Envs
    BY DEF ArrInv, Returned
  <2>2. /\ \A e \in At(swapped) : e \in Returned
        /\ \A e \in Returned : e \in At(swapped)
    BY <1>2, <2>1 DEF IInv, ReturnInv, Returned
  <2> QED
    BY <1>1, <1>2, <2>2
<1>3. CASE cpc \notin {"account", "swap"}
  BY <1>1, <1>3 DEF ArrInv, Returned
<1> QED
  BY <1>2, <1>3

first_ticket == collected * batch_
index(e) == ticket[e] - first_ticket + 1

\* The reservations have the tickets from first_ticket on, without a gap.
LEMMA TicketsOfReservations ==
  ASSUME IInv, ArrInv
  PROVE  /\ first_ticket \in Nat /\ reserving \in SUBSET Envs /\ Cardinality(reserving) \in Nat
         /\ \A e \in reserving : index(e) \in 1 .. Cardinality(reserving)
         /\ \A d, e \in reserving : index(d) = index(e) => d = e
<1>1. TypeInv /\ TicketInv /\ SyncInv
  BY DEF IInv
<1>2. reserving \in SUBSET Ticketed /\ reserving \in SUBSET Envs
  BY BlockSets, ReturnedEnvs
<1>3. PICK s \in Nat : s = swapped
  BY <1>1, SwappedType
<1>4. PICK b \in Nat \ {0} : b = batch_
  BY Sizes
<1>5. PICK m \in Nat : m = Cardinality(reserving)
  BY <1>2, FiniteEnvs
<1>6. PICK n \in Nat : n = Cardinality(Ticketed)
  BY BlockSets, FiniteEnvs
<1>7. \A e \in reserving : ticket[e] \in Nat /\ s * b <= ticket[e] /\ ticket[e] < s * b + n
  BY <1>1, <1>2, <1>3, <1>4, <1>6, BlockSets DEF TypeInv, TicketInv
<1>8. \E x \in Nat : x = first_ticket /\ \A e \in reserving : x <= ticket[e] /\ ticket[e] < x + m
  <2>1. CASE cpc \in {"account", "swap"}
    <3>1. collected = s + 1
      BY <1>1, <1>3, <2>1, ClaimedFacts DEF collected, swapped, TypeInv
    <3>2. first_ticket = s * b + b /\ s * b \in Nat
      BY <1>3, <1>4, <3>1 DEF first_ticket
    <3>3. PICK a \in Nat : a = Cardinality(At(swapped)) /\ m = n - a
      <4>1. reserving = Ticketed \ At(swapped) /\ At(swapped) \in SUBSET Ticketed
        BY <2>1, ReturnedEnvs, BlockSets
      <4>2. Cardinality(reserving) = Cardinality(Ticketed) - Cardinality(At(swapped))
        BY <4>1, BlockSets, Without
      <4>3. Cardinality(At(swapped)) \in Nat
        BY <1>1, <1>3, FewTickets
      <4> QED
        BY <1>5, <1>6, <4>2, <4>3
    <3>4. a + additional = b /\ additional \in Nat /\ (additional > 0 => InFlight = At(swapped))
      BY <1>1, <1>4, <2>1, <3>3, Collected DEF TypeInv
    <3>5. ASSUME NEW e \in reserving
          PROVE  s * b + b <= ticket[e] /\ ticket[e] < s * b + b + m
      <4>1. e \in Ticketed /\ e \notin At(swapped) /\ e \in InFlight
        BY <2>1, ReturnedEnvs, BlockSets
      <4>2. a = b
        BY <3>4, <4>1
      <4>3. ticket[e] < s * b + b + m
        BY <1>4, <1>6, <1>7, <3>2, <3>3, <4>2
      <4>4. PICK k \in Nat : k = block(ticket[e]) /\ s <= k /\ k # s
        BY <1>1, <1>3, <4>1, TicketLive DEF At
      <4>5. k >= s + 1
        BY <4>4
      <4>6. ticket[e] < (s + 1) * b => k < s + 1
        BY <1>3, <1>4, <1>7, <4>4, BlockBefore
      <4>7. (s + 1) * b = s * b + b
        BY <1>4
      <4> QED
        BY <1>4, <1>7, <3>2, <4>3, <4>5, <4>6, <4>7
    <3> QED
      BY <3>2, <3>5
  <2>2. CASE cpc \notin {"account", "swap"}
    <3>1. collected = s
      BY <1>1, <1>3, <2>2 DEF collected, swapped, TypeInv, Waiting
    <3>2. n = m
      BY <1>5, <1>6, <2>2, ReturnedEnvs
    <3>3. first_ticket = s * b /\ s * b \in Nat
      BY <1>3, <1>4, <3>1 DEF first_ticket
    <3> QED
      BY <1>7, <3>2, <3>3
  <2> QED
    BY <2>1, <2>2
<1>9. PICK x \in Nat : x = first_ticket /\ \A e \in reserving : x <= ticket[e] /\ ticket[e] < x + m
  BY <1>8
<1>10. \A e \in reserving : index(e) \in 1 .. m
  BY <1>5, <1>7, <1>9 DEF index
<1>11. \A d, e \in reserving : index(d) = index(e) => ticket[d] = ticket[e]
  BY <1>7, <1>9 DEF index
<1>12. \A d, e \in reserving : index(d) = index(e) => d = e
  BY <1>1, <1>2, <1>11 DEF TicketInv
<1> QED
  BY <1>2, <1>5, <1>9, <1>10, <1>12

\* Hence each has one place in the sequence of reservations.
InTicketOrder ==
  /\ reserving \in SUBSET Envs /\ Cardinality(reserving) \in Nat
  /\ \A k \in 1 .. Cardinality(reserving) : holder(k) \in reserving
  /\ \A e \in reserving : index(e) \in 1 .. Cardinality(reserving)
  /\ \A k \in 1 .. Cardinality(reserving) : \A e \in reserving : holder(k) = e <=> index(e) = k

LEMMA ReservationsInOrder == IInv /\ ArrInv => InTicketOrder
<1> SUFFICES ASSUME IInv, ArrInv PROVE InTicketOrder
  OBVIOUS
<1>1. PICK m \in Nat : m = Cardinality(reserving)
  BY TicketsOfReservations
<1>2. PICK x \in Nat : x = first_ticket
  BY TicketsOfReservations
<1>3. /\ reserving \in SUBSET Envs
      /\ \A e \in reserving : index(e) \in 1 .. m
      /\ \A d, e \in reserving : index(d) = index(e) => d = e
  BY <1>1, TicketsOfReservations
<1>4. \A e \in reserving : ticket[e] \in Nat
  BY <1>3 DEF IInv, TypeInv
<1>5. ASSUME NEW k \in 1 .. m
      PROVE  holder(k) \in reserving /\ \A e \in reserving : holder(k) = e <=> index(e) = k
  <2>1. \A e \in reserving : ticket[e] = x + k - 1 <=> index(e) = k
    BY <1>2, <1>4 DEF index
  <2>2. holder(k) = CHOOSE e \in reserving : ticket[e] = x + k - 1
    BY <1>2 DEF holder, first_ticket
  <2>3. \E e \in reserving : index(e) = k
    <3> DEFINE f == [e \in reserving |-> index(e) - 1]
    <3>1. f \in [reserving -> 0 .. m - 1]
      BY <1>3
    <3>2. \A d, e \in reserving : f[d] = f[e] => d = e
      BY <1>3
    <3>3. k - 1 \in 0 .. m - 1
      OBVIOUS
    <3>4. PICK e \in reserving : f[e] = k - 1
      <4> HIDE DEF f
      <4> QED
        BY <1>1, <1>3, <3>1, <3>2, <3>3, AllRowsTaken
    <3>5. index(e) \in Int /\ index(e) - 1 = k - 1
      BY <1>3, <3>4
    <3> QED
      BY <3>5
  <2>4. holder(k) \in reserving /\ index(holder(k)) = k
    BY <2>1, <2>2, <2>3
  <2> QED
    BY <1>3, <2>4
<1> QED
  BY <1>1, <1>3, <1>5 DEF InTicketOrder

\* Reservations keep their places when others come behind them.
LEMMA SameHolders ==
  ASSUME InTicketOrder, InTicketOrder', reserving \in SUBSET reserving',
         \A e \in reserving : index(e)' = index(e)
  PROVE  \A k \in 1 .. Cardinality(reserving) : holder(k)' = holder(k)
<1> TAKE k \in 1 .. Cardinality(reserving)
<1>1. PICK e \in reserving : e = holder(k) /\ index(e) = k
  BY DEF InTicketOrder
<1>2. e \in reserving' /\ index(e)' = k
  BY <1>1
<1>3. k \in 1 .. Cardinality(reserving)' /\ holder(k)' = e
  BY <1>2 DEF InTicketOrder
<1> QED
  BY <1>1, <1>3

LEMMA SameReservations ==
  ASSUME InTicketOrder, InTicketOrder', reserving' = reserving, arr' = arr,
         \A e \in reserving : index(e)' = index(e) /\ order'[e] = order[e],
         \A e \in reserving : pc[e] \in {"signal", "ready"} <=> pc'[e] \in {"signal", "ready"}
  PROVE  UNCHANGED Batches!vars
<1>1. \A k \in 1 .. Cardinality(reserving) : holder(k)' = holder(k) /\ holder(k) \in reserving
  BY SameHolders DEF InTicketOrder
<1>2. [k \in 1 .. Cardinality(reserving)' |-> [env |-> holder(k)', order |-> order'[holder(k)']]]
        = [k \in 1 .. Cardinality(reserving) |-> [env |-> holder(k), order |-> order[holder(k)]]]
  BY <1>1
<1>3. {e \in reserving' : pc'[e] \in {"signal", "ready"}}
        = {e \in reserving : pc[e] \in {"signal", "ready"}}
  OBVIOUS
<1>4. is_sync_' = is_sync_
  BY DEF is_sync_
<1> QED
  BY <1>2, <1>3, <1>4 DEF Batches!vars

\* An env that takes a ticket reserves the next row.
LEMMA ReserveStep ==
  ASSUME IInv, ArrInv, IInv', ArrInv', InTicketOrder, InTicketOrder', NEW e \in Envs, TakeTicket(e)
  PROVE  Batches!Reserve(e, order[e]) /\ order[e] \in {NoOrder} \cup 0 .. batch_ - 1
<1>1. TypeInv
  BY DEF IInv
<1>2. /\ pc[e] = "ticket" /\ pc' = [pc EXCEPT ![e] = "count"]
      /\ ticket' = [ticket EXCEPT ![e] = alloc_count_]
      /\ UNCHANGED <<done_ptr_, order, cpc, arr>>
  BY DEF TakeTicket, Step, waitVars
<1>3. /\ pc'[e] = "count" /\ \A d \in Envs \ {e} : pc'[d] = pc[d]
      /\ \A d \in Envs \ {e} : ticket'[d] = ticket[d]
  BY <1>1, <1>2 DEF TypeInv
<1>4. e \notin reserving /\ e \notin Returned
  <2>1. e \notin Ticketed
    BY <1>2 DEF Ticketed
  <2> QED
    BY <2>1, ReturnedEnvs, BlockSets
<1>5. reserving' = reserving \cup {e} /\ reserving \in SUBSET Envs
  <2>1. InFlight' = InFlight /\ e \in InFlight
    BY <1>2, <1>3 DEF InFlight
  <2>2. \A r \in DOMAIN arr : arr[r] # e
    BY <1>4 DEF Returned
  <2> QED
    BY <1>2, <1>3, <2>1, <2>2 DEF reserving, InTicketOrder, InFlight
<1>6. \A d \in reserving : index(d)' = index(d)
  BY <1>2, <1>3, <1>4, <1>5 DEF index, first_ticket, collected
<1>7. PICK n \in Nat : n = Cardinality(reserving)
  BY DEF InTicketOrder
<1>8. Cardinality(reserving)' = n + 1
  BY <1>4, <1>5, <1>7, OneMore
<1>9. \A k \in 1 .. n : holder(k)' = holder(k) /\ holder(k) \in reserving
  BY <1>5, <1>6, <1>7, SameHolders DEF InTicketOrder
<1>10. holder(n + 1)' = e
  <2>1. e \in reserving'
    BY <1>5
  <2>2. PICK k \in 1 .. n + 1 : k = index(e)' /\ holder(k)' = e
    BY <1>8, <2>1 DEF InTicketOrder
  <2>3. k \notin 1 .. n
    BY <1>4, <1>9, <2>2
  <2>4. k = n + 1
    BY <1>7, <2>2, <2>3
  <2> QED
    BY <2>2, <2>4
<1> DEFINE place(k) == [env |-> holder(k), order |-> order[holder(k)]]
           seq == [k \in 1 .. n |-> place(k)]
<1>11. [k \in 1 .. n + 1 |-> place(k)'] = Append(seq, [env |-> e, order |-> order[e]])
  <2>1. \A k \in 1 .. n : place(k)' = seq[k]
    BY <1>2, <1>9
  <2>2. place(n + 1)' = [env |-> e, order |-> order[e]]
    BY <1>2, <1>10
  <2>3. seq \in Seq({place(k) : k \in 1 .. n}) /\ Len(seq) = n
    OBVIOUS
  <2> HIDE DEF seq, place
  <2> QED
    BY <1>7, <2>1, <2>2, <2>3
<1>12. e \notin Batches!Reserving
  <2>1. \A k \in 1 .. n : place(k).env # e
    BY <1>4, <1>9
  <2> QED
    BY <1>7, <2>1 DEF Batches!Reserving, Batches!Range
<1>13. {d \in reserving' : pc'[d] \in {"signal", "ready"}}
         = {d \in reserving : pc[d] \in {"signal", "ready"}}
  BY <1>2, <1>3, <1>4, <1>5
<1>14. order[e] \in {NoOrder} \cup 0 .. batch_ - 1
  BY <1>1 DEF TypeInv
<1> QED
  BY <1>2, <1>7, <1>8, <1>11, <1>12, <1>13, <1>14 DEF Batches!Reserve

\* done_write counts an env: it is finished.
LEMMA FinishStep ==
  ASSUME IInv, ArrInv, InTicketOrder, InTicketOrder', NEW e \in Envs, Done(e)
  PROVE  Batches!Finish(e) \/ UNCHANGED Batches!vars
<1>1. TypeInv
  BY DEF IInv
<1>2. /\ pc[e] = "done" /\ \E x \in {"signal", "ready"} : pc' = [pc EXCEPT ![e] = x]
      /\ UNCHANGED <<done_ptr_, order, ticket, cpc, arr>>
  BY DEF Done, Step, waitVars
<1>3. pc'[e] \in {"signal", "ready"} /\ \A d \in Envs \ {e} : pc'[d] = pc[d]
  BY <1>1, <1>2 DEF TypeInv
<1>4. e \in reserving
  <2>1. e \in Ticketed /\ (cpc \in {"account", "swap"} => At(swapped) = Finished(swapped))
    BY <1>2 DEF Ticketed, IInv, ReturnInv
  <2>2. e \notin Finished(swapped)
    BY <1>2 DEF Finished
  <2> QED
    BY <2>1, <2>2, ReturnedEnvs
<1>5. reserving' = reserving /\ reserving \in SUBSET Envs
  BY <1>2, <1>3 DEF reserving, InFlight, InTicketOrder
<1>6. \A d \in reserving : index(d)' = index(d)
  BY <1>2 DEF index, first_ticket, collected
<1>7. \A k \in 1 .. Cardinality(reserving) : holder(k)' = holder(k)
  BY <1>5, <1>6, SameHolders
<1>8. [k \in 1 .. Cardinality(reserving)' |-> [env |-> holder(k)', order |-> order'[holder(k)']]]
        = [k \in 1 .. Cardinality(reserving) |-> [env |-> holder(k), order |-> order[holder(k)]]]
  BY <1>2, <1>5, <1>7
<1>9. {d \in reserving' : pc'[d] \in {"signal", "ready"}}
        = {d \in reserving : pc[d] \in {"signal", "ready"}} \cup {e}
  BY <1>3, <1>4, <1>5
<1>10. e \in Batches!Reserving
  <2> DEFINE seq == [k \in 1 .. Cardinality(reserving) |->
                       [env |-> holder(k), order |-> order[holder(k)]]]
  <2>1. PICK k \in 1 .. Cardinality(reserving) : holder(k) = e
    BY <1>4 DEF InTicketOrder
  <2>2. k \in DOMAIN seq /\ seq[k].env = e
    BY <2>1
  <2>3. Batches!Reserving = {r.env : r \in {seq[j] : j \in DOMAIN seq}}
    BY DEF Batches!Reserving, Batches!Range
  <2> HIDE DEF seq
  <2> QED
    BY <2>2, <2>3
<1>11. e \notin {d \in reserving : pc[d] \in {"signal", "ready"}}
  BY <1>2
<1> QED
  BY <1>2, <1>8, <1>9, <1>10, <1>11 DEF Batches!Finish

\* The reservations that Wait takes are the first ones, ...
LEMMA FirstReservations ==
  ASSUME IInv, ArrInv, IInv', ArrInv', InTicketOrder, InTicketOrder', Collect
  PROVE  \E m \in 0 .. batch_ :
           /\ m = Cardinality(At(swapped)) /\ m <= Cardinality(reserving)
           /\ m = batch_ \/ (is_sync_ /\ m = Cardinality(reserving))
           /\ \A k \in 1 .. Cardinality(reserving) : holder(k) \in At(swapped) <=> k <= m
           /\ reserving' = reserving \ At(swapped)
           /\ Cardinality(reserving)' = Cardinality(reserving) - m
           /\ \A k \in 1 .. Cardinality(reserving) - m : holder(k)' = holder(k + m)
<1>1. TypeInv /\ TicketInv /\ SyncInv
  BY DEF IInv
<1>2. PICK m \in 0 .. batch_ : m = Cardinality(At(swapped)) /\ m + additional = batch_
  BY CollectedRows
<1>3. /\ cpc = "wait" /\ cpc' \in {"account", "swap"}
      /\ UNCHANGED <<pc, ticket, order, done_ptr_, additional>>
  BY DEF Collect, Goto, producerVars
<1>4. PICK s \in Nat : s = swapped /\ swapped' = s /\ s = collected /\ collected' = s + 1
  <2>1. swapped \in Nat /\ done_ptr_ \in Nat
    BY <1>1, SwappedType DEF TypeInv
  <2> QED
    BY <1>3, <2>1 DEF swapped, collected
<1>5. /\ reserving = Ticketed /\ At(swapped) \in SUBSET Ticketed
      /\ At(swapped)' = At(swapped) /\ Ticketed' = Ticketed
      /\ reserving' = reserving \ At(swapped)
  <2>1. At(swapped)' = At(swapped) /\ Ticketed' = Ticketed
    BY <1>3, <1>4, SameSets
  <2>2. reserving = Ticketed
    BY <1>3, ReturnedEnvs
  <2>3. reserving' = (Ticketed \ Returned)' /\ Returned' = At(swapped)'
    BY <1>3 DEF reserving, Ticketed, InFlight, Returned, ArrInv, IInv, ReturnInv, At
  <2> QED
    BY <2>1, <2>2, <2>3, BlockSets
<1>6. PICK b \in Nat \ {0} : b = batch_
  BY Sizes
<1>7. PICK x \in Nat : x = first_ticket /\ x = s * b /\ first_ticket' = x + b
  <2>1. s * b \in Nat /\ (s + 1) * b = s * b + b
    BY <1>6
  <2> QED
    BY <1>4, <1>6, <2>1 DEF first_ticket
<1>8. PICK n \in Nat : n = Cardinality(reserving)
  BY DEF InTicketOrder
<1>9. m <= n /\ Cardinality(reserving)' = n - m
  <2>1. At(swapped) \in SUBSET reserving /\ reserving \in SUBSET Envs
    BY <1>5 DEF InTicketOrder
  <2>2. Cardinality(At(swapped)) <= Cardinality(reserving)
    BY <2>1, NotMore
  <2>3. Cardinality(reserving \ At(swapped)) = Cardinality(reserving) - Cardinality(At(swapped))
    BY <2>1, Without
  <2> QED
    BY <1>2, <1>5, <1>8, <2>2, <2>3
<1>10. \A e \in reserving : ticket[e] \in Nat /\ e \in Ticketed
  BY <1>1, <1>5 DEF TypeInv, InTicketOrder
<1>11. m = b \/ (m = n /\ is_sync_ /\ At(swapped) = reserving)
  <2>1. CASE additional = 0
    BY <1>2, <1>6, <2>1
  <2>2. CASE additional # 0
    <3>1. additional > 0 /\ is_sync_
      BY <1>1, <1>6, <2>2 DEF TypeInv, SyncInv
    <3>2. At(swapped) = InFlight
      BY <1>1, <1>2, <1>4, <3>1, RoomForTickets
    <3>3. At(swapped) = reserving
      BY <1>5, <3>2, BlockSets
    <3> QED
      BY <1>2, <1>8, <3>1, <3>3
  <2> QED
    BY <2>1, <2>2
<1>12. \A k \in 1 .. n : holder(k) \in reserving /\ index(holder(k)) = k
  BY <1>8 DEF InTicketOrder
<1>13. ASSUME NEW k \in 1 .. n
       PROVE  holder(k) \in At(swapped) <=> k <= m
  <2>1. CASE At(swapped) = reserving /\ m = n
    BY <1>12, <2>1
  <2>2. CASE m = b
    <3>1. PICK t \in Nat : t = ticket[holder(k)] /\ t = x + k - 1
      BY <1>7, <1>10, <1>12 DEF index
    <3>2. holder(k) \in At(swapped) <=> block(t) = s
      BY <1>4, <1>10, <1>12, <3>1 DEF At
    <3>3. s <= block(t) /\ block(t) \in Nat
      BY <1>1, <1>4, <1>10, <1>12, <3>1, TicketLive
    <3>4. t < s * b + b => block(t) < s + 1
      <4>1. (s + 1) * b = s * b + b
        BY <1>6
      <4> QED
        BY <1>6, <3>1, <4>1, BlockBefore
    <3>5. block(t) = s => t < s * b + b
      BY <1>6, <3>1, BlockTickets
    <3>6. block(t) = s <=> t < x + b
      BY <1>7, <3>3, <3>4, <3>5
    <3> QED
      BY <2>2, <3>1, <3>2, <3>6
  <2> QED
    BY <1>11, <2>1, <2>2
<1>14. ASSUME NEW k \in 1 .. n - m
       PROVE  holder(k)' = holder(k + m)
  <2>1. m = b /\ m \in Nat
    BY <1>6, <1>11
  <2>2. k + m \in 1 .. n /\ ~(k + m <= m)
    BY <1>9, <2>1
  <2>3. PICK e \in reserving : e = holder(k + m) /\ index(e) = k + m /\ e \notin At(swapped)
    BY <1>12, <1>13, <2>2
  <2>4. e \in reserving' /\ ticket'[e] = ticket[e] /\ ticket[e] \in Nat
    BY <1>3, <1>5, <1>10, <2>3
  <2>5. index(e)' = k
    <3>1. PICK t \in Nat : t = ticket[e] /\ t = ticket'[e]
      BY <2>4
    <3>2. t - x + 1 = k + b
      BY <1>7, <2>1, <2>3, <3>1 DEF index
    <3>3. index(e)' = t - (x + b) + 1
      BY <1>7, <3>1 DEF index
    <3> QED
      BY <3>2, <3>3
  <2>6. k \in 1 .. Cardinality(reserving)'
    BY <1>9
  <2>7. holder(k)' = e
    BY <2>4, <2>5, <2>6 DEF InTicketOrder
  <2> QED
    BY <2>3, <2>7
<1> QED
  BY <1>2, <1>5, <1>6, <1>8, <1>9, <1>11, <1>13, <1>14

LEMMA NoRowsNoBatch ==
  ASSUME DOMAIN arr = {}
  PROVE  [k \in 1 .. Cardinality(DOMAIN arr) |-> arr[k - 1]] = <<>>
<1>1. Cardinality(DOMAIN arr) = 0
  BY FS_EmptySet
<1> QED
  BY <1>1

\* ... and the semaphore says that all of them are finished.
LEMMA TakeStep ==
  ASSUME IInv, ArrInv, IInv', ArrInv', InTicketOrder, InTicketOrder', Collect
  PROVE  (\E n \in 1 .. batch_ : Batches!Take(n)) \/ UNCHANGED Batches!vars
<1>1. PICK m \in 0 .. batch_ :
         /\ m = Cardinality(At(swapped)) /\ m <= Cardinality(reserving)
         /\ m = batch_ \/ (is_sync_ /\ m = Cardinality(reserving))
         /\ \A k \in 1 .. Cardinality(reserving) : holder(k) \in At(swapped) <=> k <= m
         /\ reserving' = reserving \ At(swapped)
         /\ Cardinality(reserving)' = Cardinality(reserving) - m
         /\ \A k \in 1 .. Cardinality(reserving) - m : holder(k)' = holder(k + m)
  BY FirstReservations
<1>2. /\ arr' \in [0 .. m - 1 -> At(swapped)]
      /\ \A q, r \in 0 .. m - 1 : arr'[q] = arr'[r] => q = r
      /\ \A e \in At(swapped) : \E r \in 0 .. m - 1 : arr'[r] = e
      /\ \A r \in 0 .. m - 1 : is_sync_ => order[arr'[r]] = r
      /\ At(swapped) = Finished(swapped)
  BY <1>1, CollectedRows
<1>3. UNCHANGED <<pc, ticket, order>> /\ cpc = "wait" /\ DOMAIN arr = {}
  BY DEF Collect, Goto, producerVars, ArrInv
<1>4. PICK n \in Nat : n = Cardinality(reserving)
  BY DEF InTicketOrder
<1>5. m \in Nat /\ m <= n
  BY <1>1, <1>4, Sizes
<1>6. /\ \A k \in 1 .. n : holder(k) \in reserving
      /\ \A e \in reserving : \E k \in 1 .. n : holder(k) = e
  BY <1>4 DEF InTicketOrder
<1>7. is_sync_' = is_sync_
  BY DEF is_sync_
<1> DEFINE place(k) == [env |-> holder(k), order |-> order[holder(k)]]
           seq == [k \in 1 .. n |-> place(k)]
           next == [k \in 1 .. n - m |-> [env |-> holder(k)', order |-> order'[holder(k)']]]
           done == {e \in reserving : pc[e] \in {"signal", "ready"}}
           rows == [k \in 1 .. m |-> arr'[k - 1]]
<1>8. CASE m = 0
  <2>1. n = 0
    BY <1>1, <1>4, <1>8, Sizes
  <2>2. [k \in 1 .. Cardinality(reserving)' |-> [env |-> holder(k)', order |-> order'[holder(k)']]]
          = [k \in 1 .. Cardinality(reserving) |-> place(k)]
    <3>1. 1 .. Cardinality(reserving)' = {} /\ 1 .. Cardinality(reserving) = {}
      BY <1>1, <1>4, <1>8, <2>1
    <3> HIDE DEF place
    <3> QED
      BY <3>1
  <2>3. DOMAIN arr' = {}
    BY <1>2, <1>8
  <2>4. [k \in 1 .. Cardinality(DOMAIN arr') |-> arr'[k - 1]] = <<>>
    <3>1. Cardinality(DOMAIN arr') = 0
      BY <2>3, FS_EmptySet
    <3> QED
      BY <3>1
  <2>5. [k \in 1 .. Cardinality(DOMAIN arr) |-> arr[k - 1]] = <<>>
    BY <1>3, NoRowsNoBatch
  <2>6. reserving = {}
    BY <1>6, <2>1
  <2>7. {e \in reserving' : pc'[e] \in {"signal", "ready"}} = done
    BY <1>1, <2>6
  <2> QED
    BY <1>7, <2>2, <2>4, <2>5, <2>7 DEF Batches!vars
<1>9. CASE m > 0
  <2> DEFINE first == {seq[k] : k \in 1 .. m}
             s == [k \in 1 .. m |-> [env |-> arr'[k - 1], order |-> order[arr'[k - 1]]]]
  <2>1. \A k \in 1 .. m : holder(k) \in At(swapped) /\ seq[k] = place(k)
    BY <1>1, <1>4, <1>5
  <2>2. \A e \in At(swapped) : \E k \in 1 .. m : holder(k) = e
    <3> TAKE e \in At(swapped)
    <3>1. e \in reserving
      BY <1>3, ReturnedEnvs, BlockSets
    <3>2. PICK k \in 1 .. n : holder(k) = e
      BY <1>6, <3>1
    <3>3. k <= m
      BY <1>1, <1>4, <3>2
    <3> QED
      BY <1>5, <3>2, <3>3
  <2>3. first = {[env |-> e, order |-> order[e]] : e \in At(swapped)}
    <3>1. ASSUME NEW k \in 1 .. m
          PROVE  seq[k] \in {[env |-> e, order |-> order[e]] : e \in At(swapped)}
      BY <2>1
    <3>2. ASSUME NEW e \in At(swapped)
          PROVE  \E k \in 1 .. m : seq[k] = [env |-> e, order |-> order[e]]
      BY <2>1, <2>2
    <3> HIDE DEF seq
    <3> QED
      BY <3>1, <3>2
  <2>4. Cardinality(first) = m
    <3> DEFINE f == [e \in At(swapped) |-> [env |-> e, order |-> order[e]]]
    <3>1. f \in Bijection(At(swapped), first)
      BY <2>3 DEF Bijection, Injection, Surjection, IsInjective
    <3>2. IsFiniteSet(At(swapped))
      BY BlockSets, FiniteEnvs
    <3>3. ExistsBijection(At(swapped), first)
      BY <3>1 DEF ExistsBijection
    <3> QED
      BY <1>1, <3>2, <3>3, FS_Bijection
  <2>5. \A r \in first : r.env \in done
    <3>1. \A e \in At(swapped) : e \in done
      BY <1>2, <1>3, ReturnedEnvs, BlockSets DEF Finished
    <3> TAKE r \in first
    <3>2. PICK e \in At(swapped) : r = [env |-> e, order |-> order[e]]
      BY <2>3
    <3> QED
      BY <3>1, <3>2
  <2>6. s \in [1 .. m -> first]
    <3>1. \A k \in 1 .. m : arr'[k - 1] \in At(swapped)
      BY <1>2, <1>5
    <3> QED
      BY <2>3, <3>1
  <2>7. \A r \in first : \E k \in 1 .. m : s[k] = r
    <3> TAKE r \in first
    <3>1. PICK e \in At(swapped) : r = [env |-> e, order |-> order[e]]
      BY <2>3
    <3>2. PICK q \in 0 .. m - 1 : arr'[q] = e
      BY <1>2
    <3>3. q + 1 \in 1 .. m /\ (q + 1) - 1 = q
      BY <1>5, <3>2
    <3>4. s[q + 1] = r
      BY <3>1, <3>2, <3>3
    <3> QED
      BY <3>3, <3>4
  <2>8. \A k \in 1 .. m : s[k].order \in {NoOrder, k - 1}
    <3> TAKE k \in 1 .. m
    <3>1. k - 1 \in 0 .. m - 1 /\ arr'[k - 1] \in At(swapped) /\ At(swapped) \in SUBSET Envs
      BY <1>2, <1>5, BlockSets
    <3>2. s[k].order = order[arr'[k - 1]]
      OBVIOUS
    <3>3. CASE is_sync_
      BY <1>2, <3>1, <3>2, <3>3
    <3>4. CASE ~is_sync_
      BY <3>1, <3>2, <3>4 DEF IInv, SyncInv
    <3> QED
      BY <3>3, <3>4
  <2>9. s \in Batches!Arrangements(first) /\ rows = [k \in 1 .. m |-> s[k].env]
    <3>1. rows = [k \in 1 .. m |-> s[k].env]
      OBVIOUS
    <3>2. DOMAIN s = 1 .. m
      OBVIOUS
    <3> HIDE DEF s, first
    <3>3. s \in Batches!Arrangements(first)
      <4>1. Batches!Cardinality(first) = m
        BY <2>4 DEF Batches!Cardinality, Cardinality
      <4> QED
        BY <2>6, <2>7, <2>8, <3>2, <4>1 DEF Batches!Arrangements
    <3> QED
      BY <3>1, <3>3
  <2>10. next = SubSeq(seq, m + 1, n)
    <3>1. \A k \in 1 .. n - m : next[k] = seq[k + m]
      BY <1>1, <1>3, <1>4, <1>5
    <3>2. SubSeq(seq, m + 1, n) = [k \in 1 .. n - m |-> seq[k + m]]
      <4>1. seq \in Seq({place(k) : k \in 1 .. n}) /\ Len(seq) = n
        OBVIOUS
      <4> HIDE DEF seq, place
      <4> QED
        BY <1>5, <4>1
    <3> HIDE DEF seq
    <3> QED
      BY <3>1, <3>2
  <2>11. {e \in reserving' : pc'[e] \in {"signal", "ready"}} = done \ {r.env : r \in first}
    <3>1. {r.env : r \in first} = At(swapped)
      <4> DEFINE rec(e) == [env |-> e, order |-> order[e]]
      <4>1. \A e \in At(swapped) : rec(e) \in first /\ rec(e).env = e
        BY <2>3
      <4>2. \A r \in first : \E e \in At(swapped) : r = rec(e)
        BY <2>3
      <4> HIDE DEF first, rec
      <4> QED
        BY <4>1, <4>2
    <3> HIDE DEF first
    <3> QED
      BY <1>1, <1>3, <3>1
  <2>12. [k \in 1 .. Cardinality(DOMAIN arr') |-> arr'[k - 1]] = rows
    <3>1. DOMAIN arr' = 0 .. m - 1
      BY <1>2
    <3>2. Cardinality(DOMAIN arr') = m
      BY <1>5, <3>1, FS_Interval
    <3> QED
      BY <3>2
  <2>13. [k \in 1 .. Cardinality(DOMAIN arr) |-> arr[k - 1]] = <<>>
    BY <1>3, NoRowsNoBatch
  <2>14. m \in 1 .. batch_ /\ m \in 1 .. n /\ Len(seq) = n /\ (m = batch_ \/ (is_sync_ /\ m = n))
    BY <1>1, <1>4, <1>5, <1>9, Sizes
  <2>15. /\ [k \in 1 .. Cardinality(reserving) |-> place(k)] = seq
         /\ [k \in 1 .. Cardinality(reserving)' |-> [env |-> holder(k)', order |-> order'[holder(k)']]]
              = next
    BY <1>1, <1>4
  <2>16. \E t \in Batches!Arrangements(first) : rows = [k \in 1 .. m |-> t[k].env]
    <3> HIDE DEF first, s, rows
    <3> QED
      BY <2>9
  <2>17. Batches!Take(m)
    <3> DEFINE reserved == [k \in 1 .. Cardinality(reserving) |-> place(k)]
               taken == {reserved[k] : k \in 1 .. m}
    <3>1. reserved = seq
      BY <2>15
    <3> HIDE DEF seq, next, done, rows, s, reserved
    <3>2. taken = first
      BY <3>1
    <3> HIDE DEF taken, first
    <3>3. m = batch_ \/ (is_sync_ /\ m = Len(reserved))
      BY <2>14, <3>1
    <3>4. m \in 1 .. Len(reserved)
      BY <2>14, <3>1
    <3>5. \A r \in taken : r.env \in done
      BY <2>5, <3>2
    <3>6. \E t \in Batches!Arrangements(taken) : rows = [k \in 1 .. m |-> t[k].env]
      BY <2>16, <3>2
    <3>7. {e \in reserving' : pc'[e] \in {"signal", "ready"}} = done \ {r.env : r \in taken}
      BY <2>11, <3>2
    <3>8. next = SubSeq(reserved, m + 1, Len(reserved))
      BY <2>10, <2>14, <3>1
    <3> QED
      BY <2>12, <2>13, <2>15, <3>3, <3>4, <3>5, <3>6, <3>7, <3>8
      DEF Batches!Take, Batches!NoBatch, reserved, taken, done
  <2> QED
    BY <2>14, <2>17
<1> QED
  BY <1>5, <1>8, <1>9

\* The swap returns what was collected, if anything was.
LEMMA ReturnStep ==
  ASSUME IInv, ArrInv, IInv', ArrInv', InTicketOrder, InTicketOrder', Swap
  PROVE  Batches!Return \/ UNCHANGED Batches!vars
<1>1. /\ cpc = "swap" /\ cpc' = "idle" /\ done_ptr_' = done_ptr_
      /\ pc' = [e \in Envs |-> IF e \in Returned THEN "idle" ELSE pc[e]]
      /\ order' = [e \in Envs |-> IF e \in Returned THEN NoOrder ELSE order[e]]
      /\ ticket' = [e \in Envs |-> IF e \in Returned THEN 0 ELSE ticket[e]]
      /\ arr' = [r \in {} |-> Nobody]
  BY DEF Swap, Returned, NoRows
<1>2. reserving = Ticketed \ Returned /\ Ticketed \in SUBSET Envs
  BY ReturnedEnvs, BlockSets
<1>3. reserving' = reserving
  <2>1. Ticketed' = Ticketed \ Returned
    BY <1>1 DEF Ticketed
  <2>2. Returned' = {}
    BY <1>1 DEF Returned
  <2>3. reserving' = Ticketed' \ Returned'
    BY DEF reserving, Ticketed, InFlight, Returned
  <2> QED
    BY <1>2, <2>1, <2>2, <2>3
<1>4. \A e \in reserving : /\ e \in Envs /\ pc'[e] = pc[e] /\ order'[e] = order[e]
                           /\ ticket'[e] = ticket[e]
  BY <1>1, <1>2
<1>5. collected' = collected
  BY <1>1 DEF collected
<1>6. \A e \in reserving : index(e)' = index(e)
  BY <1>4, <1>5 DEF index, first_ticket
<1>7. \A k \in 1 .. Cardinality(reserving) : holder(k)' = holder(k) /\ holder(k) \in reserving
  BY <1>3, <1>6, SameHolders DEF InTicketOrder
<1>8. [k \in 1 .. Cardinality(reserving)' |-> [env |-> holder(k)', order |-> order'[holder(k)']]]
        = [k \in 1 .. Cardinality(reserving) |-> [env |-> holder(k), order |-> order[holder(k)]]]
  BY <1>3, <1>4, <1>7
<1>9. {e \in reserving' : pc'[e] \in {"signal", "ready"}}
        = {e \in reserving : pc[e] \in {"signal", "ready"}}
  BY <1>3, <1>4
<1>10. [k \in 1 .. Cardinality(DOMAIN arr') |-> arr'[k - 1]] = <<>>
  <2>1. DOMAIN arr' = {}
    BY <1>1
  <2>2. Cardinality(DOMAIN arr') = 0
    BY <2>1, FS_EmptySet
  <2> QED
    BY <2>2
<1>11. is_sync_' = is_sync_
  BY DEF is_sync_
<1>12. CASE [k \in 1 .. Cardinality(DOMAIN arr) |-> arr[k - 1]] = <<>>
  BY <1>8, <1>9, <1>10, <1>11, <1>12 DEF Batches!vars
<1>13. CASE [k \in 1 .. Cardinality(DOMAIN arr) |-> arr[k - 1]] # <<>>
  BY <1>8, <1>9, <1>10, <1>13 DEF Batches!Return, Batches!NoBatch
<1> QED
  BY <1>12, <1>13

\* The other steps of an env, those of the creating threads and of the client
\* change nothing that BatchQueue knows of.
LEMMA OtherSteps ==
  ASSUME IInv, ArrInv, InTicketOrder, InTicketOrder', [Next]_vars,
         ~ \E e \in Envs : TakeTicket(e) \/ Done(e), ~Collect, ~Swap
  PROVE  UNCHANGED Batches!vars
<1>0. TypeInv
  BY DEF IInv
<1>1. ASSUME arr' = arr, ticket' = ticket, collected' = collected, reserving' = reserving,
             \A e \in reserving : order'[e] = order[e],
             \A e \in reserving : pc[e] \in {"signal", "ready"} <=> pc'[e] \in {"signal", "ready"}
      PROVE  UNCHANGED Batches!vars
  <2>1. \A e \in reserving : index(e)' = index(e)
    BY <1>1 DEF index, first_ticket
  <2> QED
    BY <1>1, <2>1, SameReservations
<1>2. ASSUME pc' = pc, arr' = arr
      PROVE  reserving' = reserving
  BY <1>2 DEF reserving, InFlight
<1>3. CASE (\E t \in late : Compare(t)) \/ UNCHANGED vars
  BY <1>1, <1>2, <1>3 DEF Compare, vars, producerVars, waitVars, collected
<1>4. ASSUME NEW e \in Envs, SendAsync(e)
      PROVE  UNCHANGED Batches!vars
  <2>1. /\ pc[e] = "idle" /\ pc' = [pc EXCEPT ![e] = "ticket"]
        /\ UNCHANGED <<done_ptr_, ticket, order, cpc, arr>>
    BY <1>4 DEF SendAsync, waitVars
  <2>2. pc'[e] = "ticket" /\ \A d \in Envs \ {e} : pc'[d] = pc[d]
    BY <1>0, <2>1 DEF TypeInv
  <2>3. reserving' = reserving /\ e \notin reserving /\ reserving \in SUBSET Envs
    BY <2>1, <2>2 DEF reserving, InFlight
  <2> QED
    BY <1>1, <2>1, <2>2, <2>3 DEF collected
<1>5. ASSUME NEW S \in SUBSET Envs, NEW f, SendSync(S, f)
      PROVE  UNCHANGED Batches!vars
  <2>1. /\ InFlight = {} /\ pc' = [e \in Envs |-> IF e \in S THEN "ticket" ELSE pc[e]]
        /\ UNCHANGED <<done_ptr_, ticket, cpc, arr>>
    BY <1>5 DEF SendSync, waitVars
  <2>2. \A e \in Envs : pc[e] = "idle" /\ (pc'[e] = "idle" \/ pc'[e] = "ticket")
    BY <2>1 DEF InFlight
  <2>3. reserving' = {} /\ reserving = {}
    BY <2>2 DEF reserving, InFlight
  <2> QED
    BY <1>1, <2>1, <2>3 DEF collected
<1>6. ASSUME NEW e \in Envs, TakeQuota(e) \/ TakeOffsets(e) \/ Fill(e) \/ Signal(e)
      PROVE  UNCHANGED Batches!vars
  <2>1. PICK y \in {"offset", "fill", "done", "ready", "threw"} :
           /\ pc' = [pc EXCEPT ![e] = y] /\ pc[e] \notin {"idle", "ticket"}
           /\ pc[e] \in {"signal", "ready"} <=> y \in {"signal", "ready"}
    BY <1>6 DEF TakeQuota, TakeOffsets, Fill, Signal, Step
  <2>3. pc'[e] = y /\ \A d \in Envs \ {e} : pc'[d] = pc[d]
    BY <1>0, <2>1 DEF TypeInv
  <2>4. UNCHANGED <<done_ptr_, ticket, order, cpc, arr>>
    BY <1>6 DEF TakeQuota, TakeOffsets, Fill, Signal, Step, waitVars
  <2>5. reserving' = reserving /\ reserving \in SUBSET Envs
    BY <2>1, <2>3, <2>4 DEF reserving, InFlight
  <2> QED
    BY <1>1, <2>1, <2>3, <2>4, <2>5 DEF collected
<1>7. ASSUME NEW p \in Creators, CreatorStep(p)
      PROVE  UNCHANGED Batches!vars
  <2>1. UNCHANGED <<done_ptr_, producerVars, cpc, arr>>
    BY <1>7 DEF CreatorStep, CreatorPut, TestQuit, waitVars
  <2> QED
    BY <1>1, <1>2, <2>1 DEF producerVars, collected
<1>8. CASE CallWait \/ WaitStep \/ Destroy \/ DestroyStep
  <2>1. UNCHANGED <<producerVars, arr>>
    BY <1>8 DEF CallWait, WaitStep, TakeFromStock, ClaimBlock, AddDone, AddSignal, Account, Goto,
                Destroy, DestroyStep, DestroyGet, DestroyJoin, waitVars
  <2>2. collected' = collected
    <3>1. CASE ClaimBlock
      <4>1. cpc = "claim" /\ cpc' \in {"add", "wait"} /\ done_ptr_' = done_ptr_ + 1 /\ done_ptr_ \in Nat
        BY <1>0, <3>1 DEF ClaimBlock, Goto, TypeInv
      <4> QED
        BY <4>1 DEF collected
    <3>2. CASE ~ClaimBlock
      <4>1. done_ptr_' = done_ptr_ /\ (cpc \in {"add", "signal", "wait"} <=> cpc' \in {"add", "signal", "wait"})
        BY <1>8, <3>2 DEF CallWait, WaitStep, TakeFromStock, AddDone, AddSignal, Account, Goto, Destroy,
                          DestroyStep, DestroyGet, DestroyJoin
      <4> QED
        BY <4>1 DEF collected
    <3> QED
      BY <3>1, <3>2
  <2> QED
    BY <1>1, <1>2, <2>1, <2>2 DEF producerVars
<1> QED
  BY <1>3, <1>4, <1>5, <1>6, <1>7, <1>8 DEF Next, ProducerStep

\* The state buffer queue implements BatchQueue, for any number of envs and any
\* batch size, in sync mode and in async mode: tickets are reservations, and a
\* Wait takes the envs of the oldest block once all have called done_write, be
\* it a whole batch or all that are stepping.
THEOREM ImplementsBatchQueueCorrect == Spec => ImplementsBatchQueue
<1>1. Init => Batches!Init
  <2> SUFFICES ASSUME Init PROVE Batches!Init
    OBVIOUS
  <2>1. pc = [e \in Envs |-> "idle"] /\ arr = [r \in {} |-> Nobody]
    BY DEF Init, NoRows
  <2>2. reserving = {} /\ DOMAIN arr = {}
    BY <2>1 DEF reserving, InFlight
  <2>3. [k \in 1 .. Cardinality(reserving) |-> [env |-> holder(k), order |-> order[holder(k)]]] = <<>>
    <3>1. Cardinality(reserving) = 0
      BY <2>2, FS_EmptySet
    <3> QED
      BY <3>1
  <2>4. {e \in reserving : pc[e] \in {"signal", "ready"}} = {}
    BY <2>2
  <2> QED
    BY <2>2, <2>3, <2>4, NoRowsNoBatch DEF Batches!Init, Batches!NoBatch
<1>2. Init => ArrInv
  BY ArrInit
<1>3. IInv /\ ArrInv /\ [Next]_vars => ArrInv'
  BY ArrStep
<1>4. IInv /\ ArrInv => InTicketOrder
  BY ReservationsInOrder
<1>5. IInv /\ IInv' /\ ArrInv /\ ArrInv' /\ InTicketOrder /\ InTicketOrder' /\ [Next]_vars
        => [Batches!Next /\ UNCHANGED <<batch_, is_sync_>>]_(Batches!vars)
  <2> SUFFICES ASSUME IInv, IInv', ArrInv, ArrInv', InTicketOrder, InTicketOrder', [Next]_vars
               PROVE  Batches!Next \/ UNCHANGED Batches!vars
    BY DEF is_sync_
  <2>1. ASSUME NEW e \in Envs, TakeTicket(e) PROVE Batches!Next
    BY <2>1, ReserveStep DEF Batches!Next
  <2>2. ASSUME NEW e \in Envs, Done(e) PROVE Batches!Next \/ UNCHANGED Batches!vars
    BY <2>2, FinishStep DEF Batches!Next
  <2>3. CASE Collect
    BY <2>3, TakeStep DEF Batches!Next
  <2>4. CASE Swap
    BY <2>4, ReturnStep DEF Batches!Next
  <2> QED
    BY <2>1, <2>2, <2>3, <2>4, OtherSteps
<1> QED
  BY <1>1, <1>2, <1>3, <1>4, <1>5, Invariance, PTL DEF Spec, ImplementsBatchQueue, Batches!Spec
=============================================================================
