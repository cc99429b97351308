-------------------------- MODULE StateBufferQueue --------------------------
(***************************************************************************)
(* core/state_buffer_queue.h: the ring of StateBuffers through which env   *)
(* steps hand their results to Recv, its stock of fresh buffers, the       *)
(* threads that create them, and the destructor that stops these threads.  *)
(*                                                                         *)
(* An env that has an action outstanding is a producer: it takes a ticket, *)
(* allocates in the buffer of the ticket's block, fills its slice and      *)
(* calls Done.  The consumer is the thread that owns the pool.  In sync    *)
(* mode it sends a set of actions and then calls Wait for all of them; in  *)
(* async mode actions may be sent at any time.  An env gets a new action   *)
(* only after its last result has been returned.                           *)
(*                                                                         *)
(* The thread that steps an env compares batch_ of the buffer with the     *)
(* count after it has counted the env done (state_buffer.h 127-128), so it *)
(* may still be inside Done when Wait returns the env and frees the        *)
(* buffer.  What such a read finds, the allocator's link or the batch_ of  *)
(* a new buffer in the same place, is taken to be no count of the old one. *)
(***************************************************************************)
EXTENDS StateBufferOps, FiniteSets, SequencesExt

CONSTANTS Envs, num_envs,  \* the envs, and their number
          num_threads,     \* workers of the pool that step the envs
          Creators,        \* threads of create_buffer_thread_
          Destroys,        \* whether the consumer may run the destructor
          MaxWaits         \* bound on done_ptr_

ASSUME QueueAssumption ==
  /\ IsFiniteSet(Envs) /\ Nobody \notin Envs
  /\ num_envs = Cardinality(Envs) /\ batch_ <= num_envs
  /\ num_threads \in Nat \ {0}
  /\ IsFiniteSet(Creators)
  /\ Destroys \in BOOLEAN /\ MaxWaits \in Nat

\* Mutants (see the README).
RingOfQuotient == num_envs \div batch_
NoGet == 0

queue_size_ == (num_envs \div batch_ + 2) * 2

\* The destructor takes one buffer for each creating thread.
stopGets == Cardinality(Creators)

\* AsyncLitePool::is_sync_
is_sync_ == batch_ = num_envs /\ max_num_players_ = 1

VARIABLES queue_, alloc_count_, done_ptr_, quit_,
          stock,       \* how many buffers stock_buffer_ has ready
          pc,          \* where each env is with its step
          order,       \* order[e]: the order of its action
          ticket,      \* ticket[e]: the local pos of Allocate
          slice,       \* slice[e]: the slice it was given
          late,        \* tickets whose threads have yet to compare batch_ in Done
          creator,     \* where each creating thread is
          cpc,         \* where the consumer is
          additional,  \* the argument of Wait
          wpos,        \* the local pos of Wait
          arr          \* the rows Wait returns

producerVars == <<pc, order, ticket, slice>>
waitVars == <<additional, wpos, arr>>
vars == <<queue_, alloc_count_, done_ptr_, quit_, stock, producerVars, late, creator,
          cpc, waitVars>>

INSTANCE Stock WITH size_ <- queue_size_

offset(k) == k % queue_size_
block(t) == t \div batch_
slotOf(e) == offset(block(ticket[e]))

NoSlice == [shared |-> 0, player |-> 0, players |-> 0]
NoRows == [r \in {} |-> Nobody]

Init ==
  /\ queue_ = [k \in 0 .. queue_size_ - 1 |-> FreshBuffer]
  /\ alloc_count_ = 0 /\ done_ptr_ = 0 /\ quit_ = FALSE
  /\ StockInit
  /\ pc = [e \in Envs |-> "idle"]
  /\ order = [e \in Envs |-> NoOrder]
  /\ ticket = [e \in Envs |-> 0]
  /\ slice = [e \in Envs |-> NoSlice]
  /\ late = {}
  /\ creator = [p \in Creators |-> "put"]
  /\ cpc = "idle"
  /\ additional = 0 /\ wpos = 0
  /\ arr = NoRows

InFlight == {e \in Envs : pc[e] # "idle"}

\* The buffer of slot k after an operation on it.
Update(k, b) == queue_' = [queue_ EXCEPT ![k] = b]

-----------------------------------------------------------------------------
(* The client: sending actions. *)

\* Async mode: the action of an idle env, without an order.
SendAsync(e) ==
  /\ ~is_sync_ /\ cpc \notin {"destroy", "join", "gone"}
  /\ pc[e] = "idle"
  /\ pc' = [pc EXCEPT ![e] = "ticket"]
  /\ UNCHANGED <<queue_, alloc_count_, done_ptr_, quit_, stock, order, ticket, slice,
                 late, creator, cpc, waitVars>>

\* Sync mode: a batch of actions, numbered; the next one follows its Recv.
SendSync(S, f) ==
  /\ is_sync_ /\ cpc = "idle" /\ InFlight = {}
  /\ pc' = [e \in Envs |-> IF e \in S THEN "ticket" ELSE pc[e]]
  /\ order' = [e \in Envs |-> IF e \in S THEN f[e] ELSE order[e]]
  /\ UNCHANGED <<queue_, alloc_count_, done_ptr_, quit_, stock, ticket, slice,
                 late, creator, cpc, waitVars>>

-----------------------------------------------------------------------------
(* The producers: Allocate, the use of the slice and done_write. *)

Step(e, from, to) ==
  /\ pc[e] = from
  /\ pc' = [pc EXCEPT ![e] = to]
  /\ UNCHANGED <<done_ptr_, quit_, stock, order, creator, cpc, waitVars>>

\* The envs whose threads are inside Allocate, the writing or done_write.
Holding == {e \in Envs : pc[e] \in {"count", "offset", "fill", "done", "signal"}}

\* A thread steps one env at a time.
TakeTicket(e) ==
  /\ Cardinality(Holding) + Cardinality(late) < num_threads
  /\ Step(e, "ticket", "count")
  /\ ticket' = [ticket EXCEPT ![e] = alloc_count_]
  /\ alloc_count_' = alloc_count_ + 1
  /\ UNCHANGED <<queue_, slice, late>>

\* queue_[offset]->Allocate: the count of the buffer, which may throw.
TakeQuota(e) ==
  LET b == queue_[slotOf(e)]
  IN  /\ Step(e, "count", IF HasQuota(b) THEN "offset" ELSE "threw")
      /\ Update(slotOf(e), CountAllocation(b))
      /\ UNCHANGED <<alloc_count_, ticket, slice, late>>

TakeOffsets(e) ==
  LET b == queue_[slotOf(e)]
  IN  \E np \in 1 .. max_num_players_ :
        /\ Step(e, "offset", "fill")
        /\ slice' = [slice EXCEPT ![e] = SliceFor(b, np, order[e])]
        /\ Update(slotOf(e), AdvanceOffsets(b, np))
        /\ UNCHANGED <<alloc_count_, ticket, late>>

Fill(e) ==
  /\ Step(e, "fill", "done")
  /\ Update(slotOf(e), FillSlice(queue_[slotOf(e)], slice[e], e))
  /\ UNCHANGED <<alloc_count_, ticket, slice, late>>

\* done_count_.fetch_add; who has not completed the batch is still to find out.
Done(e) ==
  LET b == queue_[slotOf(e)]
  IN  /\ Step(e, "done", IF Completes(b, 1) THEN "signal" ELSE "ready")
      /\ Update(slotOf(e), CountDone(b, 1))
      /\ late' = IF Completes(b, 1) THEN late ELSE late \cup {ticket[e]}
      /\ UNCHANGED <<alloc_count_, ticket, slice>>

\* The comparison and sem_.signal() of the one that has completed the batch.
Signal(e) ==
  /\ Step(e, "signal", "ready")
  /\ Update(slotOf(e), SignalBuffer(queue_[slotOf(e)]))
  /\ UNCHANGED <<alloc_count_, ticket, slice, late>>

ProducerStep(e) ==
  TakeTicket(e) \/ TakeQuota(e) \/ TakeOffsets(e) \/ Fill(e) \/ Done(e) \/ Signal(e)

\* The comparison with batch_ of any other one, which ends its done_write.
Compare(t) ==
  /\ t \in late
  /\ late' = late \ {t}
  /\ UNCHANGED <<queue_, alloc_count_, done_ptr_, quit_, stock, producerVars, creator,
                 cpc, waitVars>>

-----------------------------------------------------------------------------
(* The creating threads: for ever Put(new StateBuffer), until quit_. *)

CreatorPut(p) ==
  /\ creator[p] = "put" /\ creator' = [creator EXCEPT ![p] = "test"]
  /\ Put
  /\ UNCHANGED <<queue_, alloc_count_, done_ptr_, quit_, producerVars, late, cpc,
                 waitVars>>

TestQuit(p) ==
  /\ creator[p] = "test"
  /\ creator' = [creator EXCEPT ![p] = IF quit_ THEN "exited" ELSE "put"]
  /\ UNCHANGED <<queue_, alloc_count_, done_ptr_, quit_, stock, producerVars, late,
                 cpc, waitVars>>

CreatorStep(p) == CreatorPut(p) \/ TestQuit(p)

-----------------------------------------------------------------------------
(* The consumer: Wait(additional_done_count). *)

Goto(from, to) ==
  /\ cpc = from
  /\ cpc' = to
  /\ UNCHANGED <<quit_, producerVars, late, creator>>

\* Mutant (see the README).
WholeBatch == batch_

\* Recv passes the number of envs that are not stepping, in sync mode.
missing == IF is_sync_ THEN batch_ - Cardinality(InFlight) ELSE 0

CallWait ==
  /\ done_ptr_ < MaxWaits
  /\ Goto("idle", "stock")
  /\ additional' = missing
  /\ UNCHANGED <<queue_, alloc_count_, done_ptr_, stock, wpos, arr>>

TakeFromStock ==
  /\ Goto("stock", "claim")
  /\ Get
  /\ UNCHANGED <<queue_, alloc_count_, done_ptr_, waitVars>>

ClaimBlock ==
  /\ Goto("claim", IF additional > 0 THEN "add" ELSE "wait")
  /\ wpos' = done_ptr_
  /\ done_ptr_' = done_ptr_ + 1
  /\ UNCHANGED <<queue_, alloc_count_, stock, additional, arr>>

AddDone ==
  LET b == queue_[offset(wpos)]
  IN  /\ Goto("add", IF Completes(b, additional) THEN "signal" ELSE "wait")
      /\ Update(offset(wpos), CountDone(b, additional))
      /\ UNCHANGED <<alloc_count_, done_ptr_, stock, waitVars>>

AddSignal ==
  /\ Goto("signal", "wait")
  /\ Update(offset(wpos), SignalBuffer(queue_[offset(wpos)]))
  /\ UNCHANGED <<alloc_count_, done_ptr_, stock, waitVars>>

\* sem_.wait() and the truncation; nobody writes the buffer any more.
Collect ==
  LET b == queue_[offset(wpos)]
  IN  /\ Goto("wait", IF additional > 0 THEN "account" ELSE "swap")
      /\ b.sem_ > 0
      /\ Update(offset(wpos), [b EXCEPT !.sem_ = b.sem_ - 1])
      /\ arr' = [r \in 0 .. b.shared - 1 |-> b.row[r]]
      /\ UNCHANGED <<alloc_count_, done_ptr_, stock, additional, wpos>>

\* Mutant (see the README).
StayBehind == 0

\* Move the tickets on to the next block: the missing envs take none.
moveOn == additional

Account ==
  /\ Goto("account", "swap")
  /\ alloc_count_' = alloc_count_ + moveOn
  /\ UNCHANGED <<queue_, done_ptr_, stock, waitVars>>

\* The new buffer takes the place of the old one, which is freed, and the result
\* is returned: its envs are idle again.  That Get has returned a buffer and not
\* a null pointer is Stock's promise.
Swap ==
  LET returned == {arr[r] : r \in DOMAIN arr}
  IN  /\ cpc = "swap" /\ cpc' = "idle"
      /\ Update(offset(wpos), FreshBuffer)
      /\ pc' = [e \in Envs |-> IF e \in returned THEN "idle" ELSE pc[e]]
      /\ order' = [e \in Envs |-> IF e \in returned THEN NoOrder ELSE order[e]]
      /\ ticket' = [e \in Envs |-> IF e \in returned THEN 0 ELSE ticket[e]]
      /\ slice' = [e \in Envs |-> IF e \in returned THEN NoSlice ELSE slice[e]]
      /\ additional' = 0 /\ wpos' = 0 /\ arr' = NoRows
      /\ UNCHANGED <<alloc_count_, done_ptr_, quit_, stock, late, creator>>

WaitStep ==
  TakeFromStock \/ ClaimBlock \/ AddDone \/ AddSignal \/ Collect \/ Account \/ Swap

-----------------------------------------------------------------------------
(* The destructor; the pool has joined its workers before. *)

Destroy ==
  /\ Destroys
  /\ cpc = "idle" /\ cpc' = "destroy"
  /\ \A e \in Envs : pc[e] \in {"idle", "ready"}
  /\ late = {}
  /\ quit_' = TRUE
  /\ wpos' = 0
  /\ UNCHANGED <<queue_, alloc_count_, done_ptr_, stock, producerVars, late, creator,
                 additional, arr>>

\* wpos is the loop counter.
DestroyGet ==
  /\ Goto("destroy", "destroy")
  /\ wpos < stopGets
  /\ Get
  /\ wpos' = wpos + 1
  /\ UNCHANGED <<queue_, alloc_count_, done_ptr_, additional, arr>>

DestroyJoin ==
  /\ wpos = stopGets
  /\ \A p \in Creators : creator[p] = "exited"
  /\ Goto("destroy", "gone")
  /\ UNCHANGED <<queue_, alloc_count_, done_ptr_, stock, waitVars>>

DestroyStep == DestroyGet \/ DestroyJoin

-----------------------------------------------------------------------------
\* The numberings of a set of envs.
Numberings(S) ==
  {f \in [S -> 0 .. Cardinality(S) - 1] : \A d, e \in S : f[d] = f[e] => d = e}

Next ==
  \/ \E e \in Envs : SendAsync(e) \/ ProducerStep(e)
  \/ \E S \in SUBSET Envs : \E f \in Numberings(S) : SendSync(S, f)
  \/ \E t \in late : Compare(t)
  \/ \E p \in Creators : CreatorStep(p)
  \/ CallWait \/ WaitStep \/ Destroy \/ DestroyStep

Spec == Init /\ [][Next]_vars

\* A thread inside a call keeps running; creators run until they exit.
FairSpec ==
  /\ Spec
  /\ \A e \in Envs : WF_vars(ProducerStep(e))
  /\ WF_vars(\E t \in late : Compare(t))
  /\ \A p \in Creators : WF_vars(CreatorStep(p))
  /\ WF_vars(WaitStep) /\ WF_vars(DestroyStep)

-----------------------------------------------------------------------------
(* Properties *)

\* Blocks whose buffer has been swapped out and freed.
swapped == IF cpc \in {"add", "signal", "wait", "account", "swap"} THEN done_ptr_ - 1
           ELSE done_ptr_

\* Until it has counted itself done, and the one that signals until it has
\* signalled, an env works on the buffer its ticket stands for: one that Wait has
\* not yet swapped out and freed, and that the ring has not wrapped onto
\* (Allocate, line 118; Wait, line 150).  Half of the ring is never used for that,
\* which is what `two times enough buffer for all the envs' (line 69) says.
WritesLiveBuffer ==
  \A e \in Holding :
    swapped <= block(ticket[e]) /\ block(ticket[e]) < swapped + queue_size_ \div 2

\* A thread inside Done reads batch_ (state_buffer.h 128) of a buffer that has not
\* been freed: Wait is said to block until `all user has called done' (135).
ReadsLiveBuffer == \A t \in late : swapped <= block(t)

\* No producer finds its buffer out of quota: the two counters alloc_count_, of
\* the queue and of the buffer, stay in step although nothing locks them
\* together (lines 117 and 147-150).
NeverThrows == \A e \in Envs : pc[e] # "threw"

\* A finished result is in exactly one row of one live buffer until it is
\* returned: none is lost or delivered twice.
ResultKept ==
  \A e \in Envs : pc[e] = "ready" =>
    /\ swapped <= block(ticket[e])
    /\ \A k \in 0 .. queue_size_ - 1, r \in Rows :
         queue_[k].row[r] = e <=> k = slotOf(e) /\ r = slice[e].shared

\* The queue implements BatchQueue: a row is reserved by the ticket, finished by
\* the count of done_write, and taken by the wait on the semaphore.
reserving == {e \in InFlight : pc[e] # "ticket" /\ \A r \in DOMAIN arr : arr[r] # e}

\* Blocks whose rows Wait has collected.  Tickets have no gaps, so the env of
\* the k-th reservation is the one with the k-th ticket after those blocks.
collected == IF cpc \in {"add", "signal", "wait"} THEN done_ptr_ - 1 ELSE done_ptr_
holder(k) == CHOOSE e \in reserving : ticket[e] = collected * batch_ + k - 1

Batches == INSTANCE BatchQueue WITH
  reserved <- [k \in 1 .. Cardinality(reserving) |->
                 [env |-> holder(k), order |-> order[holder(k)]]],
  finished <- {e \in reserving : pc[e] \in {"signal", "ready"}},
  batch <- [k \in 1 .. Cardinality(DOMAIN arr) |-> arr[k - 1]]
ImplementsBatchQueue == Batches!Spec

\* Wait returns once enough envs are stepping.
Waiting == {"stock", "claim", "add", "signal", "wait", "account", "swap"}
WaitReturns ==
  cpc \in Waiting /\ Cardinality(InFlight) >= batch_ - additional ~> cpc = "idle"

\* The destructor stops the creating threads and returns (`stop the thread',
\* line 101) when the stock holds a buffer for each of its Gets, wherever in
\* their loop these threads are when quit_ is set.  When the stock is empty it
\* may not: a thread between its Put and its test of quit_ (lines 90-92) exits,
\* and the Get (line 104) waits for ever.
StockedDestructorReturns ==
  cpc = "destroy" /\ wpos = 0 /\ stock >= Cardinality(Creators) ~> cpc = "gone"
=============================================================================
