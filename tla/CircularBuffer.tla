--------------------------- MODULE CircularBuffer ---------------------------
(***************************************************************************)
(* core/circular_buffer.h: a bounded buffer between putting and getting    *)
(* threads, with two counting semaphores and two atomic cursors.  Every    *)
(* atomic operation and every access to a slot is a step of its own.       *)
(*                                                                         *)
(* The value a Put stores is the number of the position it claimed, so     *)
(* that a Get which returns the wrong element, or the empty moved-from     *)
(* element, shows.                                                         *)
(***************************************************************************)
EXTENDS Integers, FiniteSets

CONSTANTS Putters, Getters,  \* threads
          size_,             \* constructor argument
          Empty              \* a default-constructed or moved-from element

ASSUME BufferAssumption ==
  /\ size_ \in Nat \ {0}
  /\ Putters \cap Getters = {}
  /\ Empty \notin Int

VARIABLES sem_get_, sem_put_, buffer_, head_, tail_,
          at,    \* where each thread is in Put or Get
          pos,   \* the local tail or head of each thread
          got    \* got[g]: the local v of a Get

bufferVars == <<sem_get_, sem_put_, buffer_, head_, tail_, at, pos, got>>

Users == Putters \cup Getters

\* Mutant (see the README): one more element than the buffer has slots.
OneTooMany == size_ + 1

\* The initial count of sem_put_.
freeSlots == size_

\* The slot of a position.
offset(k) == k % size_

BufferInit ==
  /\ sem_get_ = 0 /\ sem_put_ = freeSlots
  /\ buffer_ = [k \in 0 .. size_ - 1 |-> Empty]
  /\ head_ = 0 /\ tail_ = 0
  /\ at = [t \in Users |-> "out"]
  /\ pos = [t \in Users |-> 0]
  /\ got = [g \in Getters |-> Empty]

Advance(t, from, to) ==
  /\ at[t] = from
  /\ at' = [at EXCEPT ![t] = to]

-----------------------------------------------------------------------------
(* Put(v) *)

PutWait(p) ==
  /\ Advance(p, "out", "claim")
  /\ sem_put_ > 0
  /\ sem_put_' = sem_put_ - 1
  /\ UNCHANGED <<sem_get_, buffer_, head_, tail_, pos, got>>

PutClaim(p) ==
  /\ Advance(p, "claim", "store")
  /\ pos' = [pos EXCEPT ![p] = tail_]
  /\ tail_' = tail_ + 1
  /\ UNCHANGED <<sem_get_, sem_put_, buffer_, head_, got>>

PutStore(p) ==
  /\ Advance(p, "store", "signal")
  /\ buffer_' = [buffer_ EXCEPT ![offset(pos[p])] = pos[p]]
  /\ UNCHANGED <<sem_get_, sem_put_, head_, tail_, pos, got>>

\* Mutant (see the README).
PutForgetsSignal(p) == Advance(p, "signal", "out") /\ UNCHANGED
  <<sem_get_, sem_put_, buffer_, head_, tail_, pos, got>>

PutSignal(p) ==
  /\ Advance(p, "signal", "out")
  /\ sem_get_' = sem_get_ + 1
  /\ UNCHANGED <<sem_put_, buffer_, head_, tail_, pos, got>>

-----------------------------------------------------------------------------
(* Get() *)

GetWait(g) ==
  /\ Advance(g, "out", "claim")
  /\ sem_get_ > 0
  /\ sem_get_' = sem_get_ - 1
  /\ UNCHANGED <<sem_put_, buffer_, head_, tail_, pos, got>>

GetClaim(g) ==
  /\ Advance(g, "claim", "move")
  /\ pos' = [pos EXCEPT ![g] = head_]
  /\ head_' = head_ + 1
  /\ UNCHANGED <<sem_get_, sem_put_, buffer_, tail_, got>>

GetMove(g) ==
  /\ Advance(g, "move", "signal")
  /\ got' = [got EXCEPT ![g] = buffer_[offset(pos[g])]]
  /\ buffer_' = [buffer_ EXCEPT ![offset(pos[g])] = Empty]
  /\ UNCHANGED <<sem_get_, sem_put_, head_, tail_, pos>>

\* The signal and the return of v.
GetSignal(g) ==
  /\ Advance(g, "signal", "out")
  /\ sem_put_' = sem_put_ + 1
  /\ UNCHANGED <<sem_get_, buffer_, head_, tail_, pos, got>>

-----------------------------------------------------------------------------
InsidePut(p) == PutClaim(p) \/ PutStore(p) \/ PutSignal(p)
PutStep(p) == PutWait(p) \/ InsidePut(p)
GetStep(g) == GetWait(g) \/ GetClaim(g) \/ GetMove(g) \/ GetSignal(g)
=============================================================================
