----------------------------- MODULE StateBuffer -----------------------------
(***************************************************************************)
(* core/state_buffer.h: one batch of states.  Each call of Allocate is a   *)
(* process of its own, which allocates a slice, fills it and calls Done;   *)
(* one waiter collects the batch.  Every atomic operation is a step.       *)
(*                                                                         *)
(* `stepping' envs take part in the batch.  When they are fewer than       *)
(* batch_, the waiter passes the difference as additional_done_count and   *)
(* exactly these envs allocate, which is how AsyncLitePool::Recv uses it.  *)
(* With a full batch any number of further calls may be made: they find    *)
(* the quota exhausted and throw.  Calls here pass no order; those of sync *)
(* mode are in StateBufferQueue.                                           *)
(***************************************************************************)
EXTENDS StateBufferOps, FiniteSets

CONSTANT Calls    \* calls of Allocate

ASSUME CallsAssumption == IsFiniteSet(Calls) /\ Nobody \notin Calls

VARIABLES buf,       \* the buffer
          stepping,  \* how many envs take part
          pc,        \* where each call is
          num_players,  \* num_players[c]: its argument
          slice,     \* slice[c]: the slice it was given
          wpc,       \* where the waiter is
          ret        \* what Wait returned: the offsets it truncates to

vars == <<buf, stepping, pc, num_players, slice, wpc, ret>>

additional_done_count == batch_ - stepping

NoSlice == [shared |-> 0, player |-> 0, players |-> 0]

Init ==
  /\ buf = FreshBuffer
  /\ stepping \in 0 .. batch_
  /\ pc = [c \in Calls |-> "idle"]
  /\ num_players = [c \in Calls |-> 1]
  /\ slice = [c \in Calls |-> NoSlice]
  /\ wpc = "idle"
  /\ ret = [player |-> 0, shared |-> 0]

Goto(c, from, to) ==
  /\ pc[c] = from
  /\ pc' = [pc EXCEPT ![c] = to]

Started == {c \in Calls : pc[c] # "idle"}

-----------------------------------------------------------------------------
(* Allocate(num_players, order), the use of the slice, and done_write. *)

\* In a short batch only the stepping envs call.
MayCall == stepping < batch_ => Cardinality(Started) < stepping

CallAllocate(c, n) ==
  /\ Goto(c, "idle", "count")
  /\ MayCall
  /\ num_players' = [num_players EXCEPT ![c] = n]
  /\ UNCHANGED <<buf, stepping, slice, wpc, ret>>

TakeQuota(c) ==
  /\ HasQuota(buf)
  /\ Goto(c, "count", "offset")
  /\ buf' = CountAllocation(buf)
  /\ UNCHANGED <<stepping, num_players, slice, wpc, ret>>

\* throw std::out_of_range
QuotaExhausted(c) ==
  /\ ~HasQuota(buf)
  /\ Goto(c, "count", "threw")
  /\ buf' = CountAllocation(buf)
  /\ UNCHANGED <<stepping, num_players, slice, wpc, ret>>

TakeOffsets(c) ==
  /\ Goto(c, "offset", "fill")
  /\ slice' = [slice EXCEPT ![c] = SliceFor(buf, num_players[c], NoOrder)]
  /\ buf' = AdvanceOffsets(buf, num_players[c])
  /\ UNCHANGED <<stepping, num_players, wpc, ret>>

Fill(c) ==
  /\ Goto(c, "fill", "done")
  /\ buf' = FillSlice(buf, slice[c], c)
  /\ UNCHANGED <<stepping, num_players, slice, wpc, ret>>

\* done_count_.fetch_add; who has not completed the batch is still to find out.
CallDone(c) ==
  /\ Goto(c, "done", IF Completes(buf, 1) THEN "signal" ELSE "compare")
  /\ buf' = CountDone(buf, 1)
  /\ UNCHANGED <<stepping, num_players, slice, wpc, ret>>

Signal(c) ==
  /\ Goto(c, "signal", "finished")
  /\ buf' = SignalBuffer(buf)
  /\ UNCHANGED <<stepping, num_players, slice, wpc, ret>>

\* The comparison with batch_, of a buffer that may be gone: StateBufferQueue.
Compare(c) ==
  /\ Goto(c, "compare", "finished")
  /\ UNCHANGED <<buf, stepping, num_players, slice, wpc, ret>>

-----------------------------------------------------------------------------
(* Wait(additional_done_count). *)

CallWait ==
  /\ wpc = "idle"
  /\ wpc' = IF additional_done_count > 0 THEN "done" ELSE "wait"
  /\ UNCHANGED <<buf, stepping, pc, num_players, slice, ret>>

WaiterDone ==
  /\ wpc = "done"
  /\ wpc' = IF Completes(buf, additional_done_count) THEN "signal" ELSE "wait"
  /\ buf' = CountDone(buf, additional_done_count)
  /\ UNCHANGED <<stepping, pc, num_players, slice, ret>>

WaiterSignal ==
  /\ wpc = "signal"
  /\ wpc' = "wait"
  /\ buf' = SignalBuffer(buf)
  /\ UNCHANGED <<stepping, pc, num_players, slice, ret>>

WaitSem ==
  /\ wpc = "wait"
  /\ buf.sem_ > 0
  /\ buf' = [buf EXCEPT !.sem_ = buf.sem_ - 1]
  /\ wpc' = "compact"
  /\ UNCHANGED <<stepping, pc, num_players, slice, ret>>

Compact ==
  /\ wpc = "compact"
  /\ wpc' = "returned"
  /\ ret' = [player |-> buf.player, shared |-> buf.shared]
  /\ UNCHANGED <<buf, stepping, pc, num_players, slice>>

-----------------------------------------------------------------------------
CallStep(c) ==
  \/ TakeQuota(c) \/ QuotaExhausted(c) \/ TakeOffsets(c) \/ Fill(c)
  \/ CallDone(c) \/ Signal(c) \/ Compare(c)
WaiterStep == CallWait \/ WaiterDone \/ WaiterSignal \/ WaitSem \/ Compact

Next ==
  \/ \E c \in Calls :
       \/ \E n \in 1 .. max_num_players_ : CallAllocate(c, n)
       \/ CallStep(c)
  \/ WaiterStep

Spec == Init /\ [][Next]_vars

-----------------------------------------------------------------------------
(* Properties *)

\* The counters stay within their bounds: above all the two 32-bit halves of
\* offsets_ never carry into each other (lines 82-93).
TypeOK ==
  /\ buf \in [alloc_count_ : Nat, player : 0 .. batch_ * max_num_players_, shared : 0 .. batch_,
              done_count_ : 0 .. batch_, sem_ : {0, 1},
              row : [Rows -> Calls \cup {Nobody}], prow : [PlayerRows -> Calls \cup {Nobody}]]
  /\ stepping \in 0 .. batch_
  /\ pc \in [Calls -> {"idle", "count", "offset", "fill", "done", "signal", "compare", "finished",
                   "threw"}]
  /\ num_players \in [Calls -> 1 .. max_num_players_]
  /\ slice \in [Calls -> [shared : Rows, player : PlayerRows, players : 0 .. max_num_players_]]
  /\ wpc \in {"idle", "done", "signal", "wait", "compact", "returned"}
  /\ ret \in [player : 0 .. batch_ * max_num_players_, shared : 0 .. batch_]

\* The calls that were given a slice, and those that have counted it as done.
Allocated == {c \in Calls : pc[c] \in {"fill", "done", "signal", "compare", "finished"}}
Finished == {c \in Calls : pc[c] \in {"signal", "compare", "finished"}}
Granted == Allocated \cup {c \in Calls : pc[c] = "offset"}

\* Writers never share a row and never leave the arrays, although nothing but
\* two atomic counters separates them (Allocate, lines 83-97).
SlicesDisjoint ==
  \A c \in Allocated :
    /\ slice[c].shared \in Rows
    /\ PlayersOf(slice[c]) \subseteq PlayerRows
    /\ \A d \in Allocated \ {c} :
         /\ slice[c].shared # slice[d].shared
         /\ PlayersOf(slice[c]) \cap PlayersOf(slice[d]) = {}

\* Past sem_.wait() nobody writes a slice or a counter any more, so the caller may
\* read the offsets and the arrays (lines 150-169).  A comparison in Done may
\* still be to come.
NoWriterLeft == wpc \in {"compact", "returned"} => Granted \subseteq Finished

\* The arrays Wait returns have no hole and no foreign row: the first
\* stepping rows were written by stepping different calls, and every player
\* row up to the truncation point by one of them (lines 152-168).
BatchComplete ==
  wpc = "returned" =>
    /\ ret.shared = stepping
    /\ \A r \in 0 .. ret.shared - 1 :
         \E c \in Allocated : slice[c].shared = r /\ buf.row[r] = c
    /\ \A r \in 0 .. ret.player - 1 :
         \E c \in Allocated : r \in PlayersOf(slice[c]) /\ buf.prow[r] = c
=============================================================================
