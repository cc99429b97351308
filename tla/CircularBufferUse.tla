-------------------------- MODULE CircularBufferUse --------------------------
(***************************************************************************)
(* The circular buffer under any use: every putter puts and every getter   *)
(* gets again and again.                                                   *)
(***************************************************************************)
EXTENDS CircularBuffer

CONSTANT MaxPuts  \* bound on tail_

ASSUME MaxPutsAssumption == MaxPuts \in Nat

StartPut(p) == tail_ < MaxPuts /\ PutWait(p)

Next ==
  \/ \E p \in Putters : StartPut(p) \/ InsidePut(p)
  \/ \E g \in Getters : GetStep(g)

Spec == BufferInit /\ [][Next]_bufferVars

\* A thread inside Put or Get keeps running, and getters keep coming back.
FairSpec ==
  /\ Spec
  /\ \A p \in Putters : WF_bufferVars(InsidePut(p))
  /\ \A g \in Getters : WF_bufferVars(GetStep(g))

-----------------------------------------------------------------------------
(* Properties *)

TypeOK ==
  /\ sem_get_ \in Nat /\ sem_put_ \in Nat /\ head_ \in Nat /\ tail_ \in Nat
  /\ buffer_ \in [0 .. size_ - 1 -> Nat \cup {Empty}]
  /\ at \in [Users -> {"out", "claim", "store", "move", "signal"}]
  /\ pos \in [Users -> Nat]
  /\ got \in [Getters -> Nat \cup {Empty}]

\* First in, first out: Get number k returns the element of Put number k, never
\* an empty or an overwritten one.  With one putter and one getter the code
\* keeps this promise; it does not with more (Put, lines 51-54, and Get,
\* lines 61-64, claim a position before they touch its slot).
GetsInOrder == \A g \in Getters : at[g] = "signal" => got[g] = pos[g]

\* Get returns an element that somebody put.
GetsAnElement == \A g \in Getters : at[g] = "signal" => got[g] # Empty

\* No element is lost to an overwrite: a Put finds its slot free.
StoresIntoFreeSlot == \A p \in Putters : at[p] = "store" => buffer_[offset(pos[p])] = Empty

\* The buffer implements the stock: an element is ready from the signal of its
\* Put to the wait of its Get.
Ready == INSTANCE Stock WITH stock <- sem_get_
ImplementsStock == Ready!StockSpec

\* Every element put is taken out.
EverythingTaken == \A k \in 1 .. MaxPuts : tail_ >= k ~> head_ >= k

-----------------------------------------------------------------------------
(* The inductive invariant, for one putter and one getter. *)

OneOfEach ==
  /\ \A p, q \in Putters : p = q
  /\ \A g, h \in Getters : g = h

Inside(T, S) == {t \in T : at[t] \in S}
one(S) == IF S = {} THEN 0 ELSE 1

\* The slots between the getter and the putter, each counted once: free,
\* filled, or in the hands of one of the two.
CursorInv ==
  LET putting == one(Inside(Putters, {"claim"}))
      stored  == one(Inside(Putters, {"store", "signal"}))
      taking  == one(Inside(Getters, {"claim"}))
      moved   == one(Inside(Getters, {"move", "signal"}))
  IN  /\ head_ + taking + sem_get_ + stored = tail_
      /\ sem_put_ + putting + (tail_ - head_) + moved = size_

PlaceInv ==
  /\ \A p \in Putters : at[p] \in {"out", "claim", "store", "signal"}
  /\ \A g \in Getters : at[g] \in {"out", "claim", "move", "signal"}
  /\ \A p \in Putters : at[p] \in {"store", "signal"} => tail_ = pos[p] + 1
  /\ \A g \in Getters : at[g] \in {"move", "signal"} => head_ = pos[g] + 1

\* The positions whose element is in its slot are lowest .. highest - 1.
lowest == IF \E g \in Getters : at[g] = "move" THEN head_ - 1 ELSE head_
highest == IF \E p \in Putters : at[p] = "store" THEN tail_ - 1 ELSE tail_

SlotInv ==
  /\ \A k \in lowest .. highest - 1 : buffer_[offset(k)] = k
  /\ \A s \in 0 .. size_ - 1 :
       (\A k \in lowest .. highest - 1 : offset(k) # s) => buffer_[s] = Empty

IInv == TypeOK /\ PlaceInv /\ CursorInv /\ SlotInv /\ GetsInOrder
=============================================================================
