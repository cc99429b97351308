----------------------- MODULE CircularBufferProofs -----------------------
(***************************************************************************)
(* Proofs about the circular buffer with one putter and one getter, for    *)
(* any size.                                                               *)
(***************************************************************************)
EXTENDS CircularBufferUse, CommonFacts, TLAPS

\* The positions of a window no longer than the ring have slots of their own.
LEMMA SlotsOfWindow ==
  ASSUME NEW lo \in Nat, NEW hi \in Nat, hi <= lo + size_
  PROVE  /\ \A j, k \in lo .. hi - 1 : j # k => offset(j) # offset(k)
         /\ \A k \in lo .. hi - 1 : k \in Nat /\ offset(k) \in 0 .. size_ - 1
<1> USE BufferAssumption
<1>1. ASSUME NEW j \in lo .. hi - 1, NEW k \in lo .. hi - 1, j < k
      PROVE  offset(j) # offset(k)
  <2>1. j \in Nat /\ k \in Nat /\ k < j + size_
    BY <1>1
  <2> QED
    BY <1>1, <2>1, SlotsDiffer DEF offset
<1>2. ASSUME NEW j \in lo .. hi - 1, NEW k \in lo .. hi - 1, j # k
      PROVE  offset(j) # offset(k)
  <2>1. CASE j < k
    BY <2>1, <1>1
  <2>2. CASE k < j
    BY <2>2, <1>1
  <2> QED
    BY <1>2, <2>1, <2>2
<1>3. ASSUME NEW k \in lo .. hi - 1
      PROVE  k \in Nat /\ offset(k) \in 0 .. size_ - 1
  BY DEF offset
<1> QED
  BY <1>2, <1>3

\* What the invariant says of the window of filled slots.
LEMMA Window ==
  ASSUME IInv
  PROVE  /\ lowest \in Nat /\ highest \in Nat
         /\ lowest <= highest /\ highest <= tail_ /\ tail_ - lowest <= size_
         /\ \A g \in Getters : at[g] = "move" => lowest = pos[g] /\ lowest < highest
         /\ \A p \in Putters : at[p] = "store" => highest = pos[p]
<1> USE BufferAssumption DEF IInv, TypeOK, Users
<1>1. /\ head_ + one(Inside(Putters, {"store", "signal"})) <= tail_
      /\ tail_ - head_ + one(Inside(Getters, {"move", "signal"})) <= size_
  BY DEF CursorInv, one
<1>2. /\ (\E p \in Putters : at[p] = "store") => one(Inside(Putters, {"store", "signal"})) = 1
      /\ (\E g \in Getters : at[g] = "move") => one(Inside(Getters, {"move", "signal"})) = 1
      /\ one(Inside(Putters, {"store", "signal"})) \in Nat
      /\ one(Inside(Getters, {"move", "signal"})) \in Nat
  BY DEF one, Inside
<1>3. \A g \in Getters : at[g] = "move" => head_ = pos[g] + 1 /\ pos[g] \in Nat
  BY DEF PlaceInv
<1>4. \A p \in Putters : at[p] = "store" => tail_ = pos[p] + 1
  BY DEF PlaceInv
<1>5. head_ \in Nat /\ tail_ \in Nat /\ size_ \in Nat
  OBVIOUS
<1> HIDE DEF IInv, TypeOK
<1>6. lowest \in Nat /\ lowest <= head_ /\ tail_ - lowest <= size_
  <2>1. CASE \E g \in Getters : at[g] = "move"
    BY <2>1, <1>1, <1>2, <1>3, <1>5 DEF lowest
  <2>2. CASE ~ \E g \in Getters : at[g] = "move"
    BY <2>2, <1>1, <1>2, <1>5 DEF lowest
  <2> QED
    BY <2>1, <2>2
<1>7. highest \in Nat /\ head_ <= highest /\ highest <= tail_
  BY <1>1, <1>2, <1>5 DEF highest
<1>8. \A g \in Getters : at[g] = "move" => lowest = pos[g] /\ lowest < highest
  BY <1>3, <1>5, <1>7 DEF lowest, IInv, TypeOK, Users
<1>9. \A p \in Putters : at[p] = "store" => highest = pos[p]
  BY <1>4 DEF highest, IInv, TypeOK, Users
<1> QED
  BY <1>6, <1>7, <1>8, <1>9, <1>5

LEMMA StartPutStep ==
  ASSUME OneOfEach, IInv, NEW p \in Putters, StartPut(p)
  PROVE  IInv'
<1> USE BufferAssumption DEF OneOfEach, IInv, TypeOK, Users, StartPut, PutWait, Advance
<1>1. TypeOK'
  BY DEF TypeOK
<1>2. PlaceInv'
  BY DEF PlaceInv
<1>3. CursorInv'
  BY DEF CursorInv, PlaceInv, Inside, one
<1>4. SlotInv'
  BY DEF SlotInv, PlaceInv, lowest, highest
<1>5. GetsInOrder'
  BY DEF GetsInOrder, SlotInv, lowest, highest, PlaceInv
<1> QED
  BY <1>1, <1>2, <1>3, <1>4, <1>5 DEF IInv

LEMMA PutClaimStep ==
  ASSUME OneOfEach, IInv, NEW p \in Putters, PutClaim(p)
  PROVE  IInv'
<1> USE BufferAssumption DEF OneOfEach, IInv, TypeOK, Users, PutClaim, Advance
<1>1. TypeOK'
  BY DEF TypeOK
<1>2. PlaceInv'
  BY DEF PlaceInv
<1>3. CursorInv'
  BY DEF CursorInv, PlaceInv, Inside, one
<1>4. SlotInv'
  <2>1. lowest' = lowest /\ highest' = highest /\ buffer_' = buffer_
    BY DEF lowest, highest
  <2> QED
    BY <2>1 DEF SlotInv
<1>5. GetsInOrder'
  BY DEF GetsInOrder, SlotInv, lowest, highest, PlaceInv
<1> QED
  BY <1>1, <1>2, <1>3, <1>4, <1>5 DEF IInv

LEMMA PutStoreStep ==
  ASSUME OneOfEach, IInv, NEW p \in Putters, PutStore(p)
  PROVE  IInv'
<1> USE BufferAssumption DEF OneOfEach, IInv, TypeOK, Users, PutStore, Advance
<1>1. TypeOK'
  BY DEF TypeOK
<1>2. PlaceInv'
  BY DEF PlaceInv
<1>3. CursorInv'
  BY DEF CursorInv, PlaceInv, Inside, one
<1>4. SlotInv'
  <2>1. /\ lowest' = lowest /\ highest = pos[p] /\ highest' = pos[p] + 1
        /\ lowest \in Nat /\ pos[p] \in Nat /\ lowest <= pos[p] /\ pos[p] < lowest + size_
    BY Window DEF lowest, highest, PlaceInv
  <2>2. /\ buffer_ \in [0 .. size_ - 1 -> Nat \cup {Empty}]
        /\ buffer_' = [buffer_ EXCEPT ![offset(pos[p])] = pos[p]]
        /\ SlotInv
    OBVIOUS
  <2> HIDE DEF IInv, TypeOK, PutStore, Advance, OneOfEach, Users
  <2>3. /\ \A k \in lowest .. pos[p] - 1 : offset(k) # offset(pos[p])
        /\ \A k \in lowest .. pos[p] : k \in Nat /\ offset(k) \in 0 .. size_ - 1
    <3>1. pos[p] + 1 \in Nat /\ pos[p] + 1 <= lowest + size_
      BY <2>1
    <3>2. /\ \A j, k \in lowest .. (pos[p] + 1) - 1 : j # k => offset(j) # offset(k)
          /\ \A k \in lowest .. (pos[p] + 1) - 1 : k \in Nat /\ offset(k) \in 0 .. size_ - 1
      BY <2>1, <3>1, SlotsOfWindow
    <3> QED
      BY <2>1, <3>2
  <2>4. \A k \in lowest .. pos[p] : buffer_'[offset(k)] = k
    BY <2>1, <2>2, <2>3 DEF SlotInv
  <2>5. ASSUME NEW s \in 0 .. size_ - 1, \A k \in lowest .. pos[p] : offset(k) # s
        PROVE  buffer_'[s] = Empty
    <3>1. s # offset(pos[p]) /\ buffer_'[s] = buffer_[s]
      BY <2>1, <2>2, <2>5
    <3> QED
      BY <2>1, <2>2, <2>5, <3>1 DEF SlotInv
  <2> QED
    BY <2>1, <2>4, <2>5 DEF SlotInv
<1>5. GetsInOrder'
  BY DEF GetsInOrder, SlotInv, lowest, highest, PlaceInv
<1> QED
  BY <1>1, <1>2, <1>3, <1>4, <1>5 DEF IInv

LEMMA PutSignalStep ==
  ASSUME OneOfEach, IInv, NEW p \in Putters, PutSignal(p)
  PROVE  IInv'
<1> USE BufferAssumption DEF OneOfEach, IInv, TypeOK, Users, PutSignal, Advance
<1>1. TypeOK'
  BY DEF TypeOK
<1>2. PlaceInv'
  BY DEF PlaceInv
<1>3. CursorInv'
  BY DEF CursorInv, PlaceInv, Inside, one
<1>4. SlotInv'
  BY DEF SlotInv, PlaceInv, lowest, highest
<1>5. GetsInOrder'
  BY DEF GetsInOrder, SlotInv, lowest, highest, PlaceInv
<1> QED
  BY <1>1, <1>2, <1>3, <1>4, <1>5 DEF IInv

LEMMA GetWaitStep ==
  ASSUME OneOfEach, IInv, NEW g \in Getters, GetWait(g)
  PROVE  IInv'
<1> USE BufferAssumption DEF OneOfEach, IInv, TypeOK, Users, GetWait, Advance
<1>1. TypeOK'
  BY DEF TypeOK
<1>2. PlaceInv'
  BY DEF PlaceInv
<1>3. CursorInv'
  BY DEF CursorInv, PlaceInv, Inside, one
<1>4. SlotInv'
  BY DEF SlotInv, PlaceInv, lowest, highest
<1>5. GetsInOrder'
  BY DEF GetsInOrder, SlotInv, lowest, highest, PlaceInv
<1> QED
  BY <1>1, <1>2, <1>3, <1>4, <1>5 DEF IInv

LEMMA GetClaimStep ==
  ASSUME OneOfEach, IInv, NEW g \in Getters, GetClaim(g)
  PROVE  IInv'
<1> USE BufferAssumption DEF OneOfEach, IInv, TypeOK, Users, GetClaim, Advance
<1>1. TypeOK'
  BY DEF TypeOK
<1>2. PlaceInv'
  BY DEF PlaceInv
<1>3. CursorInv'
  BY DEF CursorInv, PlaceInv, Inside, one
<1>4. SlotInv'
  <2>1. lowest' = lowest /\ highest' = highest /\ buffer_' = buffer_
    BY DEF lowest, highest
  <2> QED
    BY <2>1 DEF SlotInv
<1>5. GetsInOrder'
  BY DEF GetsInOrder, SlotInv, lowest, highest, PlaceInv
<1> QED
  BY <1>1, <1>2, <1>3, <1>4, <1>5 DEF IInv

LEMMA GetMoveStep ==
  ASSUME OneOfEach, IInv, NEW g \in Getters, GetMove(g)
  PROVE  IInv'
<1> USE BufferAssumption DEF OneOfEach, IInv, TypeOK, Users, GetMove, Advance
<1>1. TypeOK'
  <2>1. offset(pos[g]) \in 0 .. size_ - 1
    BY DEF offset
  <2>2. buffer_' \in [0 .. size_ - 1 -> Nat \cup {Empty}] /\ got' \in [Getters -> Nat \cup {Empty}]
    BY <2>1
  <2> QED
    BY <2>2 DEF TypeOK
<1>2. PlaceInv'
  BY DEF PlaceInv
<1>3. CursorInv'
  BY DEF CursorInv, PlaceInv, Inside, one
<1>4. SlotInv'
  <2>1. /\ lowest = pos[g] /\ lowest' = pos[g] + 1 /\ highest' = highest
        /\ highest \in Nat /\ pos[g] \in Nat /\ pos[g] < highest /\ highest <= pos[g] + size_
    BY Window DEF lowest, highest, PlaceInv
  <2>2. /\ buffer_ \in [0 .. size_ - 1 -> Nat \cup {Empty}]
        /\ buffer_' = [buffer_ EXCEPT ![offset(pos[g])] = Empty]
        /\ SlotInv
    OBVIOUS
  <2> HIDE DEF IInv, TypeOK, GetMove, Advance, OneOfEach, Users
  <2>3. /\ \A k \in pos[g] + 1 .. highest - 1 : offset(k) # offset(pos[g])
        /\ \A k \in pos[g] .. highest - 1 : k \in Nat /\ offset(k) \in 0 .. size_ - 1
    <3>1. /\ \A j, k \in pos[g] .. highest - 1 : j # k => offset(j) # offset(k)
          /\ \A k \in pos[g] .. highest - 1 : k \in Nat /\ offset(k) \in 0 .. size_ - 1
      BY <2>1, SlotsOfWindow
    <3> QED
      BY <2>1, <3>1
  <2>4. \A k \in pos[g] + 1 .. highest - 1 : buffer_'[offset(k)] = k
    BY <2>1, <2>2, <2>3 DEF SlotInv
  <2>5. ASSUME NEW s \in 0 .. size_ - 1, \A k \in pos[g] + 1 .. highest - 1 : offset(k) # s
        PROVE  buffer_'[s] = Empty
    <3>1. CASE s = offset(pos[g])
      BY <2>2, <3>1
    <3>2. CASE s # offset(pos[g])
      <4>1. \A k \in lowest .. highest - 1 : offset(k) # s
        BY <2>1, <2>5, <3>2
      <4> QED
        BY <2>2, <3>2, <4>1 DEF SlotInv
    <3> QED
      BY <3>1, <3>2
  <2> QED
    BY <2>1, <2>4, <2>5 DEF SlotInv
<1>5. GetsInOrder'
  <2>1. lowest = pos[g] /\ lowest < highest /\ lowest \in Nat /\ highest \in Nat
    BY Window
  <2>2. buffer_[offset(pos[g])] = pos[g]
    BY <2>1 DEF SlotInv
  <2> QED
    BY <2>2 DEF GetsInOrder
<1> QED
  BY <1>1, <1>2, <1>3, <1>4, <1>5 DEF IInv

LEMMA GetSignalStep ==
  ASSUME OneOfEach, IInv, NEW g \in Getters, GetSignal(g)
  PROVE  IInv'
<1> USE BufferAssumption DEF OneOfEach, IInv, TypeOK, Users, GetSignal, Advance
<1>1. TypeOK'
  BY DEF TypeOK
<1>2. PlaceInv'
  BY DEF PlaceInv
<1>3. CursorInv'
  BY DEF CursorInv, PlaceInv, Inside, one
<1>4. SlotInv'
  BY DEF SlotInv, PlaceInv, lowest, highest
<1>5. GetsInOrder'
  BY DEF GetsInOrder, SlotInv, lowest, highest, PlaceInv
<1> QED
  BY <1>1, <1>2, <1>3, <1>4, <1>5 DEF IInv

LEMMA InitIInv ==
  ASSUME BufferInit
  PROVE  IInv
<1> USE BufferAssumption DEF BufferInit, freeSlots, Users
<1>1. TypeOK /\ PlaceInv /\ GetsInOrder
  BY DEF TypeOK, PlaceInv, GetsInOrder
<1>2. CursorInv
  BY DEF CursorInv, Inside, one
<1>3. SlotInv
  BY DEF SlotInv, lowest, highest
<1> QED
  BY <1>1, <1>2, <1>3 DEF IInv

LEMMA StutterStep ==
  ASSUME IInv, UNCHANGED bufferVars
  PROVE  IInv'
BY DEF IInv, bufferVars, TypeOK, PlaceInv, CursorInv, SlotInv, GetsInOrder, lowest, highest,
   Inside, one

\* With one putter and one getter the invariant holds in every reachable state.
THEOREM Invariance ==
  ASSUME OneOfEach
  PROVE  Spec => []IInv
<1>1. IInv /\ [Next]_bufferVars => IInv'
  <2> SUFFICES ASSUME IInv, [Next]_bufferVars PROVE IInv'
    OBVIOUS
  <2>1. ASSUME NEW p \in Putters, StartPut(p) \/ InsidePut(p) PROVE IInv'
    BY <2>1, OneOfEach, StartPutStep, PutClaimStep, PutStoreStep, PutSignalStep DEF InsidePut
  <2>2. ASSUME NEW g \in Getters, GetStep(g) PROVE IInv'
    BY <2>2, OneOfEach, GetWaitStep, GetClaimStep, GetMoveStep, GetSignalStep DEF GetStep
  <2>3. CASE UNCHANGED bufferVars
    BY <2>3, StutterStep
  <2> QED
    BY <2>1, <2>2, <2>3 DEF Next
<1> QED
  BY InitIInv, <1>1, PTL DEF Spec

\* First in, first out for one putter and one getter: Get number k returns the
\* element of Put number k, for any size of the buffer.
THEOREM GetsInOrderCorrect ==
  ASSUME OneOfEach
  PROVE  Spec => []GetsInOrder
<1>1. IInv => GetsInOrder
  BY DEF IInv
<1> QED
  BY <1>1, Invariance, PTL

\* A Put never overwrites an element that has not been taken out.
THEOREM StoresIntoFreeSlotCorrect ==
  ASSUME OneOfEach
  PROVE  Spec => []StoresIntoFreeSlot
<1>1. IInv => StoresIntoFreeSlot
  <2> SUFFICES ASSUME IInv, NEW p \in Putters, at[p] = "store"
               PROVE  buffer_[offset(pos[p])] = Empty
    BY DEF StoresIntoFreeSlot
  <2>1. /\ lowest \in Nat /\ highest = pos[p] /\ tail_ - lowest <= size_ /\ tail_ = pos[p] + 1
        /\ pos[p] \in Nat /\ tail_ \in Nat
    BY Window DEF IInv, TypeOK, PlaceInv, Users
  <2>2. \A k \in lowest .. highest - 1 : offset(k) # offset(pos[p])
    <3>1. \A j, k \in lowest .. tail_ - 1 : j # k => offset(j) # offset(k)
      <4>1. size_ \in Nat \ {0} /\ tail_ <= lowest + size_
        BY <2>1, BufferAssumption
      <4> QED
        BY <2>1, <4>1, SlotsOfWindow
    <3> QED
      BY <2>1, <3>1
  <2>3. offset(pos[p]) \in 0 .. size_ - 1
    BY <2>1, BufferAssumption DEF offset
  <2> QED
    BY <2>2, <2>3 DEF IInv, SlotInv
<1> QED
  BY <1>1, Invariance, PTL

\* The ring implements the stock of Stock.tla, which StateBufferQueue uses in
\* its place: never more than size_ elements are ready, and none is taken
\* before it is.
THEOREM ImplementsStockCorrect ==
  ASSUME OneOfEach
  PROVE  Spec => ImplementsStock
<1>1. BufferInit => Ready!StockInit
  BY DEF BufferInit, Ready!StockInit
<1>2. IInv /\ [Next]_bufferVars => [Ready!Put \/ Ready!Get]_sem_get_
  <2> SUFFICES ASSUME IInv, [Next]_bufferVars, sem_get_' # sem_get_
               PROVE  Ready!Put \/ Ready!Get
    OBVIOUS
  <2>1. CASE \E p \in Putters : PutSignal(p)
    <3> PICK p \in Putters : PutSignal(p)
      BY <2>1
    <3>1. one(Inside(Putters, {"store", "signal"})) = 1
      BY DEF PutSignal, Advance, Inside, one
    <3>2. /\ one(Inside(Putters, {"claim"})) \in Nat
          /\ one(Inside(Getters, {"claim"})) \in Nat
          /\ one(Inside(Getters, {"move", "signal"})) \in Nat
      BY DEF one
    <3>3. sem_get_ < size_
      BY <3>1, <3>2, BufferAssumption DEF IInv, TypeOK, CursorInv
    <3> QED
      BY <3>3 DEF Ready!Put, PutSignal
  <2>2. CASE \E g \in Getters : GetWait(g)
    BY <2>2 DEF Ready!Get, GetWait
  <2> QED
    BY <2>1, <2>2 DEF Next, StartPut, PutWait, InsidePut, PutClaim, PutStore, GetStep, GetClaim,
       GetMove, GetSignal, bufferVars
<1> QED
  BY <1>1, <1>2, Invariance, PTL DEF Spec, ImplementsStock, Ready!StockSpec
=============================================================================
