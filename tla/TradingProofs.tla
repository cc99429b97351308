---------------------------- MODULE TradingProofs ----------------------------
(***************************************************************************)
(* Proofs about one trading env on the simulated exchange, for any file,   *)
(* delay, market, table and set of quotes: the rows are read one after the *)
(* other, delays hold and cancels catch what was acknowledged, an order is *)
(* in one place at a time, signals stay inside the episode, its rewards    *)
(* add up, and its position comes to the money of its fills.               *)
(***************************************************************************)
EXTENDS Trading, CommonFacts, FiniteSetTheorems, SequenceTheorems, WellFoundedInduction, TLAPS

Orders ==
  [orderId : 1 .. MaxOrders, side : {"BUY", "SELL"}, price : Int, amount : Nat \ {0},
   state : {"NEW", "NEW_ACK", "CANCELLED", "FILLED"}, microSecond : Nat]

\* A book has its orders under their ids, a buffer under their times.
IsBook(quotes) ==
  /\ DOMAIN quotes \subseteq 1 .. MaxOrders
  /\ \A o \in DOMAIN quotes : quotes[o] \in Orders /\ quotes[o].orderId = o
IsBuffer(buffer) ==
  /\ DOMAIN buffer \subseteq Nat
  /\ \A t \in DOMAIN buffer :
       buffer[t] \in Seq(Orders) /\ \A q \in Range(buffer[t]) : q.microSecond = t

\* The batch in memory is the rows of a stretch of the file up to `line', and
\* while an episode lasts one of them is the current one.
ReaderInv ==
  /\ line \in 0 .. Lines /\ num_reads \in Nat
  /\ \E from \in 0 .. line : rows = rowsRead(from, line)
  /\ ~more_data => RowsBetween(line, Lines) = {} \/ num_reads > max_read
  /\ ~isDone => current \in 1 .. Len(rows)

ExchangeInv ==
  /\ IsBook(bid_quotes) /\ IsBook(ask_quotes) /\ IsBuffer(timed_buffer)
  /\ market \in [id : Nat, bid : Nat, ask : Nat \ {0}] /\ DOMAIN timed_buffer \subseteq 0 .. market.id
  /\ book \in [bid : Int, ask : Int]
  /\ order_id \in Nat /\ quotedAt \in Nat
  /\ pc \in {"idle", "read", "fills"} /\ isDone \in BOOLEAN
  /\ pc # "idle" => ~isDone

\* A quote that was on its way when the last step cancelled the others was
\* not due then.
LateInv ==
  \A q \in Waiting : q.state = "NEW" /\ q.microSecond < quotedAt => q.microSecond + delay > quotedAt

\* The next row of the table is the one after the last book.
TableInv ==
  /\ seen \in Seq(WellFormed)
  /\ market_builder \in [currentRow : -1 .. NUM_ROWS - 1,
                         buffer : [0 .. NUM_ROWS - 1 -> WellFormed \cup {ZeroRow}]]

Positions ==
  [averagePrice : Int, netAmount : Int, balance : Int, totalFee : Int,
   buy_amount : Nat, average_buy_price : Int, sell_amount : Nat, average_sell_price : Int]

\* The rewards so far come to what the last state was written from.  Between
\* steps this is the position and the last book, and the info is empty; within a
\* step the first row puts them in the info.
RewardInv ==
  /\ position \in Positions /\ executions \in Seq(Orders)
  /\ info \in [fees : Int, buy_sell_diff : Int] /\ reads \in 0 .. 2
  /\ previous_fees \in Int /\ previous_buy_sell_diff \in Int
  /\ rewards = previous_buy_sell_diff - previous_fees
  /\ pc = "idle" =>
       /\ info = NoInfo
       /\ previous_fees = (IF isDone /\ reads = 0 THEN 0 ELSE position.totalFee)
       /\ previous_buy_sell_diff =
            (IF isDone /\ reads = 0 THEN 0 ELSE buy_sell_diff(position, book))
  /\ pc # "idle" => reads < 2 /\ info = (IF reads = 0 THEN NoInfo ELSE computeInfo(position, book))

IInv ==
  /\ ReaderInv /\ ExchangeInv /\ DelaysHold /\ LateInv /\ OnlyLateQuotesSurvive
  /\ TableInv /\ SignalsOfEpisode /\ RewardInv

-----------------------------------------------------------------------------
(* Sorted sets, books and buffers *)

\* The members of two sequences one after the other.
LEMMA RangeOfBoth ==
  ASSUME NEW X, NEW s \in Seq(X), NEW t \in Seq(X)
  PROVE  s \o t \in Seq(X) /\ Range(s \o t) = Range(s) \cup Range(t)
<1>1. /\ Len(s) \in Nat /\ Len(t) \in Nat /\ s \o t \in Seq(X) /\ Len(s \o t) = Len(s) + Len(t)
      /\ \A k \in 1 .. Len(s) : (s \o t)[k] = s[k]
      /\ \A k \in 1 .. Len(t) : (s \o t)[k + Len(s)] = t[k]
  OBVIOUS
<1>2. DOMAIN s = 1 .. Len(s) /\ DOMAIN t = 1 .. Len(t) /\ DOMAIN (s \o t) = 1 .. Len(s \o t)
  BY <1>1
<1>3. ASSUME NEW x \in Range(s) PROVE x \in Range(s \o t)
  <2>1. PICK k \in 1 .. Len(s) : s[k] = x
    BY <1>2 DEF Range
  <2>2. k \in DOMAIN (s \o t) /\ (s \o t)[k] = x
    BY <1>1, <1>2, <2>1
  <2> QED
    BY <2>2 DEF Range
<1>4. ASSUME NEW x \in Range(t) PROVE x \in Range(s \o t)
  <2>1. PICK k \in 1 .. Len(t) : t[k] = x
    BY <1>2 DEF Range
  <2>2. k + Len(s) \in DOMAIN (s \o t) /\ (s \o t)[k + Len(s)] = x
    BY <1>1, <1>2, <2>1
  <2> QED
    BY <2>2 DEF Range
<1>5. ASSUME NEW x \in Range(s \o t) PROVE x \in Range(s) \cup Range(t)
  <2>1. PICK k \in 1 .. Len(s) + Len(t) : (s \o t)[k] = x
    BY <1>1, <1>2, <1>5 DEF Range
  <2>2. CASE k <= Len(s)
    <3>1. k \in DOMAIN s /\ s[k] = x
      BY <1>1, <1>2, <2>1, <2>2
    <3> QED
      BY <3>1 DEF Range
  <2>3. CASE k > Len(s)
    <3>1. k - Len(s) \in DOMAIN t /\ k - Len(s) \in 1 .. Len(t) /\ (k - Len(s)) + Len(s) = k
      BY <1>1, <1>2, <2>1, <2>3
    <3>2. t[k - Len(s)] = x
      BY <1>1, <2>1, <3>1
    <3> QED
      BY <3>1, <3>2 DEF Range
  <2> QED
    BY <1>1, <2>1, <2>2, <2>3
<1> QED
  BY <1>1, <1>3, <1>4, <1>5

\* No two of these orders have the same id.
Distinct(orders) == \A p, q \in orders : p.orderId = q.orderId => p = q

\* The order under an id.
LEMMA ByIdFacts ==
  ASSUME NEW S \in SUBSET Orders
  PROVE  /\ DOMAIN ById(S) = {q.orderId : q \in S}
         /\ \A o \in DOMAIN ById(S) : ById(S)[o] \in S /\ ById(S)[o].orderId = o
         /\ Distinct(S) => \A q \in S : ById(S)[q.orderId] = q
BY DEF ById, Distinct

LEMMA InOrderFacts ==
  ASSUME NEW S \in SUBSET Orders, Distinct(S)
  PROVE  InOrder(S) \in Seq(Orders) /\ Range(InOrder(S)) = S
<1> DEFINE ids == {q.orderId : q \in S}
<1>1. ids \in SUBSET Int /\ IsFiniteSet(ids)
  <2>1. MaxOrders \in Int /\ ids \in SUBSET (1 .. MaxOrders)
    BY TradingAssumption DEF Orders
  <2>2. IsFiniteSet(1 .. MaxOrders)
    BY <2>1, FS_Interval
  <2>3. ids \in SUBSET Int
    BY <2>1
  <2> HIDE DEF ids
  <2>4. IsFiniteSet(ids)
    BY <2>1, <2>2, FS_Subset
  <2> QED
    BY <2>3, <2>4
<1> DEFINE n == Cardinality(ids)
           sorted == Sorted(ids)
<1>2. /\ n \in Nat /\ sorted \in [1 .. n -> ids]
      /\ \A o \in ids : \E k \in 1 .. n : sorted[k] = o
  BY <1>1, SortedFacts
<1>3. InOrder(S) = [k \in 1 .. n |-> ById(S)[sorted[k]]]
  BY <1>2 DEF InOrder
<1> HIDE DEF sorted, n
<1>f. /\ \A o \in ids : ById(S)[o] \in S
      /\ \A q \in S : ById(S)[q.orderId] = q
  BY ByIdFacts
<1>4. \A k \in 1 .. n : InOrder(S)[k] \in S
  BY <1>2, <1>3, <1>f
<1>5. InOrder(S) \in Seq(Orders)
  <2>1. InOrder(S) \in [1 .. n -> Orders]
    BY <1>3, <1>4
  <2> QED
    BY <1>2, <2>1
<1>6. ASSUME NEW q \in S PROVE q \in Range(InOrder(S))
  <2>1. PICK k \in 1 .. n : sorted[k] = q.orderId
    BY <1>2
  <2>2. InOrder(S)[k] = q /\ k \in DOMAIN InOrder(S)
    BY <1>3, <1>f, <2>1
  <2> QED
    BY <2>2 DEF Range
<1>7. DOMAIN InOrder(S) = 1 .. n
  BY <1>3
<1> QED
  BY <1>4, <1>5, <1>6, <1>7 DEF Range

\* The orders in a buffer.
Held(buffer) == UNION {Range(buffer[t]) : t \in DOMAIN buffer}

LEMMA AddAllFacts ==
  ASSUME NEW buffer, IsBuffer(buffer),
         NEW bids \in SUBSET Orders, Distinct(bids), NEW asks \in SUBSET Orders, Distinct(asks)
  PROVE  /\ IsBuffer(AddAll(buffer, bids, asks))
         /\ Held(AddAll(buffer, bids, asks)) = Held(buffer) \cup bids \cup asks
         /\ \A t \in DOMAIN AddAll(buffer, bids, asks) :
              t \in DOMAIN buffer \/ \E q \in bids \cup asks : q.microSecond = t
<1> DEFINE times == {q.microSecond : q \in bids \cup asks}
           old(t) == IF t \in DOMAIN buffer THEN buffer[t] ELSE <<>>
           bidsAt(t) == {q \in bids : q.microSecond = t}
           asksAt(t) == {q \in asks : q.microSecond = t}
           after == AddAll(buffer, bids, asks)
<1>1. DOMAIN after = DOMAIN buffer \cup times
  BY DEF AddAll
<1>2. times \subseteq Nat
  BY DEF Orders
<1>3. ASSUME NEW t \in DOMAIN after
      PROVE  /\ after[t] \in Seq(Orders)
             /\ Range(after[t]) = Range(old(t)) \cup bidsAt(t) \cup asksAt(t)
  <2>1. old(t) \in Seq(Orders)
    BY DEF IsBuffer
  <2>2. InOrder(bidsAt(t)) \in Seq(Orders) /\ Range(InOrder(bidsAt(t))) = bidsAt(t)
    <3>1. bidsAt(t) \in SUBSET Orders /\ Distinct(bidsAt(t))
      BY DEF Distinct
    <3> QED
      BY <3>1, InOrderFacts
  <2>3. InOrder(asksAt(t)) \in Seq(Orders) /\ Range(InOrder(asksAt(t))) = asksAt(t)
    <3>1. asksAt(t) \in SUBSET Orders /\ Distinct(asksAt(t))
      BY DEF Distinct
    <3> QED
      BY <3>1, InOrderFacts
  <2>4. after[t] = (old(t) \o InOrder(bidsAt(t))) \o InOrder(asksAt(t))
    BY <1>1 DEF AddAll
  <2> HIDE DEF old, bidsAt, asksAt, after
  <2>5. /\ old(t) \o InOrder(bidsAt(t)) \in Seq(Orders)
        /\ Range(old(t) \o InOrder(bidsAt(t))) = Range(old(t)) \cup bidsAt(t)
    BY <2>1, <2>2, RangeOfBoth
  <2> DEFINE both == old(t) \o InOrder(bidsAt(t))
             last == InOrder(asksAt(t))
  <2>6. both \in Seq(Orders) /\ last \in Seq(Orders) /\ after[t] = both \o last
    BY <2>3, <2>4, <2>5
  <2> HIDE DEF both, last
  <2>7. after[t] \in Seq(Orders) /\ Range(after[t]) = Range(both) \cup Range(last)
    BY <2>6, RangeOfBoth
  <2> QED
    BY <2>3, <2>5, <2>7 DEF both, last
<1>4. \A t \in DOMAIN after : Range(old(t)) = IF t \in DOMAIN buffer THEN Range(buffer[t]) ELSE {}
  BY DEF Range
<1> HIDE DEF after, old
<1>5. IsBuffer(after)
  <2>1. DOMAIN after \subseteq Nat
    BY <1>1, <1>2 DEF IsBuffer
  <2>2. ASSUME NEW t \in DOMAIN after, NEW q \in Range(after[t]) PROVE q.microSecond = t
    <3>1. q \in Range(old(t)) \/ q \in bidsAt(t) \/ q \in asksAt(t)
      BY <1>3, <2>2
    <3>2. q \in Range(old(t)) => t \in DOMAIN buffer /\ q \in Range(buffer[t])
      BY <1>4
    <3> QED
      BY <3>1, <3>2 DEF IsBuffer
  <2> QED
    BY <1>3, <2>1, <2>2 DEF IsBuffer
<1>6. Held(after) = Held(buffer) \cup bids \cup asks
  <2>1. ASSUME NEW q \in Held(after) PROVE q \in Held(buffer) \cup bids \cup asks
    BY <1>1, <1>3, <1>4, <2>1 DEF Held
  <2>2. ASSUME NEW q \in Held(buffer) PROVE q \in Held(after)
    BY <1>1, <1>3, <1>4, <2>2 DEF Held
  <2>3. ASSUME NEW q \in bids PROVE q \in Held(after)
    <3>1. q.microSecond \in DOMAIN after /\ q \in bidsAt(q.microSecond)
      BY <1>1
    <3> QED
      BY <1>3, <3>1 DEF Held
  <2>4. ASSUME NEW q \in asks PROVE q \in Held(after)
    <3>1. q.microSecond \in DOMAIN after /\ q \in asksAt(q.microSecond)
      BY <1>1
    <3> QED
      BY <1>3, <3>1 DEF Held
  <2> QED
    BY <2>1, <2>2, <2>3, <2>4
<1>7. \A t \in DOMAIN after : t \in DOMAIN buffer \/ \E q \in bids \cup asks : q.microSecond = t
  BY <1>1
<1> QED
  BY <1>5, <1>6, <1>7 DEF after

-----------------------------------------------------------------------------
(* Folds *)

\* The last member of a set of places.
LEMMA Largest ==
  ASSUME NEW n \in Nat, NEW S \in SUBSET (1 .. n), S # {}
  PROVE  /\ Max(S) \in S /\ \A x \in S : x <= Max(S)
         /\ Max(S) \in 1 .. n
<1>1. S \in SUBSET Int /\ IsFiniteSet(S)
  <2>1. IsFiniteSet(1 .. n) /\ S \in SUBSET Int
    BY FS_Interval
  <2> QED
    BY <2>1, FS_Subset
<1> DEFINE m == Cardinality(S)
           s == Sorted(S)
<1>2. /\ m \in Nat /\ s \in [1 .. m -> S]
      /\ \A x \in S : \E k \in 1 .. m : s[k] = x
      /\ \A j, k \in 1 .. m : j < k => s[j] < s[k]
  BY <1>1, SortedFacts
<1> HIDE DEF m, s
<1>3. m \in 1 .. m /\ s[m] \in S
  <2>1. PICK x \in S : TRUE
    OBVIOUS
  <2>2. PICK k \in 1 .. m : s[k] = x
    BY <1>2
  <2>3. m \in 1 .. m
    BY <1>2, <2>2
  <2> QED
    BY <1>2, <2>3
<1>4. ASSUME NEW x \in S PROVE x <= s[m]
  <2>1. PICK k \in 1 .. m : s[k] = x
    BY <1>2
  <2>2. k = m \/ s[k] < s[m]
    BY <1>2, <1>3
  <2>3. x \in Int /\ s[m] \in Int
    BY <1>1, <1>3
  <2> QED
    BY <2>1, <2>2, <2>3
<1>5. Max(S) \in S /\ \A y \in S : Max(S) >= y
  <2>1. \E x \in S : \A y \in S : x >= y
    BY <1>1, <1>3, <1>4
  <2> QED
    BY <2>1 DEF Max
<1> QED
  BY <1>1, <1>5

LEMMA BeforeLargest ==
  ASSUME NEW m \in Nat, NEW S \in SUBSET (1 .. m), S # {}
  PROVE  m - 1 \in Nat /\ m - 1 < m /\ S \ {Max(S)} \in SUBSET (1 .. m - 1)
<1>1. Max(S) \in S /\ (\A x \in S : x <= Max(S)) /\ Max(S) \in 1 .. m
  BY Largest
<1>2. ASSUME NEW x \in S, x # Max(S) PROVE x \in 1 .. m - 1
  BY <1>1, <1>2
<1>3. S \ {Max(S)} \in SUBSET (1 .. m - 1)
  BY <1>2
<1> QED
  BY <1>1, <1>3

\* What a fold computes exists: a function of the sets of places that adds the
\* step of the last one.
IsFold(h, n, base, adds) ==
  \A S \in SUBSET (1 .. n) :
    h[S] = IF S = {} THEN base ELSE adds[<<Max(S), h[S \ {Max(S)}]>>]

LEMMA FoldExists ==
  ASSUME NEW n \in Nat, NEW A, NEW base \in A, NEW Adds \in [(1 .. n) \X A -> A]
  PROVE  \E h \in [SUBSET (1 .. n) -> A] : IsFold(h, n, base, Adds)
<1> DEFINE Works(m, h) ==
             \A S \in SUBSET (1 .. m) :
               h[S] = IF S = {} THEN base ELSE Adds[<<Max(S), h[S \ {Max(S)}]>>]
           Fails == {m \in 0 .. n : ~ \E h \in [SUBSET (1 .. m) -> A] : Works(m, h)}
<1>1. SUFFICES Fails = {}
  <2>1. n \in 0 .. n
    OBVIOUS
  <2> HIDE DEF Works
  <2>2. \E h \in [SUBSET (1 .. n) -> A] : Works(n, h)
    BY <1>1, <2>1
  <2> QED
    BY <2>2 DEF Works, IsFold
<1>2. SUFFICES ASSUME Fails # {} PROVE FALSE
  OBVIOUS
<1>3. PICK m \in Fails : m = 0 \/ (m - 1 \in 0 .. n /\ m - 1 \notin Fails)
  <2> HIDE DEF Works
  <2>1. Fails \subseteq Nat
    OBVIOUS
  <2> HIDE DEF Fails
  <2>2. PICK m \in Fails : \A k \in Fails : ~ (<<k, m>> \in OpToRel(<, Nat))
    BY <1>2, <2>1, NatLessThanWellFounded, WFMin
  <2>3. m \in 0 .. n
    BY DEF Fails
  <2>4. CASE m = 0
    BY <2>4
  <2>5. CASE m # 0
    <3>1. m - 1 \in 0 .. n /\ m - 1 \in Nat /\ m \in Nat /\ m - 1 < m
      BY <2>3, <2>5
    <3>2. <<m - 1, m>> \in OpToRel(<, Nat)
      BY <3>1 DEF OpToRel
    <3> QED
      BY <2>2, <3>1, <3>2
  <2> QED
    BY <2>4, <2>5
<1>4. m \in 0 .. n /\ ~ \E h \in [SUBSET (1 .. m) -> A] : Works(m, h)
  OBVIOUS
<1>5. CASE m = 0
  <2> DEFINE h == [S \in SUBSET (1 .. m) |-> base]
  <2>1. \A S \in SUBSET (1 .. m) : S = {}
    BY <1>5
  <2>2. h \in [SUBSET (1 .. m) -> A] /\ Works(m, h)
    BY <2>1
  <2> QED
    BY <1>4, <2>2
<1>6. CASE m # 0
  <2>1. PICK g \in [SUBSET (1 .. m - 1) -> A] : Works(m - 1, g)
    <3> HIDE DEF Works
    <3> QED
      BY <1>3, <1>6
  <2> DEFINE h == [S \in SUBSET (1 .. m) |->
                     IF S = {} THEN base ELSE Adds[<<Max(S), g[S \ {Max(S)}]>>]]
  <2>2. ASSUME NEW S \in SUBSET (1 .. m), S # {}
        PROVE  /\ Max(S) \in 1 .. m /\ Max(S) \in 1 .. n
               /\ S \ {Max(S)} \in SUBSET (1 .. m - 1)
    <3>1. m \in Nat /\ n \in Nat /\ m <= n
      BY <1>4
    <3>2. Max(S) \in 1 .. m
      BY <2>2, <3>1, Largest
    <3>3. S \ {Max(S)} \in SUBSET (1 .. m - 1)
      BY <2>2, <3>1, BeforeLargest
    <3>4. Max(S) \in 1 .. n
      BY <3>1, <3>2
    <3> QED
      BY <3>2, <3>3, <3>4
  <2>3. h \in [SUBSET (1 .. m) -> A]
    <3> SUFFICES ASSUME NEW S \in SUBSET (1 .. m)
                 PROVE  (IF S = {} THEN base ELSE Adds[<<Max(S), g[S \ {Max(S)}]>>]) \in A
      OBVIOUS
    <3>1. CASE S # {}
      BY <2>2, <3>1
    <3> QED
      BY <3>1
  <2>4. ASSUME NEW S \in SUBSET (1 .. m - 1) PROVE h[S] = g[S]
    <3>1. S \in SUBSET (1 .. m)
      BY <1>4
    <3>2. g[S] = IF S = {} THEN base ELSE Adds[<<Max(S), g[S \ {Max(S)}]>>]
      BY <2>1
    <3> QED
      BY <3>1, <3>2
  <2>5. Works(m, h)
    <3> SUFFICES ASSUME NEW S \in SUBSET (1 .. m)
                 PROVE  h[S] = IF S = {} THEN base ELSE Adds[<<Max(S), h[S \ {Max(S)}]>>]
      OBVIOUS
    <3>1. S # {} => h[S \ {Max(S)}] = g[S \ {Max(S)}]
      <4> HIDE DEF h
      <4> QED
        BY <2>2, <2>4
    <3>2. h[S] = IF S = {} THEN base ELSE Adds[<<Max(S), g[S \ {Max(S)}]>>]
      OBVIOUS
    <3> HIDE DEF h
    <3> QED
      BY <3>1, <3>2
  <2> HIDE DEF h, Works
  <2> QED
    BY <1>4, <2>3, <2>5
<1> QED
  BY <1>5, <1>6

\* A fold stays where it starts if each step does.
LEMMA FoldStays ==
  ASSUME NEW n \in Nat, NEW A, NEW g, g[{}] \in A,
         \A S \in SUBSET (1 .. n) : S # {} /\ g[S \ {Max(S)}] \in A => g[S] \in A
  PROVE  g[1 .. n] \in A
<1> DEFINE Leaves == {m \in 0 .. n : \E S \in SUBSET (1 .. m) : g[S] \notin A}
<1>1. SUFFICES ASSUME Leaves # {} PROVE FALSE
  <2>1. n \in 0 .. n
    OBVIOUS
  <2> QED
    BY <1>1, <2>1
<1>2. Leaves \subseteq Nat
  OBVIOUS
<1> HIDE DEF Leaves
<1>3. PICK m \in Leaves : \A k \in Leaves : ~ (<<k, m>> \in OpToRel(<, Nat))
  BY <1>1, <1>2, NatLessThanWellFounded, WFMin
<1>4. PICK S \in SUBSET (1 .. m) : g[S] \notin A
  BY DEF Leaves
<1>5. m \in Nat /\ n \in Nat /\ m <= n /\ S \in SUBSET (1 .. n)
  BY <1>4 DEF Leaves
<1>6. S # {}
  BY <1>4
<1>7. m - 1 \in Nat /\ m - 1 < m /\ S \ {Max(S)} \in SUBSET (1 .. m - 1)
  BY <1>4, <1>5, <1>6, BeforeLargest
<1>8. m - 1 \notin Leaves
  BY <1>3, <1>5, <1>7 DEF OpToRel
<1>9. g[S \ {Max(S)}] \in A
  BY <1>5, <1>7, <1>8 DEF Leaves
<1> QED
  BY <1>4, <1>5, <1>6, <1>9

\* What holds at the start of a fold and after each step holds at its end.
LEMMA FoldHolds ==
  ASSUME NEW n \in Nat, NEW Good, {} \in Good,
         \A S \in SUBSET (1 .. n) : S # {} /\ S \ {Max(S)} \in Good => S \in Good
  PROVE  1 .. n \in Good
<1> DEFINE id == [S \in SUBSET (1 .. n) |-> S]
<1>1. id[{}] \in Good
  OBVIOUS
<1>2. \A S \in SUBSET (1 .. n) : S # {} /\ id[S \ {Max(S)}] \in Good => id[S] \in Good
  OBVIOUS
<1>3. id[1 .. n] = 1 .. n
  OBVIOUS
<1> HIDE DEF id
<1>4. id[1 .. n] \in Good
  BY <1>1, <1>2, FoldStays
<1> QED
  BY <1>3, <1>4

\* The reports of one time are such a function.
IsReport(g, fills, s) ==
  /\ g[{}] = fills
  /\ \A S \in SUBSET (1 .. Len(s)) :
       S # {} => g[S] = report(g[S \ {Max(S)}], s[Max(S)])
  /\ FoldLeft(report, fills, s) = g[1 .. Len(s)]

LEMMA ReportType ==
  ASSUME NEW fills \in Seq(Orders), NEW q \in Orders
  PROVE  report(fills, q) \in Seq(Orders)
BY DEF report

LEMMA ReportSteps ==
  ASSUME NEW fills \in Seq(Orders), NEW s \in Seq(Orders)
  PROVE  \E g : IsReport(g, fills, s)
<1> DEFINE n == Len(s)
           A == Seq(Orders)
           Adds == [p \in (1 .. n) \X A |-> report(p[2], s[p[1]])]
           folds(g) == g = [S \in SUBSET DOMAIN s |->
                              IF S = {} THEN fills ELSE report(g[S \ {Max(S)}], s[Max(S)])]
           fold == CHOOSE g : folds(g)
<1>1. n \in Nat /\ DOMAIN s = 1 .. n /\ \A k \in 1 .. n : s[k] \in Orders
  OBVIOUS
<1>2. ASSUME NEW a \in A, NEW q \in Orders PROVE report(a, q) \in A
  BY ReportType
<1>3. Adds \in [(1 .. n) \X A -> A]
  BY <1>1, <1>2
<1> HIDE DEF n, A
<1>4. PICK h \in [SUBSET (1 .. n) -> A] : IsFold(h, n, fills, Adds)
  <2> HIDE DEF Adds
  <2>1. fills \in A /\ n \in Nat
    BY <1>1 DEF A
  <2> QED
    BY ONLY <1>3, <2>1, FoldExists
<1>5. ASSUME NEW S \in SUBSET (1 .. n)
      PROVE  h[S] = IF S = {} THEN fills ELSE report(h[S \ {Max(S)}], s[Max(S)])
  <2>1. S # {} => Max(S) \in 1 .. n /\ h[S \ {Max(S)}] \in A
    BY <1>1, <1>4, Largest
  <2> QED
    BY <1>4, <2>1 DEF IsFold
<1>6. folds(h)
  BY <1>1, <1>4, <1>5
<1>7. folds(fold)
  <2> HIDE DEF folds
  <2> QED
    BY <1>6
<1>8. FoldLeft(report, fills, s) = fold[DOMAIN s]
  BY DEF FoldLeft, MapThenFoldSet
<1> HIDE DEF fold, Adds
<1>9. \A S \in SUBSET (1 .. n) :
        fold[S] = IF S = {} THEN fills ELSE report(fold[S \ {Max(S)}], s[Max(S)])
  BY <1>1, <1>7
<1>10. IsReport(fold, fills, s)
  BY <1>1, <1>8, <1>9 DEF IsReport, n
<1> QED
  BY <1>10

LEMMA ReportFold ==
  ASSUME NEW fills \in Seq(Orders), NEW s \in Seq(Orders)
  PROVE  FoldLeft(report, fills, s) \in Seq(Orders)
<1>1. PICK g : IsReport(g, fills, s)
  BY ReportSteps
<1>2. Len(s) \in Nat /\ \A k \in 1 .. Len(s) : s[k] \in Orders
  OBVIOUS
<1>3. ASSUME NEW S \in SUBSET (1 .. Len(s)), S # {} /\ g[S \ {Max(S)}] \in Seq(Orders)
      PROVE  g[S] \in Seq(Orders)
  <2>1. s[Max(S)] \in Orders
    BY <1>2, <1>3, Largest
  <2>2. g[S] = report(g[S \ {Max(S)}], s[Max(S)])
    BY <1>1, <1>3 DEF IsReport
  <2>3. report(g[S \ {Max(S)}], s[Max(S)]) \in Seq(Orders)
    BY <1>3, <2>1, ReportType
  <2> QED
    BY <2>2, <2>3
<1>4. g[{}] \in Seq(Orders)
  BY <1>1 DEF IsReport
<1>5. g[1 .. Len(s)] \in Seq(Orders)
  BY <1>2, <1>3, <1>4, FoldStays
<1> QED
  BY <1>1, <1>5 DEF IsReport

LEMMA OnFillType ==
  ASSUME NEW pos \in Positions, NEW order \in Orders
  PROVE  onFill(pos, order) \in Positions
<1>1. /\ pos.averagePrice \in Int /\ pos.netAmount \in Int /\ pos.balance \in Int /\ pos.totalFee \in Int
      /\ pos.buy_amount \in Nat /\ pos.average_buy_price \in Int
      /\ pos.sell_amount \in Nat /\ pos.average_sell_price \in Int
      /\ order.amount \in Nat \ {0} /\ order.price \in Int
  BY DEF Positions, Orders
<1>2. \A x \in Int, y \in Nat \ {0} : x \div y \in Int
  OBVIOUS
<1>3. \A x, y \in Int : x * y \in Int
  OBVIOUS
<1>4. sign(order.side) \in Int /\ \A x \in Int : abs(x) \in Nat
  BY DEF sign, abs
<1>5. averageAfter(pos, order) \in Int
  <2>1. order.amount * order.price + abs(pos.netAmount) * pos.averagePrice \in Int
    BY <1>1, <1>3, <1>4
  <2>2. order.amount + abs(pos.netAmount) \in Nat \ {0}
    BY <1>1, <1>4
  <2>3. (order.amount * order.price + abs(pos.netAmount) * pos.averagePrice)
          \div (order.amount + abs(pos.netAmount)) \in Int
    BY <1>2, <2>1, <2>2
  <2> QED
    BY <1>1, <2>3 DEF averageAfter
<1>6. ASSUME NEW average \in Int, NEW amount \in Nat PROVE averaged(average, amount, order) \in Int
  <2>1. average * amount + order.price * order.amount \in Int
    BY <1>1, <1>3
  <2>2. amount + order.amount \in Nat \ {0}
    BY <1>1
  <2> QED
    BY <1>2, <2>1, <2>2 DEF averaged
<1>7. tradesAfter(pos, order) \in Positions
  <2>1. /\ averaged(pos.average_buy_price, pos.buy_amount, order) \in Int
        /\ averaged(pos.average_sell_price, pos.sell_amount, order) \in Int
    BY <1>1, <1>6
  <2>2. pos.buy_amount + order.amount \in Nat /\ pos.sell_amount + order.amount \in Nat
    BY <1>1
  <2> QED
    BY <2>1, <2>2 DEF tradesAfter, Positions
<1>8. fees(order) \in Int
  <2>1. makerFee \in Int /\ order.amount \in Int
    BY <1>1, FeeAssumption
  <2>2. order.amount * makerFee \in Int
    BY <1>3, <2>1
  <2> QED
    BY <1>1, <1>3, <2>2 DEF fees
<1> DEFINE net == pos.netAmount
           closed == IF net * sign(order.side) < 0 THEN closedPart(net, order.amount) ELSE 0
<1>9. closed \in Int
  BY <1>1 DEF closedPart
<1> HIDE DEF closed
<1>10. pnl(closed, pos.averagePrice, order.price) \in Int
  <2>1. order.price - pos.averagePrice \in Int
    BY <1>1
  <2> QED
    BY <1>3, <1>9, <2>1 DEF pnl
<1>11. net + order.amount * sign(order.side) \in Int
  BY <1>1, <1>3, <1>4
<1>12. pos.totalFee + fees(order) \in Int /\ pos.balance + pnl(closed, pos.averagePrice, order.price) \in Int
  BY <1>1, <1>8, <1>10
<1>13. onFill(pos, order) =
         [tradesAfter(pos, order) EXCEPT
            !.averagePrice = averageAfter(pos, order),
            !.netAmount = net + order.amount * sign(order.side),
            !.totalFee = pos.totalFee + fees(order),
            !.balance = pos.balance + pnl(closed, pos.averagePrice, order.price)]
  BY DEF onFill, closed
<1> HIDE DEF net
<1> QED
  BY <1>5, <1>7, <1>11, <1>12, <1>13 DEF Positions

\* The fills that the position takes are such a function too.
IsFills(g, pos, s) ==
  /\ g[{}] = pos
  /\ \A S \in SUBSET (1 .. Len(s)) :
       S # {} => g[S] = onFill(g[S \ {Max(S)}], s[Max(S)])
  /\ FoldLeft(onFill, pos, s) = g[1 .. Len(s)]

LEMMA FillSteps ==
  ASSUME NEW pos \in Positions, NEW s \in Seq(Orders)
  PROVE  \E g : IsFills(g, pos, s)
<1> DEFINE n == Len(s)
           A == Positions
           Adds == [p \in (1 .. n) \X A |-> onFill(p[2], s[p[1]])]
           folds(g) == g = [S \in SUBSET DOMAIN s |->
                              IF S = {} THEN pos ELSE onFill(g[S \ {Max(S)}], s[Max(S)])]
           fold == CHOOSE g : folds(g)
<1>1. n \in Nat /\ DOMAIN s = 1 .. n /\ \A k \in 1 .. n : s[k] \in Orders
  OBVIOUS
<1>2. ASSUME NEW a \in A, NEW q \in Orders PROVE onFill(a, q) \in A
  BY OnFillType
<1>3. Adds \in [(1 .. n) \X A -> A]
  BY <1>1, <1>2
<1> HIDE DEF n, A
<1>4. PICK h \in [SUBSET (1 .. n) -> A] : IsFold(h, n, pos, Adds)
  <2> HIDE DEF Adds
  <2>1. pos \in A /\ n \in Nat
    BY <1>1 DEF A
  <2> QED
    BY ONLY <1>3, <2>1, FoldExists
<1>5. ASSUME NEW S \in SUBSET (1 .. n)
      PROVE  h[S] = IF S = {} THEN pos ELSE onFill(h[S \ {Max(S)}], s[Max(S)])
  <2>1. S # {} => Max(S) \in 1 .. n /\ h[S \ {Max(S)}] \in A
    BY <1>1, <1>4, Largest
  <2> QED
    BY <1>4, <2>1 DEF IsFold
<1>6. folds(h)
  BY <1>1, <1>4, <1>5
<1>7. folds(fold)
  <2> HIDE DEF folds
  <2> QED
    BY <1>6
<1>8. FoldLeft(onFill, pos, s) = fold[DOMAIN s]
  BY DEF FoldLeft, MapThenFoldSet
<1> HIDE DEF fold, Adds
<1>9. \A S \in SUBSET (1 .. n) :
        fold[S] = IF S = {} THEN pos ELSE onFill(fold[S \ {Max(S)}], s[Max(S)])
  BY <1>1, <1>7
<1>10. IsFills(fold, pos, s)
  BY <1>1, <1>8, <1>9 DEF IsFills, n
<1> QED
  BY <1>10

LEMMA OnFillFold ==
  ASSUME NEW pos \in Positions, NEW s \in Seq(Orders)
  PROVE  FoldLeft(onFill, pos, s) \in Positions
<1>1. PICK g : IsFills(g, pos, s)
  BY FillSteps
<1>2. Len(s) \in Nat /\ \A k \in 1 .. Len(s) : s[k] \in Orders
  OBVIOUS
<1>3. ASSUME NEW S \in SUBSET (1 .. Len(s)), S # {} /\ g[S \ {Max(S)}] \in Positions
      PROVE  g[S] \in Positions
  <2>1. s[Max(S)] \in Orders
    BY <1>2, <1>3, Largest
  <2>2. g[S] = onFill(g[S \ {Max(S)}], s[Max(S)])
    BY <1>1, <1>3 DEF IsFills
  <2>3. onFill(g[S \ {Max(S)}], s[Max(S)]) \in Positions
    BY <1>3, <2>1, OnFillType
  <2> QED
    BY <2>2, <2>3
<1>4. g[{}] \in Positions
  BY <1>1 DEF IsFills
<1>5. g[1 .. Len(s)] \in Positions
  BY <1>2, <1>3, <1>4, FoldStays
<1> QED
  BY <1>1, <1>5 DEF IsFills

\* So are the reports of several times, one after the other.
IsReports(g, fills, s) ==
  /\ g[{}] = fills
  /\ \A S \in SUBSET (1 .. Len(s)) :
       S # {} => g[S] = FoldLeft(report, g[S \ {Max(S)}], timed_buffer[s[Max(S)]])
  /\ FoldLeft(LAMBDA f, t : FoldLeft(report, f, timed_buffer[t]), fills, s) = g[1 .. Len(s)]

LEMMA ReportsSteps ==
  ASSUME NEW fills \in Seq(Orders), NEW T, NEW s \in Seq(T),
         \A t \in T : timed_buffer[t] \in Seq(Orders)
  PROVE  \E g : IsReports(g, fills, s)
<1> DEFINE n == Len(s)
           A == Seq(Orders)
           Adds == [p \in (1 .. n) \X A |-> FoldLeft(report, p[2], timed_buffer[s[p[1]]])]
           folds(g) == g = [S \in SUBSET DOMAIN s |->
                              IF S = {} THEN fills ELSE FoldLeft(report, g[S \ {Max(S)}], timed_buffer[s[Max(S)]])]
           fold == CHOOSE g : folds(g)
<1>1. n \in Nat /\ DOMAIN s = 1 .. n /\ \A k \in 1 .. n : s[k] \in T
  OBVIOUS
<1>2. ASSUME NEW a \in A, NEW q \in T PROVE FoldLeft(report, a, timed_buffer[q]) \in A
  BY ReportFold
<1>3. Adds \in [(1 .. n) \X A -> A]
  BY <1>1, <1>2
<1> HIDE DEF n, A
<1>4. PICK h \in [SUBSET (1 .. n) -> A] : IsFold(h, n, fills, Adds)
  <2> HIDE DEF Adds
  <2>1. fills \in A /\ n \in Nat
    BY <1>1 DEF A
  <2> QED
    BY ONLY <1>3, <2>1, FoldExists
<1>5. ASSUME NEW S \in SUBSET (1 .. n)
      PROVE  h[S] = IF S = {} THEN fills ELSE FoldLeft(report, h[S \ {Max(S)}], timed_buffer[s[Max(S)]])
  <2>1. S # {} => Max(S) \in 1 .. n /\ h[S \ {Max(S)}] \in A
    BY <1>1, <1>4, Largest
  <2> QED
    BY <1>4, <2>1 DEF IsFold
<1>6. folds(h)
  BY <1>1, <1>4, <1>5
<1>7. folds(fold)
  <2> HIDE DEF folds
  <2> QED
    BY <1>6
<1>8. FoldLeft(LAMBDA f, t : FoldLeft(report, f, timed_buffer[t]), fills, s) = fold[DOMAIN s]
  BY DEF FoldLeft, MapThenFoldSet
<1> HIDE DEF fold, Adds
<1>9. \A S \in SUBSET (1 .. n) :
        fold[S] = IF S = {} THEN fills ELSE FoldLeft(report, fold[S \ {Max(S)}], timed_buffer[s[Max(S)]])
  BY <1>1, <1>7
<1>10. IsReports(fold, fills, s)
  BY <1>1, <1>8, <1>9 DEF IsReports, n
<1> QED
  BY <1>10

LEMMA ReportsFold ==
  ASSUME NEW fills \in Seq(Orders), NEW T, NEW s \in Seq(T),
         \A t \in T : timed_buffer[t] \in Seq(Orders)
  PROVE  FoldLeft(LAMBDA f, t : FoldLeft(report, f, timed_buffer[t]), fills, s) \in Seq(Orders)
<1>1. PICK g : IsReports(g, fills, s)
  BY ReportsSteps
<1>2. Len(s) \in Nat /\ \A k \in 1 .. Len(s) : s[k] \in T
  OBVIOUS
<1>3. ASSUME NEW S \in SUBSET (1 .. Len(s)), S # {} /\ g[S \ {Max(S)}] \in Seq(Orders)
      PROVE  g[S] \in Seq(Orders)
  <2>1. timed_buffer[s[Max(S)]] \in Seq(Orders)
    BY <1>2, <1>3, Largest
  <2> QED
    BY <1>1, <1>3, <2>1, ReportFold DEF IsReports
<1>4. g[{}] \in Seq(Orders)
  BY <1>1 DEF IsReports
<1>5. g[1 .. Len(s)] \in Seq(Orders)
  BY <1>2, <1>3, <1>4, FoldStays
<1> QED
  BY <1>1, <1>5 DEF IsReports

-----------------------------------------------------------------------------
(* The table of books *)

Tables ==
  [currentRow : -1 .. NUM_ROWS - 1, buffer : [0 .. NUM_ROWS - 1 -> WellFormed \cup {ZeroRow}]]

LEMMA Wraps ==
  ASSUME NEW a \in Nat, a < 2 * NUM_ROWS
  PROVE  a % NUM_ROWS = IF a < NUM_ROWS THEN a ELSE a - NUM_ROWS
<1>1. NUM_ROWS \in Nat \ {0}
  BY TableAssumption
<1>2. CASE a < NUM_ROWS
  <2>1. a = NUM_ROWS * 0 + a /\ a \in 0 .. NUM_ROWS - 1 /\ 0 \in Nat
    BY <1>1, <1>2
  <2> QED
    BY <1>1, <1>2, <2>1, Remainder
<1>3. CASE ~(a < NUM_ROWS)
  <2>1. a = NUM_ROWS * 1 + (a - NUM_ROWS) /\ a - NUM_ROWS \in 0 .. NUM_ROWS - 1 /\ 1 \in Nat
    BY <1>1, <1>3
  <2> QED
    BY <1>1, <1>3, <2>1, Remainder
<1> QED
  BY <1>2, <1>3

\* The row of a lag, counted back from the last book, around the end.
LEMMA LaggedRow ==
  ASSUME NEW table \in Tables, NEW lag \in 0 .. NUM_ROWS - 1
  PROVE  /\ get_lagged_row(table, lag) \in 0 .. NUM_ROWS - 1
         /\ get_lagged_row(table, lag) =
              IF table.currentRow >= lag THEN table.currentRow - lag
              ELSE table.currentRow - lag + NUM_ROWS
<1>1. NUM_ROWS \in Nat \ {0} /\ table.currentRow \in -1 .. NUM_ROWS - 1
  BY TableAssumption DEF Tables
<1> DEFINE a == table.currentRow + NUM_ROWS - lag
<1>2. a \in Nat /\ a < 2 * NUM_ROWS
  BY <1>1
<1>3. a % NUM_ROWS = IF a < NUM_ROWS THEN a ELSE a - NUM_ROWS
  BY <1>2, Wraps
<1> QED
  BY <1>1, <1>2, <1>3 DEF get_lagged_row

\* After a row is added it is the one of lag 0, and each other lag is one more.
LEMMA AddRow ==
  ASSUME NEW table \in Tables, NEW row \in WellFormed
  PROVE  /\ addRow(table, row) \in Tables
         /\ get(addRow(table, row), 0) = row
         /\ \A lag \in 1 .. NUM_ROWS - 1 : get(addRow(table, row), lag) = get(table, lag - 1)
<1>1. NUM_ROWS \in Nat \ {0} /\ table.currentRow \in -1 .. NUM_ROWS - 1
  BY TableAssumption DEF Tables
<1> DEFINE after == addRow(table, row)
<1>2. /\ nextRow(table) \in 0 .. NUM_ROWS - 1
      /\ nextRow(table) = IF table.currentRow + 1 < NUM_ROWS THEN table.currentRow + 1 ELSE 0
  <2>1. table.currentRow + 1 \in Nat /\ table.currentRow + 1 < 2 * NUM_ROWS
    BY <1>1
  <2> QED
    BY <1>1, <2>1, Wraps DEF nextRow
<1>3. /\ after.currentRow = nextRow(table)
      /\ after.buffer = [table.buffer EXCEPT ![nextRow(table)] = row]
      /\ after \in Tables
  BY <1>1, <1>2 DEF addRow, Tables
<1> HIDE DEF after
<1>4. 0 \in 0 .. NUM_ROWS - 1
  BY <1>1
<1>5. get(after, 0) = row
  <2>1. get_lagged_row(after, 0) = nextRow(table)
    BY <1>1, <1>2, <1>3, <1>4, LaggedRow
  <2> QED
    BY <1>2, <1>3, <2>1 DEF get, Tables
<1>6. ASSUME NEW lag \in 1 .. NUM_ROWS - 1 PROVE get(after, lag) = get(table, lag - 1)
  <2>1. lag \in 0 .. NUM_ROWS - 1 /\ lag - 1 \in 0 .. NUM_ROWS - 1
    BY <1>1
  <2>2. /\ get_lagged_row(after, lag) \in 0 .. NUM_ROWS - 1
        /\ get_lagged_row(after, lag) =
             IF nextRow(table) >= lag THEN nextRow(table) - lag ELSE nextRow(table) - lag + NUM_ROWS
    BY <1>3, <2>1, LaggedRow
  <2>3. get_lagged_row(table, lag - 1) =
          IF table.currentRow >= lag - 1 THEN table.currentRow - (lag - 1)
          ELSE table.currentRow - (lag - 1) + NUM_ROWS
    BY <2>1, LaggedRow
  <2>4. get_lagged_row(after, lag) = get_lagged_row(table, lag - 1)
    BY <1>1, <1>2, <2>2, <2>3
  <2>5. get_lagged_row(after, lag) # nextRow(table)
    BY <1>1, <1>2, <2>2
  <2> QED
    BY <1>2, <1>3, <2>2, <2>4, <2>5 DEF get, Tables
<1> QED
  BY <1>3, <1>5, <1>6 DEF after

\* A new table has zeros only.
LEMMA NewTableFacts ==
  /\ NewTable \in Tables
  /\ \A lag \in 0 .. NUM_ROWS - 1 : get(NewTable, lag) = ZeroRow
<1>1. NUM_ROWS \in Nat \ {0}
  BY TableAssumption
<1>2. NewTable \in Tables
  BY <1>1 DEF NewTable, Tables
<1>3. ASSUME NEW lag \in 0 .. NUM_ROWS - 1 PROVE get(NewTable, lag) = ZeroRow
  <2>1. get_lagged_row(NewTable, lag) \in 0 .. NUM_ROWS - 1
    BY <1>2, LaggedRow
  <2> QED
    BY <2>1 DEF get, NewTable
<1> QED
  BY <1>2, <1>3

LEMMA EmptyTable ==
  ASSUME market_builder' = NewTable, ofi' = NoSignals, seen' = <<>>
  PROVE  TableInv' /\ SignalsOfEpisode'
<1>1. Len(seen') = 0 /\ seen' \in Seq(WellFormed)
  OBVIOUS
<1>2. TableInv'
  BY <1>1, NewTableFacts DEF TableInv, Tables
<1>3. \A lag \in 0 .. NUM_ROWS - 1 : get(market_builder', lag) = ZeroRow /\ ~(lag < Len(seen'))
  BY <1>1, NewTableFacts, TableAssumption
<1>4. \A lag \in Lags : ofi'[lag] = ZeroRow
  BY DEF NoSignals
<1> QED
  BY <1>2, <1>3, <1>4 DEF SignalsOfEpisode

\* add_book: the last book becomes one of lag 1, and the signals compare the
\* new one with books that were in the table before it.
LEMMA AddBook ==
  ASSUME TableInv, SignalsOfEpisode, NEW row \in WellFormed, add_book(row)
  PROVE  TableInv' /\ SignalsOfEpisode'
<1> DEFINE n == Len(seen)
<1>1. /\ market_builder \in Tables /\ seen \in Seq(WellFormed) /\ n \in Nat
      /\ seen' = Append(seen, row) /\ seen' \in Seq(WellFormed)
      /\ Len(seen') = n + 1 /\ seen'[n + 1] = row
      /\ \A k \in 1 .. n : seen'[k] = seen[k]
      /\ NUM_ROWS \in Nat \ {0}
  BY TableAssumption DEF TableInv, Tables, add_book
<1>2. /\ market_builder' \in Tables
      /\ get(market_builder', 0) = row
      /\ \A lag \in 1 .. NUM_ROWS - 1 : get(market_builder', lag) = get(market_builder, lag - 1)
  BY <1>1, AddRow DEF add_book
<1>3. \A lag \in 0 .. NUM_ROWS - 1 :
        get(market_builder, lag) = IF lag < n THEN seen[n - lag] ELSE ZeroRow
  BY DEF SignalsOfEpisode
<1> HIDE DEF n
<1>4. ASSUME NEW lag \in 0 .. NUM_ROWS - 1
      PROVE  get(market_builder', lag) = IF lag < n + 1 THEN seen'[n + 1 - lag] ELSE ZeroRow
  <2>1. CASE lag = 0
    <3>1. n + 1 - lag = n + 1 /\ lag < n + 1
      BY <1>1, <2>1
    <3> QED
      BY <1>1, <1>2, <2>1, <3>1
  <2>2. CASE lag # 0
    <3>1. lag \in 1 .. NUM_ROWS - 1 /\ lag - 1 \in 0 .. NUM_ROWS - 1
          /\ n - (lag - 1) = n + 1 - lag
      BY <1>1, <2>2
    <3>2. get(market_builder', lag) = IF lag - 1 < n THEN seen[n - (lag - 1)] ELSE ZeroRow
      BY <1>2, <1>3, <3>1
    <3>3. lag - 1 < n => n + 1 - lag \in 1 .. n
      BY <1>1, <3>1
    <3>4. lag - 1 < n <=> lag < n + 1
      BY <1>1, <3>1
    <3> QED
      BY <1>1, <3>1, <3>2, <3>3, <3>4
  <2> QED
    BY <2>1, <2>2
<1>5. ASSUME NEW lag \in Lags, ofi'[lag] # ZeroRow
      PROVE  \E k \in 1 .. n + 1 - 1 : ofi'[lag] = seen'[k]
  <2> DEFINE r == get_lagged_row(market_builder, lag)
  <2>1. r \in 0 .. NUM_ROWS - 1
    BY <1>1, LaggedRow DEF Lags
  <2>2. ofi'[lag] = get(market_builder, r)
    BY DEF add_book, laggedBook
  <2> HIDE DEF r
  <2>3. r < n /\ ofi'[lag] = seen[n - r]
    BY <1>3, <1>5, <2>1, <2>2
  <2>4. n - r \in 1 .. n /\ n + 1 - 1 = n
    BY <1>1, <2>1, <2>3
  <2> QED
    BY <1>1, <2>3, <2>4
<1>6. TableInv'
  BY <1>1, <1>2 DEF TableInv, Tables
<1> QED
  BY <1>1, <1>4, <1>5, <1>6 DEF SignalsOfEpisode

-----------------------------------------------------------------------------
(* The rows of the file *)

\* The well-formed lines are numbers.
LEMMA LinesAreNumbers ==
  Lines \in Nat /\ (\A x \in WellFormed : x \in Nat /\ 1 <= x /\ x <= Lines)
BY ReaderAssumption DEF WellFormed

\* The rows of a stretch of the file, in order and with none left out.
IsStretch(r, from, to) ==
  /\ Len(r) \in Nat /\ r \in Seq(WellFormed)
  /\ \A k \in 1 .. Len(r) : r[k] \in RowsBetween(from, to)
  /\ \A x \in RowsBetween(from, to) : \E k \in 1 .. Len(r) : r[k] = x
  /\ \A j, k \in 1 .. Len(r) : j < k => r[j] < r[k]
  /\ RowsBetween(from, to) # {} => Len(r) >= 1

LEMMA RowsOfStretch ==
  ASSUME NEW from \in Nat, NEW to \in Nat
  PROVE  IsStretch(rowsRead(from, to), from, to)
<1> DEFINE S == RowsBetween(from, to)
           n == Cardinality(S)
           r == rowsRead(from, to)
<1>1. S \in SUBSET Int /\ S \subseteq WellFormed /\ IsFiniteSet(S)
  <2>1. S \in SUBSET (1 .. Lines) /\ S \subseteq WellFormed
    BY DEF RowsBetween, WellFormed
  <2>2. IsFiniteSet(1 .. Lines)
    BY ReaderAssumption, FS_Interval
  <2> HIDE DEF S
  <2>3. IsFiniteSet(S)
    BY <2>1, <2>2, FS_Subset
  <2>4. S \in SUBSET Int
    BY <2>1
  <2> QED
    BY <2>1, <2>3, <2>4
<1> HIDE DEF S
<1>2. /\ n \in Nat /\ r \in [1 .. n -> S]
      /\ \A x \in S : \E k \in 1 .. n : r[k] = x
      /\ \A j, k \in 1 .. n : j < k => r[j] < r[k]
  BY <1>1, SortedFacts DEF rowsRead, S
<1> HIDE DEF n, r
<1>3. r \in Seq(WellFormed) /\ Len(r) = n
  <2>1. r \in [1 .. n -> WellFormed]
    BY <1>1, <1>2
  <2> QED
    BY <1>2, <2>1
<1>4. S # {} => n >= 1
  BY <1>2
<1> QED
  BY <1>2, <1>3, <1>4 DEF S, r, IsStretch

\* A batch is not empty unless the rest of the file is, and when more data is
\* not expected, nothing or max_read is the reason.
LEMMA LastLine ==
  ASSUME NEW from \in 0 .. Lines, NEW reads_before \in Nat,
         NEW last, last = lastLine(from, reads_before)
  PROVE  /\ last \in 0 .. Lines /\ from \in 0 .. last /\ reads_before + last - from \in Nat
         /\ RowsBetween(from, Lines) # {} => RowsBetween(from, last) # {}
         /\ last \notin FillsBatch(from) =>
              RowsBetween(last, Lines) = {} \/ reads_before + last - from > max_read
<1> DEFINE stops == FillsBatch(from) \cup Exceeds(from, reads_before)
<1>1. Lines \in Nat /\ BatchLines \in Nat \ {0} /\ max_read \in Nat /\ WellFormed \subseteq 1 .. Lines
  BY ReaderAssumption DEF WellFormed
<1>2. ASSUME NEW k \in stops PROVE k \in 1 .. Lines /\ from < k /\ RowsBetween(from, k) # {}
  <2>1. CASE k \in FillsBatch(from)
    <3>1. k \in 1 .. Lines /\ Cardinality(RowsBetween(from, k)) # 0
      BY <1>1, <2>1 DEF FillsBatch
    <3>2. RowsBetween(from, k) # {}
      BY <3>1, FS_EmptySet
    <3>3. PICK x \in RowsBetween(from, k) : TRUE
      BY <3>2
    <3>4. x \in Int /\ from < x /\ x <= k
      BY <1>1, <3>1, <3>3 DEF RowsBetween
    <3> QED
      BY <3>1, <3>2, <3>4
  <2>2. CASE k \in Exceeds(from, reads_before)
    <3>1. k \in WellFormed /\ from < k
      BY <2>2 DEF Exceeds, RowsBetween
    <3>2. k \in 1 .. Lines /\ k \in RowsBetween(from, k)
      BY <1>1, <3>1 DEF RowsBetween
    <3> QED
      BY <3>1, <3>2
  <2> QED
    BY <2>1, <2>2
<1>3. IF stops = {} THEN last = Lines ELSE last \in stops
  <2>1. CASE stops = {}
    BY <2>1 DEF lastLine
  <2>2. CASE stops # {}
    <3> HIDE DEF stops
    <3>1. stops \in SUBSET (1 .. Lines) /\ stops \in SUBSET Int /\ IsFiniteSet(1 .. Lines)
      BY <1>1, <1>2, FS_Interval
    <3>2. IsFiniteSet(stops)
      BY <3>1, FS_Subset
    <3> DEFINE n == Cardinality(stops)
               s == Sorted(stops)
    <3>3. /\ n \in Nat /\ s \in [1 .. n -> stops]
          /\ \A x \in stops : \E k \in 1 .. n : s[k] = x
          /\ \A j, k \in 1 .. n : j < k => s[j] < s[k]
      BY <3>1, <3>2, SortedFacts
    <3> HIDE DEF n, s
    <3>4. 1 \in 1 .. n /\ s[1] \in stops
      BY <2>2, <3>3
    <3>5. \A x \in stops : s[1] <= x
      <4> SUFFICES ASSUME NEW x \in stops PROVE s[1] <= x
        OBVIOUS
      <4>1. PICK k \in 1 .. n : s[k] = x
        BY <3>3
      <4>2. k = 1 \/ s[1] < s[k]
        BY <3>3, <3>4
      <4>3. s[1] \in Int /\ x \in Int
        BY <3>1, <3>4
      <4> QED
        BY <4>1, <4>2, <4>3
    <3>6. Min(stops) \in stops
      BY <3>4, <3>5 DEF Min
    <3>7. last = Min(stops)
      BY <2>2 DEF lastLine, stops
    <3> QED
      BY <2>2, <3>6, <3>7
  <2> QED
    BY <2>1, <2>2
<1>5. last \in 0 .. Lines /\ from <= last
  BY <1>1, <1>2, <1>3
<1>6. reads_before + last - from \in Nat
  BY <1>1, <1>5
<1>7. RowsBetween(from, Lines) # {} => RowsBetween(from, last) # {}
  <2> HIDE DEF stops
  <2> QED
    BY <1>2, <1>3
<1>8. last \notin FillsBatch(from) =>
        RowsBetween(last, Lines) = {} \/ reads_before + last - from > max_read
  <2>1. CASE stops = {}
    <3>1. last = Lines
      BY <1>3, <2>1
    <3>2. RowsBetween(Lines, Lines) = {}
      BY LinesAreNumbers DEF RowsBetween
    <3> QED
      BY <3>1, <3>2
  <2>2. CASE stops # {}
    BY <1>3, <2>2 DEF Exceeds
  <2> QED
    BY <2>1, <2>2
<1>9. from \in 0 .. last
  BY <1>5
<1> QED
  BY <1>5, <1>6, <1>7, <1>8, <1>9

LEMMA ReadsBatch ==
  ASSUME NEW from \in 0 .. Lines, NEW reads_before \in Nat, ReadCSV(from, reads_before)
  PROVE  /\ line' \in 0 .. Lines /\ from \in 0 .. line' /\ num_reads' \in Nat
         /\ rows' = rowsRead(from, line') /\ line' = lastLine(from, reads_before)
         /\ RowsBetween(from, Lines) # {} => RowsBetween(from, line') # {}
         /\ ~more_data' => RowsBetween(line', Lines) = {} \/ num_reads' > max_read
<1>1. /\ line' = lastLine(from, reads_before) /\ rows' = rowsRead(from, line')
      /\ num_reads' = reads_before + line' - from
      /\ ~more_data' => line' \notin FillsBatch(from)
  BY DEF ReadCSV
<1> QED
  BY <1>1, LastLine

LEMMA ResetReads ==
  ASSUME ResetReader
  PROVE  ReaderInv'
<1>1. PICK start \in 0 .. start_read : ReadCSV(start, 0) /\ current' = 1
  BY DEF ResetReader
<1>2. /\ Lines \in Nat /\ start_read \in Nat /\ start \in 0 .. Lines /\ 0 \in Nat
      /\ RowsBetween(start, Lines) # {}
  <2>1. PICK k \in WellFormed : k > start_read
    BY ReaderAssumption
  <2>2. k \in RowsBetween(start, Lines) /\ start < Lines
    BY <2>1, ReaderAssumption DEF RowsBetween, WellFormed
  <2> QED
    BY <2>2, ReaderAssumption
<1>3. /\ line' \in 0 .. Lines /\ start \in 0 .. line' /\ num_reads' \in Nat
      /\ rows' = rowsRead(start, line')
      /\ RowsBetween(start, line') # {}
      /\ ~more_data' => RowsBetween(line', Lines) = {} \/ num_reads' > max_read
  BY <1>1, <1>2, ReadsBatch
<1>4. Len(rows') \in Nat /\ Len(rows') >= 1
  <2>1. start \in Nat /\ line' \in Nat
    BY <1>3
  <2> QED
    BY <1>3, <2>1, RowsOfStretch DEF IsStretch
<1> QED
  BY <1>1, <1>3, <1>4 DEF ReaderInv

\* hasNext and next: the reader goes to the next row of the file, in this
\* batch or in another, or there is none.
LEMMA NextRowReads ==
  ASSUME ReaderInv, ~isDone, NextRow, isDone' = ~HasNext
  PROVE  /\ ReaderInv'
         /\ IF isDone' THEN RowsBetween(currentRow, Lines) = {} \/ num_reads' > max_read
            ELSE currentRow' \in RowsBetween(currentRow, Lines)
                 /\ RowsBetween(currentRow, currentRow' - 1) = {}
<1>1. PICK from \in 0 .. line : rows = rowsRead(from, line)
  BY DEF ReaderInv
<1> DEFINE n == Len(rows)
<1>2. /\ Lines \in Nat /\ WellFormed \subseteq 1 .. Lines /\ max_read \in Nat
      /\ line \in 0 .. Lines /\ num_reads \in Nat /\ current \in 1 .. n /\ from \in Nat /\ line \in Nat
      /\ ~more_data => RowsBetween(line, Lines) = {} \/ num_reads > max_read
  BY <1>1, ReaderAssumption DEF ReaderInv, WellFormed
<1>3. /\ n \in Nat
      /\ \A k \in 1 .. n : rows[k] \in RowsBetween(from, line)
      /\ \A x \in RowsBetween(from, line) : \E k \in 1 .. n : rows[k] = x
      /\ \A j, k \in 1 .. n : j < k => rows[j] < rows[k]
  <2>1. from \in Nat /\ line \in Nat /\ rows = rowsRead(from, line)
    BY <1>1, <1>2
  <2> HIDE DEF n
  <2>2. IsStretch(rows, from, line)
    BY <2>1, RowsOfStretch
  <2> QED
    BY <2>2 DEF n, IsStretch
<1> HIDE DEF n
<1>4. currentRow \in RowsBetween(from, line) /\ currentRow \in Nat
  <2>1. currentRow \in RowsBetween(from, line)
    BY <1>2, <1>3 DEF currentRow
  <2>2. currentRow \in WellFormed
    BY <2>1 DEF RowsBetween
  <2> QED
    BY <2>1, <2>2, LinesAreNumbers
<1>5. ASSUME Exhausted PROVE RowsBetween(currentRow, line) = {}
  <2> SUFFICES ASSUME NEW x \in RowsBetween(currentRow, line) PROVE FALSE
    OBVIOUS
  <2>1. x \in RowsBetween(from, line) /\ currentRow < x
    BY <1>2, <1>4 DEF RowsBetween
  <2>2. PICK k \in 1 .. n : rows[k] = x
    BY <1>3, <2>1
  <2>3. current = n /\ (k = n \/ rows[k] < rows[n])
    BY <1>2, <1>3, <1>5 DEF Exhausted, n
  <2> QED
    BY <1>2, <1>4, <2>1, <2>2, <2>3 DEF currentRow, RowsBetween
<1>6. ASSUME Exhausted, NEW to \in Int
      PROVE  RowsBetween(currentRow, to) \subseteq RowsBetween(line, to)
  <2> SUFFICES ASSUME NEW x \in RowsBetween(currentRow, to) PROVE x \in RowsBetween(line, to)
    OBVIOUS
  <2>1. x \in WellFormed /\ x \in Int /\ currentRow < x /\ x <= to
    BY LinesAreNumbers DEF RowsBetween
  <2>2. ~(x <= line)
    BY <1>4, <1>5, <1>6, <2>1 DEF RowsBetween
  <2> QED
    BY <1>2, <2>1, <2>2 DEF RowsBetween
<1>7. CASE Exhausted /\ more_data
  <2>1. ReadCSV(line, num_reads) /\ current' = (0 + IF HasNext THEN 1 ELSE 0)
    BY <1>7 DEF NextRow
  <2>2. /\ line' \in 0 .. Lines /\ line \in 0 .. line' /\ num_reads' \in Nat
        /\ rows' = rowsRead(line, line') /\ line' = lastLine(line, num_reads)
        /\ RowsBetween(line, Lines) # {} => RowsBetween(line, line') # {}
        /\ ~more_data' => RowsBetween(line', Lines) = {} \/ num_reads' > max_read
    BY <1>2, <2>1, ReadsBatch
  <2>3. HasNext <=> RowsBetween(line, line') # {}
    BY <1>7, <2>2 DEF HasNext
  <2>4. /\ Len(rows') \in Nat
        /\ \A k \in 1 .. Len(rows') : rows'[k] \in RowsBetween(line, line')
        /\ \A x \in RowsBetween(line, line') : \E k \in 1 .. Len(rows') : rows'[k] = x
        /\ \A j, k \in 1 .. Len(rows') : j < k => rows'[j] < rows'[k]
        /\ RowsBetween(line, line') # {} => Len(rows') >= 1
    <3>1. line \in Nat /\ line' \in Nat /\ rows' = rowsRead(line, line')
      BY <1>2, <2>2
    <3>2. IsStretch(rows', line, line')
      BY <3>1, RowsOfStretch
    <3> QED
      BY <3>2 DEF IsStretch
  <2>5. CASE HasNext
    <3>1. 1 \in 1 .. Len(rows') /\ current' = 1 /\ ~isDone'
      <4>1. current' = 0 + 1 /\ ~isDone'
        BY <2>1, <2>5
      <4>2. Len(rows') \in Nat /\ Len(rows') >= 1
        BY <2>3, <2>4, <2>5
      <4> QED
        BY <4>1, <4>2
    <3>2. currentRow' = rows'[1] /\ currentRow' \in RowsBetween(line, line')
      BY <2>4, <3>1 DEF currentRow
    <3>3. currentRow' \in RowsBetween(currentRow, Lines)
      BY <1>2, <1>4, <2>2, <3>2 DEF RowsBetween
    <3>4. RowsBetween(currentRow, currentRow' - 1) = {}
      <4> SUFFICES ASSUME NEW x \in RowsBetween(currentRow, currentRow' - 1) PROVE FALSE
        OBVIOUS
      <4>1. currentRow' \in Int /\ currentRow' - 1 \in Int
        BY <1>2, <3>3 DEF RowsBetween
      <4>2. x \in RowsBetween(line, currentRow' - 1)
        BY <1>6, <1>7, <4>1
      <4>3. x \in RowsBetween(line, line') /\ x < currentRow' /\ x \in Int
        BY <1>2, <2>2, <3>2, <4>1, <4>2 DEF RowsBetween
      <4>4. PICK k \in 1 .. Len(rows') : rows'[k] = x
        BY <2>4, <4>3
      <4>5. k = 1 \/ rows'[1] < rows'[k]
        BY <2>4, <3>1
      <4> QED
        BY <3>2, <4>1, <4>3, <4>4, <4>5
    <3>5. ReaderInv'
      BY <2>2, <3>1 DEF ReaderInv
    <3> QED
      BY <3>1, <3>3, <3>4, <3>5
  <2>6. CASE ~HasNext
    <3>1. RowsBetween(line, Lines) = {} /\ isDone'
      BY <2>2, <2>3, <2>6
    <3>2. RowsBetween(currentRow, Lines) = {}
      BY <1>2, <1>6, <1>7, <3>1
    <3>3. ReaderInv'
      BY <2>2, <3>1 DEF ReaderInv
    <3> QED
      BY <3>1, <3>2, <3>3
  <2> QED
    BY <2>5, <2>6
<1>8. CASE Exhausted /\ ~more_data
  <2>1. ~HasNext /\ isDone' /\ UNCHANGED <<line, rows, more_data, num_reads>>
    BY <1>8 DEF NextRow, HasNext
  <2>2. ReaderInv'
    BY <1>1, <1>2, <2>1 DEF ReaderInv
  <2>3. RowsBetween(currentRow, Lines) = {} \/ num_reads' > max_read
    BY <1>2, <1>6, <1>8, <2>1
  <2> QED
    BY <2>1, <2>2, <2>3
<1>9. CASE ~Exhausted
  <2>1. /\ HasNext /\ ~isDone' /\ current' = current + 1
        /\ UNCHANGED <<line, rows, more_data, num_reads>>
    BY <1>2, <1>9 DEF NextRow, HasNext
  <2>2. current + 1 \in 1 .. n /\ n = Len(rows)
    BY <1>2, <1>3, <1>9 DEF Exhausted, n
  <2>3. ReaderInv'
    BY <1>1, <1>2, <2>1, <2>2 DEF ReaderInv
  <2>4. currentRow' = rows[current + 1] /\ currentRow' \in RowsBetween(from, line)
    BY <1>3, <2>1, <2>2 DEF currentRow
  <2>5. currentRow < currentRow'
    BY <1>2, <1>3, <2>2, <2>4 DEF currentRow
  <2>6. currentRow' \in RowsBetween(currentRow, Lines)
    BY <1>2, <2>4, <2>5 DEF RowsBetween
  <2>7. RowsBetween(currentRow, currentRow' - 1) = {}
    <3> SUFFICES ASSUME NEW x \in RowsBetween(currentRow, currentRow' - 1) PROVE FALSE
      OBVIOUS
    <3>1. x \in RowsBetween(from, line) /\ currentRow < x /\ x < currentRow' /\ x \in Int
      BY <1>2, <1>4, <2>4 DEF RowsBetween
    <3>2. PICK k \in 1 .. n : rows[k] = x
      BY <1>3, <3>1
    <3>3. (k = current \/ k < current \/ k = current + 1 \/ k > current + 1) /\ current \in 1 .. n
      BY <1>2
    <3>4. k < current => rows[k] < rows[current]
      BY <1>3, <3>3
    <3>5. k > current + 1 => rows[current + 1] < rows[k]
      BY <1>3, <2>2
    <3> QED
      <4>1. currentRow = rows[current] /\ currentRow' \in Int
        BY <2>4, LinesAreNumbers DEF currentRow, RowsBetween
      <4> QED
        BY <1>4, <2>4, <3>1, <3>2, <3>3, <3>4, <3>5, <4>1
  <2> QED
    BY <2>1, <2>3, <2>6, <2>7
<1> QED
  BY <1>7, <1>8, <1>9

-----------------------------------------------------------------------------
(* Quotes and cancels *)

LEMMA BookFacts ==
  ASSUME NEW quotes, IsBook(quotes)
  PROVE  /\ Range(quotes) \in SUBSET Orders /\ Distinct(Range(quotes))
         /\ \A q \in Range(quotes) : q.orderId \in DOMAIN quotes /\ quotes[q.orderId] = q
BY DEF IsBook, Range, Distinct

LEMMA CancelFacts ==
  ASSUME NEW quotes, IsBook(quotes), market.id \in Nat
  PROVE  /\ IsBook(cancel(quotes))
         /\ \A q \in Range(cancel(quotes)) :
              \/ q \in Range(quotes) /\ q.state = "CANCELLED"
              \/ \E p \in Range(quotes) : q = Cancelled(p) /\ q \in cancels(quotes)
         /\ cancels(quotes) \in SUBSET Orders /\ Distinct(cancels(quotes))
         /\ \A q \in cancels(quotes) : q.state = "CANCELLED" /\ q.microSecond = market.id
<1>1. ASSUME NEW p \in Orders
      PROVE  /\ Cancelled(p) \in Orders /\ Cancelled(p).orderId = p.orderId
             /\ Cancelled(p).state = "CANCELLED" /\ Cancelled(p).microSecond = market.id
  BY DEF Cancelled, Orders
<1>2. Cancellable(quotes) \subseteq Range(quotes)
  BY DEF Cancellable
<1>3. cancels(quotes) \in SUBSET Orders /\ Distinct(cancels(quotes))
  BY <1>1, <1>2, BookFacts DEF cancels, Distinct
<1>4. IsBook(cancel(quotes))
  BY <1>1 DEF cancel, IsBook
<1>5. ASSUME NEW q \in Range(cancel(quotes))
      PROVE  \/ q \in Range(quotes) /\ q.state = "CANCELLED"
             \/ \E p \in Range(quotes) : q = Cancelled(p) /\ q \in cancels(quotes)
  <2>1. PICK o \in DOMAIN quotes :
          q = IF quotes[o] \in Cancellable(quotes) THEN Cancelled(quotes[o]) ELSE quotes[o]
    BY DEF cancel, Range
  <2>2. quotes[o] \in Range(quotes)
    BY DEF Range
  <2>3. CASE quotes[o] \in Cancellable(quotes)
    BY <2>1, <2>2, <2>3 DEF cancels
  <2>4. CASE quotes[o] \notin Cancellable(quotes)
    BY <2>1, <2>2, <2>4 DEF Cancellable
  <2> QED
    BY <2>3, <2>4
<1>6. \A q \in cancels(quotes) : q.state = "CANCELLED" /\ q.microSecond = market.id
  BY <1>1, <1>2, BookFacts DEF cancels
<1> QED
  BY <1>3, <1>4, <1>5, <1>6

\* The quotes of a step, of which there is at most one on a side.
LEMMA GridFacts ==
  ASSUME ExchangeInv, NEW o \in 1 .. MaxOrders, NEW side \in {"BUY", "SELL"}, NEW level,
         NEW price \in Int, NEW amount \in Amounts
  PROVE  /\ Grid(o, side, level, price, amount) \in SUBSET Orders
         /\ Distinct(Grid(o, side, level, price, amount))
         /\ \A q \in Grid(o, side, level, price, amount) :
              q.state = "NEW" /\ q.microSecond = market.id /\ q.orderId = o
         /\ IsFiniteSet(Grid(o, side, level, price, amount))
         /\ Cardinality(Grid(o, side, level, price, amount)) =
              (IF Grid(o, side, level, price, amount) = {} THEN 0 ELSE 1)
<1>1. amount \in Nat /\ market.id \in Nat
  BY TradingAssumption DEF ExchangeInv
<1> DEFINE q == NewOrder(o, side, price, amount)
<1>2. amount # 0 => q \in Orders /\ q.state = "NEW" /\ q.microSecond = market.id /\ q.orderId = o
  BY <1>1 DEF NewOrder, Orders
<1>3. Grid(o, side, level, price, amount) = {} \/ (amount # 0 /\ Grid(o, side, level, price, amount) = {q})
  BY DEF Grid
<1> HIDE DEF q
<1> DEFINE G == Grid(o, side, level, price, amount)
<1>4. CASE G = {}
  BY <1>4, FS_EmptySet DEF Distinct
<1>5. CASE amount # 0 /\ G = {q}
  <2> HIDE DEF G
  <2>1. IsFiniteSet(G) /\ Cardinality(G) = 1
    BY <1>5, FS_Singleton
  <2>2. /\ G \in SUBSET Orders /\ Distinct(G) /\ G # {}
        /\ \A p \in G : p.state = "NEW" /\ p.microSecond = market.id /\ p.orderId = o
    BY <1>2, <1>5 DEF Distinct
  <2> QED
    BY <2>1, <2>2 DEF G
<1> QED
  BY <1>3, <1>4, <1>5

\* cancelOrders and the quotes: what was in the book is cancelled, and what is
\* not yet there is not due.
LEMMA CancelAndQuoteKeeps ==
  ASSUME ExchangeInv, DelaysHold, LateInv,
         NEW bids \in SUBSET Orders, Distinct(bids), NEW asks \in SUBSET Orders, Distinct(asks),
         \A q \in bids \cup asks : q.state = "NEW" /\ q.microSecond = market.id,
         CancelAndQuote(bids, asks), quotedAt' = market.id
  PROVE  /\ IsBook(bid_quotes') /\ IsBook(ask_quotes') /\ IsBuffer(timed_buffer')
         /\ DOMAIN timed_buffer' \subseteq 0 .. market.id
         /\ DelaysHold' /\ LateInv' /\ OnlyLateQuotesSurvive'
<1> DEFINE cb == cancels(bid_quotes)
           ca == cancels(ask_quotes)
<1>1. /\ IsBook(bid_quotes) /\ IsBook(ask_quotes) /\ IsBuffer(timed_buffer)
      /\ market.id \in Nat /\ delay \in Nat \ {0} /\ Waiting = Held(timed_buffer)
  BY ExchangeAssumption DEF ExchangeInv, Waiting, Held
<1>2. /\ bid_quotes' = cancel(bid_quotes) /\ ask_quotes' = cancel(ask_quotes)
      /\ timed_buffer' = AddAll(AddAll(timed_buffer, cb, ca), bids, asks)
      /\ UNCHANGED market
  BY DEF CancelAndQuote
<1>3. /\ cb \in SUBSET Orders /\ Distinct(cb) /\ ca \in SUBSET Orders /\ Distinct(ca)
      /\ \A q \in cb \cup ca : q.state = "CANCELLED" /\ q.microSecond = market.id
  BY <1>1, CancelFacts
<1> HIDE DEF cb, ca
<1> DEFINE middle == AddAll(timed_buffer, cb, ca)
<1>4. /\ IsBuffer(middle) /\ Held(middle) = Held(timed_buffer) \cup cb \cup ca
      /\ \A t \in DOMAIN middle : t \in DOMAIN timed_buffer \/ \E q \in cb \cup ca : q.microSecond = t
  BY <1>1, <1>3, AddAllFacts
<1> HIDE DEF middle
<1>5. /\ IsBuffer(timed_buffer') /\ Held(timed_buffer') = Held(middle) \cup bids \cup asks
      /\ \A t \in DOMAIN timed_buffer' : t \in DOMAIN middle \/ \E q \in bids \cup asks : q.microSecond = t
  <2>1. timed_buffer' = AddAll(middle, bids, asks)
    BY <1>2 DEF middle
  <2> QED
    BY <1>4, <2>1, AddAllFacts
<1>6. Waiting' = Waiting \cup cb \cup ca \cup bids \cup asks
  <2>1. Waiting' = Held(timed_buffer')
    BY DEF Waiting, Held
  <2> QED
    BY <1>1, <1>4, <1>5, <2>1
<1>7. /\ IsBook(bid_quotes') /\ IsBook(ask_quotes')
      /\ \A q \in Range(bid_quotes') :
           \/ q \in Range(bid_quotes) /\ q.state = "CANCELLED"
           \/ \E p \in Range(bid_quotes) : q = Cancelled(p) /\ q \in cb
      /\ \A q \in Range(ask_quotes') :
           \/ q \in Range(ask_quotes) /\ q.state = "CANCELLED"
           \/ \E p \in Range(ask_quotes) : q = Cancelled(p) /\ q \in ca
  BY <1>1, <1>2, CancelFacts DEF cb, ca
<1>8. ASSUME NEW q, q.microSecond = market.id PROVE ~(market.id >= q.microSecond + delay)
  BY <1>1, <1>8
<1>9. ASSUME NEW p \in Orders PROVE Cancelled(p).price = p.price
  BY DEF Cancelled, Orders
<1>10. ASSUME NEW q \in Waiting', q.state # "FILLED" PROVE ~(market.id >= q.microSecond + delay)
  BY <1>3, <1>6, <1>8, <1>10 DEF DelaysHold, IsOverdue
<1>11. ASSUME NEW q \in Resting'
       PROVE  q.state = "CANCELLED" /\ q \in Waiting' /\ ~(market.id >= q.microSecond + delay)
  <2>1. q \in Range(bid_quotes') \/ q \in Range(ask_quotes')
    BY <1>11 DEF Resting
  <2>2. CASE q \in Resting /\ q.state = "CANCELLED"
    BY <1>6, <2>2 DEF DelaysHold, IsOverdue
  <2>3. CASE q \in cb \/ q \in ca
    BY <1>3, <1>6, <1>8, <2>3
  <2> QED
    BY <1>7, <2>1, <2>2, <2>3 DEF Resting
<1>12. ASSUME NEW q \in Range(bid_quotes') PROVE q.price <= market.bid
  BY <1>1, <1>7, <1>9, BookFacts DEF DelaysHold
<1>13. ASSUME NEW q \in Range(ask_quotes') PROVE q.price >= market.ask
  BY <1>1, <1>7, <1>9, BookFacts DEF DelaysHold
<1>14. DelaysHold'
  BY <1>2, <1>10, <1>11, <1>12, <1>13 DEF DelaysHold, IsOverdue
<1>15. LateInv'
  <2> SUFFICES ASSUME NEW q \in Waiting', q.state = "NEW"
               PROVE  q.microSecond < market.id => q.microSecond + delay > market.id
    BY DEF LateInv
  <2>1. ~(market.id >= q.microSecond + delay)
    BY <1>10
  <2>2. q.microSecond \in Nat
    <3>1. q \in Held(timed_buffer')
      BY DEF Waiting, Held
    <3>2. PICK t \in DOMAIN timed_buffer' : q \in Range(timed_buffer'[t])
      BY <3>1 DEF Held
    <3> QED
      BY <1>5, <3>2 DEF IsBuffer
  <2> QED
    BY <1>1, <2>1, <2>2
<1>16. OnlyLateQuotesSurvive'
  BY <1>11 DEF OnlyLateQuotesSurvive
<1>17. DOMAIN timed_buffer' \subseteq 0 .. market.id
  <2>1. DOMAIN timed_buffer \subseteq 0 .. market.id /\ market.id \in 0 .. market.id
    BY <1>1 DEF ExchangeInv
  <2>2. DOMAIN middle \subseteq 0 .. market.id
    BY <1>3, <1>4, <2>1
  <2> QED
    BY <1>5, <2>1, <2>2
<1> QED
  BY <1>5, <1>7, <1>14, <1>15, <1>16, <1>17

-----------------------------------------------------------------------------
(* A new row of the market *)

\* The parts of Execute: the times that are due on a row, the orders that
\* arrive, the cancels among them, the orders that a side accepts, and the
\* side when it has taken them.
DueTimes(obs) == {t \in DOMAIN timed_buffer : IsDue(t, obs)}
Now(obs) == UNION {Range(timed_buffer[t]) : t \in DueTimes(obs)}
Gone(obs) == {q \in Now(obs) : q.state = "CANCELLED"}
Acked(obs, side) ==
  {[q EXCEPT !.state = "NEW_ACK"] : q \in {r \in Now(obs) : r.side = side /\ Accepted(r, obs)}}
Taken(quotes, obs, side) == With(Without(quotes, Gone(obs)), Acked(obs, side))
Fill(q) == [q EXCEPT !.state = "FILLED"]

\* An order arrives if it waits under a time that is due.
LEMMA NowIsDue ==
  ASSUME IsBuffer(timed_buffer), NEW obs
  PROVE  \A q : q \in Now(obs) <=> q \in Waiting /\ IsDue(q.microSecond, obs)
BY DEF Now, DueTimes, IsBuffer, Waiting

LEMMA WaitingOrders ==
  ASSUME IsBuffer(timed_buffer)
  PROVE  Waiting \in SUBSET Orders
BY DEF IsBuffer, Waiting, Range

\* What a side has after the orders that are due: it lost what was cancelled
\* and won what was accepted.
LEMMA TakenFacts ==
  ASSUME IsBuffer(timed_buffer), NEW quotes, IsBook(quotes), NEW obs, NEW side
  PROVE  /\ IsBook(Taken(quotes, obs, side))
         /\ \A q \in Range(Taken(quotes, obs, side)) :
              \/ q \in Range(quotes) /\ q \notin Gone(obs)
              \/ /\ q.state = "NEW_ACK" /\ IsDue(q.microSecond, obs)
                 /\ \E r \in Waiting : r.state = "NEW" /\ r.microSecond = q.microSecond
<1>1. /\ IsBook(Without(quotes, Gone(obs)))
      /\ \A q \in Range(Without(quotes, Gone(obs))) : q \in Range(quotes) /\ q \notin Gone(obs)
  BY DEF Without, Restrict, IsBook, Range
<1>2. ASSUME NEW q \in Acked(obs, side)
      PROVE  /\ q \in Orders /\ q.state = "NEW_ACK" /\ IsDue(q.microSecond, obs)
             /\ \E r \in Waiting : r.state = "NEW" /\ r.microSecond = q.microSecond
  <2>1. PICK r \in Now(obs) : Accepted(r, obs) /\ q = [r EXCEPT !.state = "NEW_ACK"]
    BY DEF Acked
  <2>2. r \in Waiting /\ IsDue(r.microSecond, obs) /\ r \in Orders /\ r.state = "NEW"
    BY <2>1, NowIsDue, WaitingOrders DEF Accepted
  <2>3. q \in Orders /\ q.state = "NEW_ACK" /\ q.microSecond = r.microSecond
    BY <2>1, <2>2 DEF Orders
  <2> QED
    BY <2>2, <2>3
<1> DEFINE left == Without(quotes, Gone(obs))
           new == Acked(obs, side)
           all == With(left, new)
<1>3. /\ DOMAIN ById(new) = {q.orderId : q \in new}
      /\ \A o \in DOMAIN ById(new) : ById(new)[o] \in new /\ ById(new)[o].orderId = o
  BY <1>2, ByIdFacts
<1>4. DOMAIN ById(new) \subseteq 1 .. MaxOrders
  BY <1>2, <1>3 DEF Orders
<1> HIDE DEF left, new
<1>5. /\ DOMAIN all = DOMAIN left \cup DOMAIN ById(new)
      /\ \A o \in DOMAIN all : all[o] = IF o \in DOMAIN ById(new) THEN ById(new)[o] ELSE left[o]
  BY DEF With
<1> HIDE DEF all
<1>6. \A o \in DOMAIN all : all[o] \in Orders /\ all[o].orderId = o
  BY <1>1, <1>2, <1>3, <1>5 DEF IsBook, left, new
<1>7. IsBook(all)
  BY <1>1, <1>4, <1>5, <1>6 DEF IsBook, left
<1>8. ASSUME NEW q \in Range(all) PROVE q \in new \/ q \in Range(left)
  <2>1. PICK o \in DOMAIN all : q = all[o]
    BY DEF Range
  <2> QED
    BY <1>3, <1>5, <2>1 DEF Range
<1>9. Taken(quotes, obs, side) = all
  BY DEF Taken, all, left, new
<1> QED
  BY <1>1, <1>2, <1>7, <1>8, <1>9 DEF left, new

\* What is filled leaves the book.
LEMMA FillFacts ==
  ASSUME NEW quotes, IsBook(quotes), NEW filled \in SUBSET Range(quotes)
  PROVE  /\ {Fill(q) : q \in filled} \in SUBSET Orders /\ Distinct({Fill(q) : q \in filled})
         /\ \A q \in {Fill(p) : p \in filled} :
              q.state = "FILLED" /\ \E p \in filled : q.microSecond = p.microSecond
         /\ IsBook(Without(quotes, {Fill(q) : q \in filled}))
         /\ Range(Without(quotes, {Fill(q) : q \in filled})) = Range(quotes) \ filled
<1>1. ASSUME NEW q \in Orders
      PROVE  /\ Fill(q) \in Orders /\ Fill(q).orderId = q.orderId /\ Fill(q).state = "FILLED"
             /\ Fill(q).microSecond = q.microSecond
  BY DEF Fill, Orders
<1> DEFINE F == {Fill(q) : q \in filled}
<1>2. filled \in SUBSET Orders /\ Distinct(filled)
  BY BookFacts DEF Distinct
<1>3. /\ F \in SUBSET Orders /\ Distinct(F)
      /\ \A q \in F : q.state = "FILLED" /\ \E p \in filled : q.microSecond = p.microSecond
  BY <1>1, <1>2 DEF Distinct
<1>4. {q.orderId : q \in F} = {q.orderId : q \in filled}
  BY <1>1, <1>2
<1> HIDE DEF F
<1>5. \A o \in DOMAIN quotes : (\A q \in F : q.orderId # o) <=> quotes[o] \notin filled
  <2> SUFFICES ASSUME NEW o \in DOMAIN quotes
               PROVE  (\E q \in F : q.orderId = o) <=> quotes[o] \in filled
    OBVIOUS
  <2>1. (\E q \in F : q.orderId = o) <=> o \in {q.orderId : q \in F}
    OBVIOUS
  <2>2. o \in {q.orderId : q \in filled} <=> quotes[o] \in filled
    BY BookFacts DEF IsBook
  <2> QED
    BY <1>4, <2>1, <2>2
<1> DEFINE left == Without(quotes, F)
<1>6. left = [o \in {p \in DOMAIN quotes : quotes[p] \notin filled} |-> quotes[o]]
  BY <1>5 DEF Without, Restrict
<1> HIDE DEF left
<1>7. IsBook(left)
  BY <1>6 DEF IsBook
<1>8. Range(left) = Range(quotes) \ filled
  BY <1>6 DEF Range
<1> QED
  BY <1>3, <1>7, <1>8 DEF F, left

LEMMA ExecuteKeeps ==
  ASSUME ExchangeInv, DelaysHold, LateInv, OnlyLateQuotesSurvive, quotedAt' = quotedAt,
         NEW obs \in [id : Nat, bid : Nat, ask : Nat \ {0}], obs.id >= market.id,
         Execute(obs), market' = obs
  PROVE  /\ IsBook(bid_quotes') /\ IsBook(ask_quotes') /\ IsBuffer(timed_buffer')
         /\ DOMAIN timed_buffer' \subseteq 0 .. obs.id
         /\ DelaysHold' /\ LateInv' /\ OnlyLateQuotesSurvive'
<1> DEFINE bids == Taken(bid_quotes, obs, "BUY")
           asks == Taken(ask_quotes, obs, "SELL")
           bids_crossed == {r \in Range(bids) : r.price > obs.bid}
           asks_crossed == {r \in Range(asks) : r.price < obs.ask}
           bids_filled == {Fill(q) : q \in bids_crossed}
           asks_filled == {Fill(q) : q \in asks_crossed}
           later == Restrict(timed_buffer, DOMAIN timed_buffer \ DueTimes(obs))
<1>1. /\ IsBook(bid_quotes) /\ IsBook(ask_quotes) /\ IsBuffer(timed_buffer)
      /\ market.id \in Nat /\ obs.id \in Nat /\ obs.bid \in Int /\ obs.ask \in Int
      /\ delay \in Nat \ {0} /\ Waiting = Held(timed_buffer) /\ quotedAt \in Nat
  BY ExchangeAssumption DEF ExchangeInv, Waiting, Held
<1>2. /\ timed_buffer' = AddAll(later, bids_filled, asks_filled)
      /\ bid_quotes' = Without(bids, bids_filled)
      /\ ask_quotes' = Without(asks, asks_filled)
  BY DEF Execute, Taken, Acked, Gone, Now, DueTimes, Fill
<1>3. /\ IsBook(bids)
      /\ \A q \in Range(bids) :
              \/ q \in Range(bid_quotes) /\ q \notin Gone(obs)
              \/ /\ q.state = "NEW_ACK" /\ IsDue(q.microSecond, obs)
                 /\ \E r \in Waiting : r.state = "NEW" /\ r.microSecond = q.microSecond
  BY <1>1, TakenFacts
<1>4. /\ IsBook(asks)
      /\ \A q \in Range(asks) :
              \/ q \in Range(ask_quotes) /\ q \notin Gone(obs)
              \/ /\ q.state = "NEW_ACK" /\ IsDue(q.microSecond, obs)
                 /\ \E r \in Waiting : r.state = "NEW" /\ r.microSecond = q.microSecond
  BY <1>1, TakenFacts
<1> HIDE DEF bids, asks
<1>5. /\ bids_filled \in SUBSET Orders /\ Distinct(bids_filled)
      /\ \A q \in bids_filled :
           q.state = "FILLED" /\ \E p \in bids_crossed : q.microSecond = p.microSecond
      /\ IsBook(bid_quotes') /\ Range(bid_quotes') = Range(bids) \ bids_crossed
  <2>1. bids_crossed \in SUBSET Range(bids)
    OBVIOUS
  <2> HIDE DEF bids_crossed
  <2> QED
    BY <1>2, <1>3, <2>1, FillFacts
<1>6. /\ asks_filled \in SUBSET Orders /\ Distinct(asks_filled)
      /\ \A q \in asks_filled :
           q.state = "FILLED" /\ \E p \in asks_crossed : q.microSecond = p.microSecond
      /\ IsBook(ask_quotes') /\ Range(ask_quotes') = Range(asks) \ asks_crossed
  <2>1. asks_crossed \in SUBSET Range(asks)
    OBVIOUS
  <2> HIDE DEF asks_crossed
  <2> QED
    BY <1>2, <1>4, <2>1, FillFacts
<1>7. /\ IsBuffer(later) /\ DOMAIN later \subseteq DOMAIN timed_buffer
      /\ \A q : q \in Held(later) <=> q \in Waiting /\ ~IsDue(q.microSecond, obs)
  <2>1. IsBuffer(later)
    BY <1>1 DEF IsBuffer, Restrict
  <2>2. DOMAIN later = DOMAIN timed_buffer \ DueTimes(obs) /\ \A t \in DOMAIN later : later[t] = timed_buffer[t]
    BY DEF Restrict
  <2> HIDE DEF later
  <2>3. \A q : q \in Held(later) <=> q \in Waiting /\ ~IsDue(q.microSecond, obs)
    BY <1>1, <2>2 DEF Held, DueTimes, IsBuffer
  <2> QED
    BY <2>1, <2>2, <2>3
<1> HIDE DEF later, bids_filled, asks_filled
<1>8. /\ IsBuffer(timed_buffer') /\ Waiting' = Held(later) \cup bids_filled \cup asks_filled
      /\ \A t \in DOMAIN timed_buffer' :
           t \in DOMAIN later \/ \E q \in bids_filled \cup asks_filled : q.microSecond = t
  <2>1. Waiting' = Held(timed_buffer')
    BY DEF Waiting, Held
  <2> QED
    BY <1>2, <1>5, <1>6, <1>7, <2>1, AddAllFacts
<1>9. ASSUME NEW q \in Orders
      PROVE  /\ IsDue(q.microSecond, obs) <=> obs.id >= q.microSecond + delay
             /\ market.id >= q.microSecond + delay => obs.id >= q.microSecond + delay
  BY <1>1 DEF IsDue, Orders
<1>10. ASSUME NEW q \in Waiting', q.state # "FILLED"
       PROVE  q \in Waiting /\ q \in Orders /\ ~(obs.id >= q.microSecond + delay)
  <2>1. q \in Waiting /\ ~IsDue(q.microSecond, obs)
    BY <1>5, <1>6, <1>7, <1>8, <1>10
  <2>2. q \in Orders
    BY <1>1, <2>1, WaitingOrders
  <2> QED
    BY <1>9, <2>1, <2>2
<1>11. ASSUME NEW q \in Resting'
       PROVE  /\ q \in Orders
              /\ \/ q \in Resting /\ q \notin Gone(obs)
                 \/ /\ q.state = "NEW_ACK" /\ IsDue(q.microSecond, obs)
                    /\ \E r \in Waiting : r.state = "NEW" /\ r.microSecond = q.microSecond
  <2>1. CASE q \in Range(bid_quotes')
    BY <1>3, <1>5, <2>1, BookFacts DEF Resting
  <2>2. CASE q \in Range(ask_quotes')
    BY <1>4, <1>6, <2>2, BookFacts DEF Resting
  <2> QED
    BY <2>1, <2>2 DEF Resting
<1>12. ASSUME NEW q \in Resting'
       PROVE  IF q.state = "CANCELLED" THEN q \in Waiting' /\ ~(obs.id >= q.microSecond + delay)
              ELSE q.state = "NEW_ACK" /\ obs.id >= q.microSecond + delay
  <2>1. CASE q \in Resting /\ q \notin Gone(obs) /\ q.state = "CANCELLED"
    <3>1. q \in Waiting
      BY <2>1 DEF DelaysHold
    <3>2. ~IsDue(q.microSecond, obs)
      BY <1>1, <2>1, <3>1, NowIsDue DEF Gone
    <3> QED
      BY <1>7, <1>8, <1>9, <1>11, <2>1, <3>1, <3>2
  <2>2. CASE q \in Resting /\ q.state # "CANCELLED"
    <3>1. q.state = "NEW_ACK" /\ market.id >= q.microSecond + delay
      BY <2>2 DEF DelaysHold, IsOverdue
    <3> QED
      BY <1>9, <1>11, <2>2, <3>1
  <2>3. CASE q.state = "NEW_ACK" /\ IsDue(q.microSecond, obs)
    BY <1>9, <1>11, <2>3
  <2> QED
    BY <1>11, <2>1, <2>2, <2>3
<1>13. ASSUME NEW q \in Range(bid_quotes') PROVE q.price <= obs.bid
  <2>1. q \in Range(bids) /\ ~(q.price > obs.bid)
    BY <1>5
  <2>2. q.price \in Int
    BY <1>3, <2>1, BookFacts DEF Orders
  <2> QED
    BY <1>1, <2>1, <2>2
<1>14. ASSUME NEW q \in Range(ask_quotes') PROVE q.price >= obs.ask
  <2>1. q \in Range(asks) /\ ~(q.price < obs.ask)
    BY <1>6
  <2>2. q.price \in Int
    BY <1>4, <2>1, BookFacts DEF Orders
  <2> QED
    BY <1>1, <2>1, <2>2
<1>15. DelaysHold'
  BY <1>10, <1>12, <1>13, <1>14 DEF DelaysHold, IsOverdue
<1>16. LateInv'
  BY <1>10 DEF LateInv
<1>17. OnlyLateQuotesSurvive'
  <2> SUFFICES ASSUME NEW q \in Resting', q.state = "NEW_ACK", q.microSecond < quotedAt
               PROVE  q.microSecond + delay > quotedAt
    BY DEF OnlyLateQuotesSurvive
  <2>1. CASE q \in Resting
    BY <2>1 DEF OnlyLateQuotesSurvive
  <2>2. CASE \E r \in Waiting : r.state = "NEW" /\ r.microSecond = q.microSecond
    BY <2>2 DEF LateInv
  <2> QED
    BY <1>11, <2>1, <2>2
<1>18. DOMAIN timed_buffer' \subseteq 0 .. obs.id
  <2>1. DOMAIN timed_buffer \subseteq 0 .. market.id
    BY DEF ExchangeInv
  <2>2. ASSUME NEW t \in Nat, IsDue(t, obs) \/ t \in 0 .. market.id PROVE t \in 0 .. obs.id
    BY <1>1, <2>2 DEF IsDue
  <2>3. ASSUME NEW q \in Resting PROVE q.microSecond \in 0 .. obs.id
    <3>1. q \in Orders
      BY <1>1, BookFacts DEF Resting
    <3>2. CASE q.state = "CANCELLED"
      <4>1. q \in Held(timed_buffer)
        BY <1>1, <3>2 DEF DelaysHold
      <4>2. q.microSecond \in DOMAIN timed_buffer
        BY <1>1, <4>1 DEF Held, IsBuffer
      <4> QED
        BY <1>1, <2>1, <2>2, <4>2
    <3>3. CASE q.state # "CANCELLED"
      <4>1. q.microSecond \in Nat /\ market.id >= q.microSecond + delay
        BY <3>1, <3>3 DEF DelaysHold, IsOverdue, Orders
      <4> QED
        BY <1>1, <4>1
    <3> QED
      BY <3>2, <3>3
  <2>4. ASSUME NEW q \in Range(bids) \cup Range(asks) PROVE q.microSecond \in 0 .. obs.id
    <3>1. q \in Orders
      BY <1>3, <1>4, BookFacts
    <3>2. q \in Resting \/ IsDue(q.microSecond, obs)
      BY <1>3, <1>4 DEF Resting
    <3>3. q.microSecond \in Nat
      BY <3>1 DEF Orders
    <3> QED
      BY <2>2, <2>3, <3>2, <3>3
  <2>5. \A q \in bids_filled \cup asks_filled : q.microSecond \in 0 .. obs.id
    BY <1>5, <1>6, <2>4
  <2>6. \A t \in DOMAIN later : t \in 0 .. obs.id
    BY <1>1, <1>7, <2>1, <2>2
  <2> QED
    BY <1>8, <2>5, <2>6
<1> QED
  BY <1>5, <1>6, <1>8, <1>15, <1>16, <1>17, <1>18

\* What is reported are orders.
LEMMA ExecuteReports ==
  ASSUME ExchangeInv, executions \in Seq(Orders), NEW obs, Execute(obs)
  PROVE  executions' \in Seq(Orders)
<1> DEFINE due == DueTimes(obs)
<1>1. IsFiniteSet(due) /\ due \in SUBSET Int
  <2>1. due \in SUBSET (0 .. market.id) /\ due \in SUBSET Int /\ market.id \in Nat
    BY DEF DueTimes, ExchangeInv
  <2>2. IsFiniteSet(0 .. market.id)
    BY <2>1, FS_Interval
  <2> HIDE DEF due
  <2> QED
    BY <2>1, <2>2, FS_Subset
<1>2. \A t \in due : timed_buffer[t] \in Seq(Orders)
  BY DEF DueTimes, ExchangeInv, IsBuffer
<1>3. executions' = FoldLeft(LAMBDA f, t : FoldLeft(report, f, timed_buffer[t]), executions, Sorted(due))
  BY DEF Execute, DueTimes
<1> HIDE DEF due
<1>4. Sorted(due) \in Seq(due)
  <2>1. Cardinality(due) \in Nat /\ Sorted(due) \in [1 .. Cardinality(due) -> due]
    BY <1>1, SortedFacts
  <2> QED
    BY <2>1
<1>5. FoldLeft(LAMBDA f, t : FoldLeft(report, f, timed_buffer[t]), executions, Sorted(due)) \in Seq(Orders)
  BY <1>2, <1>4, ReportsFold
<1> QED
  BY <1>3, <1>5

-----------------------------------------------------------------------------
(* The env *)

LEMMA EmptyBook ==
  IsBook(NoOrders) /\ IsBuffer(NoOrders) /\ Range(NoOrders) = {} /\ DOMAIN NoOrders = {}
BY DEF NoOrders, IsBook, IsBuffer, Range

LEMMA ClearBookKeeps ==
  ASSUME ClearBook
  PROVE  /\ IsBook(bid_quotes') /\ IsBook(ask_quotes') /\ IsBuffer(timed_buffer')
         /\ DOMAIN timed_buffer' = {}
         /\ DelaysHold' /\ LateInv' /\ OnlyLateQuotesSurvive'
<1>1. Waiting' = {} /\ Resting' = {} /\ Range(bid_quotes') = {} /\ Range(ask_quotes') = {}
  BY EmptyBook DEF ClearBook, Waiting, Resting
<1> QED
  BY <1>1, EmptyBook DEF ClearBook, DelaysHold, LateInv, OnlyLateQuotesSurvive

LEMMA MarketType ==
  ASSUME NEW id \in Nat, NEW obs \in Markets(id)
  PROVE  obs \in [id : Nat, bid : Nat, ask : Nat \ {0}] /\ obs.id = id
BY ExchangeAssumption DEF Markets

LEMMA FlatPositionType ==
  /\ FlatPosition \in Positions /\ FlatPosition.totalFee = 0
  /\ \A prices : buy_sell_diff(FlatPosition, prices) = 0
BY DEF FlatPosition, Positions, buy_sell_diff, leverageSign

\* What the reward is made of are numbers.
LEMMA InfoType ==
  /\ NoInfo \in [fees : Int, buy_sell_diff : Int]
  /\ \A pos \in Positions, prices \in [bid : Nat, ask : Nat \ {0}] :
       computeInfo(pos, prices) \in [fees : Int, buy_sell_diff : Int]
<1>1. ASSUME NEW pos \in Positions, NEW prices \in [bid : Nat, ask : Nat \ {0}]
      PROVE  buy_sell_diff(pos, prices) \in Int
  <2> DEFINE both == prices.bid + prices.ask
             buys == both - 2 * pos.average_buy_price
             sells == 2 * pos.average_sell_price - both
  <2>1. both \in Nat \ {0} /\ buys \in Int /\ sells \in Int /\ Precision \in Int
    BY TradingAssumption DEF Positions
  <2>2. buy_sell_diff(pos, prices) \in {(Precision * buys) \div both, (Precision * sells) \div both, 0}
    BY DEF buy_sell_diff
  <2> HIDE DEF both, buys, sells
  <2>3. Precision * buys \in Int /\ Precision * sells \in Int
    BY <2>1
  <2>4. \A x \in Int : x \div both \in Int
    BY <2>1
  <2> QED
    BY <2>2, <2>3, <2>4
<1> QED
  BY <1>1 DEF NoInfo, computeInfo, Positions

LEMMA InitIInv ==
  Init => IInv
<1> SUFFICES ASSUME Init PROVE IInv
  OBVIOUS
<1>1. PICK start \in 0 .. start_read :
        LET last == lastLine(start, 0)
        IN  /\ line = last /\ rows = rowsRead(start, last) /\ num_reads = last - start
            /\ more_data = (last \in FillsBatch(start))
  BY DEF Init
<1>2. ReaderInv
  <2>1. start \in 0 .. Lines /\ 0 \in Nat /\ start \in Int
    BY ReaderAssumption DEF WellFormed
  <2>2. /\ line \in 0 .. Lines /\ start \in 0 .. line /\ 0 + line - start \in Nat
        /\ ~more_data => RowsBetween(line, Lines) = {} \/ 0 + line - start > max_read
    BY <1>1, <2>1, LastLine
  <2>3. num_reads = 0 + line - start
    BY <1>1, <2>1, <2>2
  <2> QED
    BY <1>1, <2>2, <2>3 DEF ReaderInv, Init
<1>3. Waiting = {} /\ Resting = {} /\ Range(bid_quotes) = {} /\ Range(ask_quotes) = {}
  BY EmptyBook DEF Init, Waiting, Resting
<1>4. ExchangeInv
  BY EmptyBook, MarketType DEF Init, ExchangeInv
<1>5. DelaysHold /\ LateInv /\ OnlyLateQuotesSurvive
  BY <1>3 DEF DelaysHold, LateInv, OnlyLateQuotesSurvive
<1>6. TableInv /\ SignalsOfEpisode
  <2>1. market_builder = NewTable /\ seen = <<>> /\ ofi = NoSignals
    BY DEF Init
  <2>2. Len(seen) = 0 /\ seen \in Seq(WellFormed)
    BY <2>1
  <2>3. \A lag \in 0 .. NUM_ROWS - 1 : get(market_builder, lag) = ZeroRow /\ ~(lag < Len(seen))
    BY <2>1, <2>2, NewTableFacts, TableAssumption
  <2>4. \A lag \in Lags : ofi[lag] = ZeroRow
    BY <2>1 DEF NoSignals
  <2> QED
    BY <2>1, <2>2, <2>3, <2>4, NewTableFacts DEF TableInv, Tables, SignalsOfEpisode
<1>7. RewardInv
  <2>1. /\ position = FlatPosition /\ executions = <<>> /\ info = NoInfo /\ previous_fees = 0
        /\ previous_buy_sell_diff = 0 /\ rewards = 0 /\ reads = 0 /\ pc = "idle" /\ isDone
    BY DEF Init
  <2>2. executions \in Seq(Orders)
    BY <2>1
  <2>3. /\ info \in [fees : Int, buy_sell_diff : Int] /\ reads \in 0 .. 2
        /\ previous_fees \in Int /\ previous_buy_sell_diff \in Int
    BY <2>1, InfoType
  <2>4. rewards = previous_buy_sell_diff - previous_fees
    BY <2>1
  <2>5. position \in Positions
    BY <2>1, FlatPositionType
  <2> QED
    BY <2>1, <2>2, <2>3, <2>5, <2>4 DEF RewardInv
<1> QED
  BY <1>2, <1>4, <1>5, <1>6, <1>7 DEF IInv

LEMMA ResetKeeps ==
  IInv /\ Reset => IInv'
<1> SUFFICES ASSUME IInv, Reset PROVE IInv'
  OBVIOUS
<1>1. ReaderInv'
  BY ResetReads DEF Reset, ResetExchange
<1>2. /\ IsBook(bid_quotes') /\ IsBook(ask_quotes') /\ IsBuffer(timed_buffer')
      /\ DOMAIN timed_buffer' = {}
      /\ DelaysHold' /\ LateInv' /\ OnlyLateQuotesSurvive'
  BY ClearBookKeeps DEF Reset, ResetExchange
<1>3. ExchangeInv'
  BY <1>2, MarketType DEF Reset, ResetExchange, IInv, ExchangeInv
<1>4. TableInv' /\ SignalsOfEpisode'
  BY EmptyTable DEF Reset
<1>5. RewardInv'
  <2>1. position' = FlatPosition /\ executions' = <<>> /\ pc' = "idle" /\ reads' \in 0 .. 2
    BY DEF Reset, ResetExchange, ClearBook, IInv, RewardInv
  <2>2. info = NoInfo
    BY DEF Reset, IInv, RewardInv
  <2>3. info' = NoInfo /\ previous_fees' = 0 /\ previous_buy_sell_diff' = 0 /\ rewards' = 0 /\ ~isDone'
    BY <2>2 DEF Reset, WriteState, infoAfter, NoInfo
  <2>4. executions' \in Seq(Orders)
    BY <2>1
  <2>5. info' \in [fees : Int, buy_sell_diff : Int]
    BY <2>3, InfoType
  <2>6. rewards' = previous_buy_sell_diff' - previous_fees'
    BY <2>3
  <2>7. /\ position' \in Positions /\ position'.totalFee = 0
        /\ buy_sell_diff(position', book') = 0
    BY <2>1, FlatPositionType
  <2> QED
    BY <2>1, <2>3, <2>4, <2>5, <2>7, <2>6 DEF RewardInv
<1> QED
  BY <1>1, <1>2, <1>3, <1>4, <1>5 DEF IInv

\* The quotes of a step have new ids.
IsQuotes(bids, asks) ==
  /\ bids \in SUBSET Orders /\ Distinct(bids) /\ asks \in SUBSET Orders /\ Distinct(asks)
  /\ \A q \in bids \cup asks :
       /\ q.state = "NEW" /\ q.microSecond = market.id
       /\ q.orderId > order_id /\ q.orderId <= order_id'
  /\ \A p \in bids, q \in asks : p.orderId # q.orderId
  /\ CancelAndQuote(bids, asks)
  /\ order_id' \in Nat /\ order_id' >= order_id

LEMMA StepQuotes ==
  ASSUME ExchangeInv, Step
  PROVE  \E bids, asks : IsQuotes(bids, asks)
<1>1. PICK buy_spread \in Spreads, sell_spread \in Spreads, buy_amount \in Amounts,
           sell_amount \in Amounts, skew \in Skews :
        LET buy_level == AtLeast0(buy_spread + skew)
            sell_level == AtLeast0(sell_spread - skew)
            bids == Grid(order_id + 1, "BUY", buy_level, BidLevel(buy_level), buy_amount)
            asks == Grid(order_id + Cardinality(bids) + 1, "SELL", sell_level,
                         AskLevel(sell_level), sell_amount)
        IN  /\ CancelAndQuote(bids, asks)
            /\ order_id' = order_id + Cardinality(bids \cup asks)
  BY DEF Step
<1> DEFINE buy_level == AtLeast0(buy_spread + skew)
           sell_level == AtLeast0(sell_spread - skew)
           bids == Grid(order_id + 1, "BUY", buy_level, BidLevel(buy_level), buy_amount)
           asks == Grid(order_id + Cardinality(bids) + 1, "SELL", sell_level,
                        AskLevel(sell_level), sell_amount)
           b == Cardinality(bids)
           a == Cardinality(asks)
<1>2. order_id \in Nat /\ order_id + 2 <= MaxOrders /\ MaxOrders \in Nat
  BY TradingAssumption DEF ExchangeInv, Step
<1>3. BidLevel(buy_level) \in Int /\ AskLevel(sell_level) \in Int
  <2>1. skew \in Int /\ buy_spread \in Int /\ sell_spread \in Int
    <3>1. leverageSign(position) \in {-1, 0, 1}
      BY DEF leverageSign
    <3>2. \A l \in Leverages : leverageSign(position) * l \in Int
      BY <3>1, TradingAssumption
    <3> QED
      BY <3>2, TradingAssumption DEF Skews
  <2>2. buy_level \in Int /\ sell_level \in Int
    BY <2>1 DEF AtLeast0
  <2>3. \A k \in Int : k * Tick \in Int
    BY ExchangeAssumption
  <2>4. book.bid \in Int /\ book.ask \in Int
    BY DEF ExchangeInv
  <2>5. \A k \in Int : BidLevel(k) \in Int /\ AskLevel(k) \in Int
    BY <2>3, <2>4 DEF BidLevel, AskLevel
  <2> QED
    BY <2>2, <2>5
<1>4. order_id + 1 \in 1 .. MaxOrders
  BY <1>2
<1>5. /\ bids \in SUBSET Orders /\ Distinct(bids)
      /\ \A q \in bids : q.state = "NEW" /\ q.microSecond = market.id /\ q.orderId = order_id + 1
      /\ IsFiniteSet(bids) /\ b = (IF bids = {} THEN 0 ELSE 1)
  BY <1>3, <1>4, GridFacts
<1>6. order_id + b + 1 \in 1 .. MaxOrders
  BY <1>2, <1>5
<1> HIDE DEF bids, b
<1>7. /\ asks \in SUBSET Orders /\ Distinct(asks)
      /\ \A q \in asks : q.state = "NEW" /\ q.microSecond = market.id /\ q.orderId = order_id + b + 1
      /\ IsFiniteSet(asks) /\ a = (IF asks = {} THEN 0 ELSE 1)
  BY <1>3, <1>6, GridFacts DEF b
<1> HIDE DEF asks, a
<1>8. CancelAndQuote(bids, asks) /\ order_id' = order_id + Cardinality(bids \cup asks)
  BY <1>1 DEF bids, asks
<1>9. \A p \in bids, q \in asks : p.orderId # q.orderId
  BY <1>2, <1>5, <1>7
<1>10. order_id' = order_id + b + a
  <2>1. bids \cap asks = {} /\ Cardinality(bids \cap asks) = 0
    BY <1>9, FS_EmptySet
  <2>2. Cardinality(bids \cup asks) = b + a - 0
    BY <1>5, <1>7, <2>1, FS_Union DEF a, b
  <2>3. b \in 0 .. 1 /\ a \in 0 .. 1
    BY <1>5, <1>7
  <2> QED
    BY <1>2, <1>8, <2>2, <2>3
<1>11. order_id' \in Nat /\ order_id' >= order_id
  BY <1>2, <1>5, <1>7, <1>10
<1>12. ASSUME NEW q \in bids PROVE q.orderId > order_id /\ q.orderId <= order_id'
  BY <1>2, <1>5, <1>7, <1>10
<1>13. ASSUME NEW q \in asks PROVE q.orderId > order_id /\ q.orderId <= order_id'
  BY <1>2, <1>5, <1>7, <1>10
<1>14. IsQuotes(bids, asks)
  BY <1>5, <1>7, <1>8, <1>9, <1>11, <1>12, <1>13 DEF IsQuotes
<1> QED
  BY <1>14

LEMMA StepKeeps ==
  IInv /\ Step => IInv'
<1> SUFFICES ASSUME IInv, Step PROVE IInv'
  OBVIOUS
<1>1. ExchangeInv /\ DelaysHold /\ LateInv /\ quotedAt' = market.id
  BY DEF IInv, Step
<1>2. PICK bids, asks : IsQuotes(bids, asks)
  BY <1>1, StepQuotes
<1>3. /\ IsBook(bid_quotes') /\ IsBook(ask_quotes') /\ IsBuffer(timed_buffer')
      /\ DOMAIN timed_buffer' \subseteq 0 .. market.id
      /\ DelaysHold' /\ LateInv' /\ OnlyLateQuotesSurvive'
  BY <1>1, <1>2, CancelAndQuoteKeeps DEF IsQuotes
<1>4. CancelAndQuote(bids, asks) /\ order_id' \in Nat
  BY <1>2 DEF IsQuotes
<1>5. /\ UNCHANGED <<readerVars, market, book, isDone, signalVars>>
      /\ pc' = "read" /\ ~isDone
  BY <1>4 DEF Step, CancelAndQuote
<1>6. ReaderInv'
  BY <1>5 DEF IInv, ReaderInv, readerVars
<1>7. ExchangeInv'
  <2>1. quotedAt' \in Nat
    BY <1>1 DEF ExchangeInv
  <2> QED
    BY <1>1, <1>3, <1>4, <1>5, <2>1 DEF ExchangeInv
<1>8. TableInv' /\ SignalsOfEpisode'
  BY <1>5 DEF IInv, TableInv, SignalsOfEpisode, signalVars
<1>9. RewardInv'
  <2>1. /\ UNCHANGED <<position, executions, info, previous_fees, previous_buy_sell_diff, rewards>>
        /\ pc' = "read" /\ reads' = 0
    BY <1>4 DEF Step, CancelAndQuote, rewardVars
  <2>2. RewardInv /\ pc = "idle"
    BY DEF IInv, Step
  <2> QED
    BY <2>1, <2>2 DEF RewardInv
<1> QED
  BY <1>3, <1>6, <1>7, <1>8, <1>9 DEF IInv

\* The part of ReadsEveryRow about one read.
LEMMA ReadKeeps ==
  IInv /\ Read =>
    /\ IInv'
    /\ IF isDone' THEN RowsBetween(currentRow, Lines) = {} \/ num_reads' > max_read
       ELSE currentRow' \in RowsBetween(currentRow, Lines)
            /\ RowsBetween(currentRow, currentRow' - 1) = {}
<1> SUFFICES ASSUME IInv, Read
    PROVE  /\ IInv'
           /\ IF isDone' THEN RowsBetween(currentRow, Lines) = {} \/ num_reads' > max_read
              ELSE currentRow' \in RowsBetween(currentRow, Lines)
                   /\ RowsBetween(currentRow, currentRow' - 1) = {}
  OBVIOUS
<1>1. /\ ReaderInv /\ ExchangeInv /\ DelaysHold /\ LateInv /\ OnlyLateQuotesSurvive
      /\ TableInv /\ SignalsOfEpisode /\ RewardInv
  BY DEF IInv
<1>2. /\ pc = "read" /\ NextRow /\ isDone' = ~HasNext
      /\ UNCHANGED <<strategyVars, signalVars, book>>
  BY DEF Read, next_read
<1>3. ~isDone
  BY <1>1, <1>2 DEF ExchangeInv
<1>4. /\ ReaderInv'
      /\ IF isDone' THEN RowsBetween(currentRow, Lines) = {} \/ num_reads' > max_read
         ELSE currentRow' \in RowsBetween(currentRow, Lines)
              /\ RowsBetween(currentRow, currentRow' - 1) = {}
  BY <1>1, <1>2, <1>3, NextRowReads
<1>5. quotedAt' = quotedAt /\ order_id' = order_id
  BY <1>2 DEF strategyVars
<1>6. /\ IsBook(bid_quotes') /\ IsBook(ask_quotes') /\ IsBuffer(timed_buffer')
      /\ DOMAIN timed_buffer' \subseteq 0 .. market'.id
      /\ DelaysHold' /\ LateInv' /\ OnlyLateQuotesSurvive'
      /\ market' \in [id : Nat, bid : Nat, ask : Nat \ {0}]
  <2>1. CASE HasNext
    <3>1. PICK gap \in IdGaps : market' \in Markets(market.id + gap) /\ Execute(market')
      BY <2>1 DEF Read, next_read
    <3>2. gap \in Nat /\ market.id \in Nat /\ market.id + gap \in Nat
      BY <1>1, ExchangeAssumption DEF ExchangeInv
    <3>3. market' \in [id : Nat, bid : Nat, ask : Nat \ {0}] /\ market'.id >= market.id
      BY <3>1, <3>2, MarketType
    <3> QED
      BY <1>1, <1>5, <3>1, <3>3, ExecuteKeeps
  <2>2. CASE ~HasNext
    <3>1. UNCHANGED <<bookVars, market>>
      BY <2>2 DEF Read, next_read
    <3> QED
      BY <1>1, <1>5, <3>1
      DEF bookVars, ExchangeInv, DelaysHold, LateInv, OnlyLateQuotesSurvive, Waiting, Resting, IsOverdue
  <2> QED
    BY <2>1, <2>2
<1>7. ExchangeInv'
  <2>1. pc' \in {"idle", "read", "fills"} /\ isDone' \in BOOLEAN /\ (pc' # "idle" => ~isDone')
    BY <1>2 DEF Read
  <2> QED
    BY <1>1, <1>2, <1>5, <1>6, <2>1 DEF ExchangeInv
<1>8. TableInv' /\ SignalsOfEpisode'
  BY <1>1, <1>2 DEF TableInv, SignalsOfEpisode, signalVars
<1>9. RewardInv'
  <2>1. UNCHANGED <<position, book, reads>> /\ pc = "read"
    BY DEF Read, strategyVars
  <2>2. CASE HasNext
    <3>1. UNCHANGED <<info, previous_fees, previous_buy_sell_diff, rewards>> /\ pc' = "fills"
      BY <2>2 DEF Read, rewardVars
    <3>2. PICK obs : Execute(obs)
      BY <2>2 DEF Read, next_read
    <3>3. executions' \in Seq(Orders)
      BY <1>1, <3>2, ExecuteReports DEF RewardInv
    <3> QED
      BY <1>1, <2>1, <3>1, <3>3 DEF RewardInv
  <2>3. CASE ~HasNext
    <3>1. /\ pc' = "idle" /\ isDone' /\ info' = NoInfo
          /\ previous_fees' = info.fees /\ previous_buy_sell_diff' = info.buy_sell_diff
          /\ rewards' = rewards + reward(info)
      BY <2>3 DEF Read, WriteState, infoAfter
    <3>2. executions' = executions
      BY <2>3 DEF Read, next_read, bookVars
    <3>3. /\ info \in [fees : Int, buy_sell_diff : Int]
          /\ previous_fees \in Int /\ previous_buy_sell_diff \in Int
          /\ rewards = previous_buy_sell_diff - previous_fees
          /\ reads < 2 /\ info = (IF reads = 0 THEN NoInfo ELSE computeInfo(position, book))
      BY <1>1, <2>1 DEF RewardInv
    <3>4. rewards' = previous_buy_sell_diff' - previous_fees'
      BY <3>1, <3>3 DEF reward
    <3>5. reads = 0 => info.fees = 0 /\ info.buy_sell_diff = 0
      BY <3>3 DEF NoInfo
    <3>6. reads # 0 => /\ info.fees = position.totalFee
                       /\ info.buy_sell_diff = buy_sell_diff(position, book)
      BY <3>3 DEF computeInfo
    <3>7. buy_sell_diff(position, book)' = buy_sell_diff(position, book)
      BY <2>1
    <3>8. info' \in [fees : Int, buy_sell_diff : Int] /\ position' \in Positions /\ reads' \in 0 .. 2
      BY <1>1, <2>1, <3>1, InfoType DEF RewardInv
    <3> QED
      BY <1>1, <2>1, <3>1, <3>2, <3>3, <3>4, <3>5, <3>6, <3>7, <3>8 DEF RewardInv
  <2> QED
    BY <2>2, <2>3
<1> QED
  BY <1>4, <1>6, <1>7, <1>8, <1>9 DEF IInv

LEMMA FillsKeeps ==
  IInv /\ Fills => IInv'
<1> SUFFICES ASSUME IInv, Fills PROVE IInv'
  OBVIOUS
<1>1. /\ ReaderInv /\ ExchangeInv /\ DelaysHold /\ LateInv /\ OnlyLateQuotesSurvive
      /\ TableInv /\ SignalsOfEpisode /\ RewardInv /\ ~isDone
  BY DEF IInv, ExchangeInv, Fills
<1>2. /\ UNCHANGED <<readerVars, bid_quotes, ask_quotes, timed_buffer, market>>
      /\ UNCHANGED <<order_id, quotedAt, isDone>>
      /\ book' = [bid |-> market.bid, ask |-> market.ask]
      /\ pc' \in {"read", "idle"}
      /\ add_book(currentRow)
  BY DEF Fills, getFills
<1>3. currentRow \in WellFormed
  <2>1. PICK from \in 0 .. line : rows = rowsRead(from, line)
    BY <1>1 DEF ReaderInv
  <2>2. from \in Nat /\ line \in Nat /\ current \in 1 .. Len(rows)
    BY <1>1 DEF ReaderInv
  <2>3. IsStretch(rows, from, line)
    BY <2>1, <2>2, RowsOfStretch
  <2> QED
    BY <2>2, <2>3 DEF IsStretch, RowsBetween, currentRow
<1>4. TableInv' /\ SignalsOfEpisode'
  BY <1>1, <1>2, <1>3, AddBook
<1>5. ReaderInv'
  BY <1>1, <1>2 DEF ReaderInv, readerVars
<1>6. ExchangeInv'
  BY <1>1, <1>2 DEF ExchangeInv
<1>7. DelaysHold' /\ LateInv' /\ OnlyLateQuotesSurvive'
  BY <1>1, <1>2 DEF DelaysHold, LateInv, OnlyLateQuotesSurvive, Waiting, Resting, IsOverdue
<1>8. RewardInv'
  <2>1. position \in Positions /\ executions \in Seq(Orders)
    BY <1>1 DEF RewardInv
  <2>2. position' \in Positions
    BY <2>1, OnFillFold DEF Fills
  <2>3. position'.totalFee \in Int
    BY <2>2 DEF Positions
  <2>4. executions' \in Seq(Orders)
    <3>1. executions' = <<>>
      BY DEF Fills, getFills
    <3> QED
      BY <3>1
  <2> DEFINE now == computeInfo(position', market)
  <2>5. /\ reads' = reads + 1
        /\ pc' = IF reads + 1 < 2 THEN "read" ELSE "idle"
        /\ IF reads + 1 < 2
           THEN info' = now /\ UNCHANGED <<previous_fees, previous_buy_sell_diff, rewards>>
           ELSE /\ previous_fees' = now.fees /\ previous_buy_sell_diff' = now.buy_sell_diff
                /\ info' = NoInfo /\ rewards' = rewards + reward(now)
    BY Zenon DEF Fills, WriteState, infoAfter
  <2>6. /\ previous_fees \in Int /\ previous_buy_sell_diff \in Int
        /\ rewards = previous_buy_sell_diff - previous_fees /\ reads \in {0, 1} /\ ~isDone'
    <3>1. pc # "idle"
      BY DEF Fills
    <3> QED
      BY <1>1, <1>2, <3>1 DEF RewardInv
  <2>9. /\ now.fees = position'.totalFee /\ now.buy_sell_diff = buy_sell_diff(position', book')
        /\ now = computeInfo(position', book')
    BY <1>2 DEF computeInfo, buy_sell_diff
  <2>10. now \in [fees : Int, buy_sell_diff : Int]
    <3>1. book' \in [bid : Nat, ask : Nat \ {0}]
      BY <1>1, <1>2 DEF ExchangeInv
    <3> HIDE DEF now
    <3> QED
      BY <2>2, <2>9, <3>1, InfoType
  <2> HIDE DEF now
  <2>7. CASE reads = 0
    <3>1. /\ info' = now /\ UNCHANGED <<previous_fees, previous_buy_sell_diff, rewards>>
          /\ pc' = "read" /\ reads' = 1
      BY <2>7, <2>5
    <3> QED
      BY <2>2, <2>4, <2>6, <2>9, <2>10, <3>1 DEF RewardInv
  <2>8. CASE reads = 1
    <3>1. /\ previous_fees' = now.fees /\ previous_buy_sell_diff' = now.buy_sell_diff
          /\ info' = NoInfo /\ pc' = "idle" /\ reads' = 2 /\ rewards' = rewards + reward(now)
      BY <2>8, <2>5
    <3>2. rewards' = previous_buy_sell_diff' - previous_fees'
      BY <2>6, <2>10, <3>1 DEF reward
    <3>3. info' \in [fees : Int, buy_sell_diff : Int]
      BY <3>1, InfoType
    <3>4. previous_fees' \in Int /\ previous_buy_sell_diff' \in Int
      BY <2>10, <3>1
    <3> QED
      BY <2>2, <2>4, <2>6, <2>9, <3>1, <3>2, <3>3, <3>4 DEF RewardInv
  <2> QED
    BY <2>6, <2>7, <2>8
<1> QED
  BY <1>4, <1>5, <1>6, <1>7, <1>8 DEF IInv

\* The inductive invariant of a trading env.
THEOREM Invariance == Spec => []IInv
<1>1. Init => IInv
  BY InitIInv
<1>2. IInv /\ [Next]_vars => IInv'
  <2>1. ASSUME IInv, UNCHANGED vars PROVE IInv'
    <3>1. UNCHANGED <<readerVars, bookVars, market>> /\ UNCHANGED <<strategyVars, signalVars, rewardVars, envVars>>
      BY <2>1 DEF vars, exchangeVars
    <3>2. ReaderInv'
      BY <2>1, <3>1 DEF IInv, ReaderInv, readerVars, envVars
    <3>3. ExchangeInv'
      BY <2>1, <3>1 DEF IInv, ExchangeInv, bookVars, strategyVars, envVars
    <3>4. DelaysHold' /\ LateInv' /\ OnlyLateQuotesSurvive'
      BY <2>1, <3>1 DEF IInv, DelaysHold, LateInv, OnlyLateQuotesSurvive, Waiting, Resting,
         IsOverdue, bookVars, strategyVars
    <3>5. TableInv' /\ SignalsOfEpisode'
      BY <2>1, <3>1 DEF IInv, TableInv, SignalsOfEpisode, signalVars
    <3>6. RewardInv'
      BY <2>1, <3>1 DEF IInv, RewardInv, rewardVars, strategyVars, envVars, bookVars
    <3> QED
      BY <3>2, <3>3, <3>4, <3>5, <3>6 DEF IInv
  <2> QED
    BY <2>1, ResetKeeps, StepKeeps, ReadKeeps, FillsKeeps DEF Next
<1> QED
  BY <1>1, <1>2, PTL DEF Spec

\* Orders rest no sooner than their delay and no longer than the delay of their
\* cancel, and never cross the book: sim_exchange.cc, lines 137-278.
THEOREM DelaysHoldCorrect == Spec => []DelaysHold
<1>1. IInv => DelaysHold
  BY DEF IInv
<1> QED
  BY <1>1, Invariance, PTL

\* A cancel of all quotes catches those that the exchange has acknowledged:
\* strategy.cc, line 44, with cancelOrders.
THEOREM OnlyLateQuotesSurviveCorrect == Spec => []OnlyLateQuotesSurvive
<1>1. IInv => OnlyLateQuotesSurvive
  BY DEF IInv
<1> QED
  BY <1>1, Invariance, PTL

\* The table and the signals see books of this episode only, each at its lag:
\* circ_table.h, lines 14-32.
THEOREM SignalsOfEpisodeCorrect == Spec => []SignalsOfEpisode
<1>1. IInv => SignalsOfEpisode
  BY DEF IInv
<1> QED
  BY <1>1, Invariance, PTL

\* The rewards of an episode add up to the rebates of its fills and the distance
\* of the market from the average price at its end: rltrader_litepool.h, lines
\* 177-215.
THEOREM RewardsAddUpCorrect == Spec => []RewardsAddUp
<1>1. IInv => RewardsAddUp
  <2> SUFFICES ASSUME IInv, pc = "idle"
      PROVE  rewards = (IF isDone /\ reads = 0 THEN 0
                        ELSE buy_sell_diff(position, book) - position.totalFee)
    BY DEF RewardsAddUp
  <2>1. /\ rewards = previous_buy_sell_diff - previous_fees
        /\ previous_fees = (IF isDone /\ reads = 0 THEN 0 ELSE position.totalFee)
        /\ previous_buy_sell_diff =
             (IF isDone /\ reads = 0 THEN 0 ELSE buy_sell_diff(position, book))
    BY DEF IInv, RewardInv
  <2> QED
    BY <2>1
<1> QED
  BY <1>1, Invariance, PTL

\* An episode reads every well-formed row from its first to its last, across
\* batches: csv_reader.cc, lines 13-27 and 64-137.
THEOREM ReadsEveryRowCorrect == Spec => ReadsEveryRow
<1>1. IInv /\ [Next]_vars =>
        [Read => IF isDone' THEN RowsBetween(currentRow, Lines) = {} \/ num_reads' > max_read
                 ELSE currentRow' \in RowsBetween(currentRow, Lines)
                      /\ RowsBetween(currentRow, currentRow' - 1) = {}]_vars
  BY ReadKeeps
<1> QED
  BY <1>1, Invariance, PTL DEF Spec, ReadsEveryRow

-----------------------------------------------------------------------------
(* The fate of an order *)

\* No order is twice in a sequence, or in a buffer, with one of these states.
OnceIn(s, st) ==
  \A j, k \in DOMAIN s :
    s[j].state \in st /\ s[k].state \in st /\ s[j].orderId = s[k].orderId => j = k
Once(buffer, st) ==
  /\ \A t \in DOMAIN buffer : OnceIn(buffer[t], st)
  /\ \A p, q \in Held(buffer) :
       p.state \in st /\ q.state \in st /\ p.orderId = q.orderId => p = q

Alive == {"NEW", "FILLED"}
Dead == {"CANCELLED"}
Booked == DOMAIN bid_quotes \cup DOMAIN ask_quotes
Reported == {q.orderId : q \in Range(executions)}

\* Each place holds an order once, ...
PlacesInv ==
  /\ Once(timed_buffer, Alive) /\ Once(timed_buffer, Dead)
  /\ DOMAIN bid_quotes \cap DOMAIN ask_quotes = {}
  /\ \A j, k \in DOMAIN executions : executions[j].orderId = executions[k].orderId => j = k
  /\ pc # "fills" => executions = <<>>

\* ... an order is in one place, ...
OnePlaceInv ==
  /\ \A q \in Waiting : q.state \in Alive => q.orderId \notin Booked \cup Reported \cup applied
  /\ Booked \cap (Reported \cup applied) = {}
  /\ Reported \cap applied = {}

\* ... an order with a cancel on its way has arrived, and is not cancelled
\* again, ...
CancelInv ==
  \A q \in Waiting : q.state = "CANCELLED" =>
    /\ \A r \in Waiting : r.orderId = q.orderId => r.state # "NEW"
    /\ \A r \in Resting : r.orderId = q.orderId => r.state = "CANCELLED"

\* ... and new orders have new ids.
OldInv ==
  /\ \A q \in Waiting : q.orderId <= order_id
  /\ \A o \in Booked \cup Reported \cup applied : o \in Nat /\ o <= order_id

FateInv == PlacesInv /\ OnePlaceInv /\ CancelInv /\ OldInv

LEMMA OnceConcat ==
  ASSUME NEW s \in Seq(Orders), NEW t \in Seq(Orders), NEW st, OnceIn(s, st), OnceIn(t, st),
         \A p \in Range(s), q \in Range(t) :
           p.state \in st /\ q.state \in st => p.orderId # q.orderId
  PROVE  OnceIn(s \o t, st)
<1> DEFINE n == Len(s)
           both == s \o t
<1>1. /\ n \in Nat /\ Len(t) \in Nat /\ DOMAIN s = 1 .. n /\ DOMAIN t = 1 .. Len(t)
      /\ DOMAIN both = 1 .. n + Len(t)
  OBVIOUS
<1>2. ASSUME NEW k \in DOMAIN both
      PROVE  IF k <= n THEN k \in DOMAIN s /\ both[k] = s[k] /\ both[k] \in Range(s)
             ELSE k - n \in DOMAIN t /\ both[k] = t[k - n] /\ both[k] \in Range(t)
  <2>1. CASE k <= n
    <3>1. k \in DOMAIN s /\ both[k] = s[k]
      BY <1>1, <2>1
    <3> QED
      BY <2>1, <3>1 DEF Range
  <2>2. CASE ~(k <= n)
    <3>1. k - n \in DOMAIN t /\ both[k] = t[k - n]
      BY <1>1, <2>2
    <3> QED
      BY <2>2, <3>1 DEF Range
  <2> QED
    BY <2>1, <2>2
<1> HIDE DEF both, n
<1>3. ASSUME NEW j \in DOMAIN both, NEW k \in DOMAIN both,
             both[j].state \in st, both[k].state \in st, both[j].orderId = both[k].orderId
      PROVE  j = k
  <2>1. j \in Int /\ k \in Int /\ n \in Int
    BY <1>1
  <2>2. CASE j <= n /\ k <= n
    BY <1>2, <1>3, <2>2 DEF OnceIn
  <2>3. CASE ~(j <= n) /\ ~(k <= n)
    <3>1. j - n = k - n
      BY <1>2, <1>3, <2>3 DEF OnceIn
    <3> QED
      BY <2>1, <3>1
  <2>4. CASE j <= n /\ ~(k <= n)
    BY <1>2, <1>3, <2>4
  <2>5. CASE ~(j <= n) /\ k <= n
    BY <1>2, <1>3, <2>5
  <2> QED
    BY <2>2, <2>3, <2>4, <2>5
<1> QED
  BY <1>3 DEF OnceIn, both

\* Orders put in order are in it once.
LEMMA OnceInOrder ==
  ASSUME NEW S \in SUBSET Orders, NEW st
  PROVE  OnceIn(InOrder(S), st)
<1> DEFINE ids == {q.orderId : q \in S}
<1>1. ids \in SUBSET Int /\ IsFiniteSet(ids)
  <2>1. MaxOrders \in Int /\ ids \in SUBSET (1 .. MaxOrders)
    BY TradingAssumption DEF Orders
  <2>2. IsFiniteSet(1 .. MaxOrders)
    BY <2>1, FS_Interval
  <2>3. ids \in SUBSET Int
    BY <2>1
  <2> HIDE DEF ids
  <2>4. IsFiniteSet(ids)
    BY <2>1, <2>2, FS_Subset
  <2> QED
    BY <2>3, <2>4
<1> DEFINE n == Cardinality(ids)
           sorted == Sorted(ids)
<1>2. /\ n \in Nat /\ sorted \in [1 .. n -> ids]
      /\ \A j, k \in 1 .. n : j < k => sorted[j] < sorted[k]
  BY <1>1, SortedFacts
<1>3. InOrder(S) = [k \in 1 .. n |-> ById(S)[sorted[k]]]
  BY <1>2 DEF InOrder
<1> HIDE DEF sorted, n
<1>4. \A o \in ids : ById(S)[o].orderId = o
  BY ByIdFacts
<1>5. ASSUME NEW j \in 1 .. n, NEW k \in 1 .. n, InOrder(S)[j].orderId = InOrder(S)[k].orderId
      PROVE  j = k
  <2>1. sorted[j] = sorted[k] /\ sorted[j] \in Int
    BY <1>1, <1>2, <1>3, <1>4, <1>5
  <2>2. ~(j < k) /\ ~(k < j)
    BY <1>2, <2>1
  <2> QED
    BY <1>2, <2>2
<1> QED
  BY <1>3, <1>5 DEF OnceIn

\* Orders added to a buffer that does not hold them are in it once.
LEMMA OnceAdded ==
  ASSUME NEW buffer, IsBuffer(buffer), NEW bids \in SUBSET Orders, Distinct(bids),
         NEW asks \in SUBSET Orders, Distinct(asks), NEW st, Once(buffer, st),
         \A p \in bids, q \in asks : p.orderId # q.orderId,
         \A p \in bids \cup asks, q \in Held(buffer) :
           p.state \in st /\ q.state \in st => p.orderId # q.orderId
  PROVE  Once(AddAll(buffer, bids, asks), st)
<1> DEFINE after == AddAll(buffer, bids, asks)
           old(t) == IF t \in DOMAIN buffer THEN buffer[t] ELSE <<>>
           bidsAt(t) == {q \in bids : q.microSecond = t}
           asksAt(t) == {q \in asks : q.microSecond = t}
<1>1. /\ IsBuffer(after) /\ Held(after) = Held(buffer) \cup bids \cup asks
  BY AddAllFacts
<1>2. ASSUME NEW p \in Held(after), NEW q \in Held(after),
             p.state \in st, q.state \in st, p.orderId = q.orderId
      PROVE  p = q
  BY <1>1, <1>2 DEF Once, Distinct
<1>3. ASSUME NEW t \in DOMAIN after PROVE OnceIn(after[t], st)
  <2>1. /\ old(t) \in Seq(Orders) /\ OnceIn(old(t), st)
        /\ \A q \in Range(old(t)) : q \in Held(buffer)
    BY DEF IsBuffer, Once, OnceIn, Range, Held
  <2>2. /\ InOrder(bidsAt(t)) \in Seq(Orders) /\ Range(InOrder(bidsAt(t))) = bidsAt(t)
        /\ OnceIn(InOrder(bidsAt(t)), st)
    <3>1. bidsAt(t) \in SUBSET Orders /\ Distinct(bidsAt(t))
      BY DEF Distinct
    <3> QED
      BY <3>1, InOrderFacts, OnceInOrder
  <2>3. /\ InOrder(asksAt(t)) \in Seq(Orders) /\ Range(InOrder(asksAt(t))) = asksAt(t)
        /\ OnceIn(InOrder(asksAt(t)), st)
    <3>1. asksAt(t) \in SUBSET Orders /\ Distinct(asksAt(t))
      BY DEF Distinct
    <3> QED
      BY <3>1, InOrderFacts, OnceInOrder
  <2>4. after[t] = (old(t) \o InOrder(bidsAt(t))) \o InOrder(asksAt(t))
    BY DEF AddAll
  <2>5. bidsAt(t) \subseteq bids /\ asksAt(t) \subseteq asks
    OBVIOUS
  <2> HIDE DEF old, bidsAt, asksAt, after
  <2> DEFINE both == old(t) \o InOrder(bidsAt(t))
  <2>6. both \in Seq(Orders) /\ Range(both) = Range(old(t)) \cup bidsAt(t)
    BY <2>1, <2>2, RangeOfBoth
  <2>7. OnceIn(both, st)
    <3>1. \A p \in Range(old(t)), q \in Range(InOrder(bidsAt(t))) :
            p.state \in st /\ q.state \in st => p.orderId # q.orderId
      BY <2>1, <2>2, <2>5
    <3> QED
      BY <2>1, <2>2, <3>1, OnceConcat
  <2>8. \A p \in Range(both), q \in Range(InOrder(asksAt(t))) :
          p.state \in st /\ q.state \in st => p.orderId # q.orderId
    BY <2>1, <2>3, <2>5, <2>6
  <2> HIDE DEF both
  <2>9. OnceIn(both \o InOrder(asksAt(t)), st)
    BY <2>3, <2>6, <2>7, <2>8, OnceConcat
  <2> QED
    BY <2>4, <2>9 DEF both
<1> QED
  BY <1>2, <1>3 DEF Once, after

-----------------------------------------------------------------------------
(* What is reported *)

\* The reports are of these fills, one of each.
Fresh(fills, from) ==
  /\ fills \in Seq(Orders) /\ \A k \in DOMAIN fills : fills[k] \in from
  /\ \A j, k \in DOMAIN fills : fills[j].orderId = fills[k].orderId => j = k

FilledOf(orders) == {q \in orders : q.state = "FILLED"}

LEMMA ReportFresh ==
  ASSUME NEW fills, NEW from, Fresh(fills, from), NEW q \in Orders,
         q.state = "FILLED" => \A p \in from : p.orderId # q.orderId
  PROVE  Fresh(report(fills, q), from \cup FilledOf({q}))
<1>1. /\ fills \in Seq(Orders) /\ Len(fills) \in Nat /\ DOMAIN fills = 1 .. Len(fills)
      /\ \A k \in DOMAIN fills : fills[k] \in from
      /\ \A j, k \in DOMAIN fills : fills[j].orderId = fills[k].orderId => j = k
  BY DEF Fresh
<1>2. CASE q.state # "FILLED"
  <2>1. report(fills, q) = fills
    BY <1>2 DEF report
  <2> QED
    BY <1>1, <2>1 DEF Fresh
<1>3. CASE q.state = "FILLED"
  <2> DEFINE r == Append(fills, q)
             n == Len(fills)
  <2>1. /\ r \in Seq(Orders) /\ DOMAIN r = 1 .. n + 1 /\ r[n + 1] = q
        /\ \A k \in 1 .. n : r[k] = fills[k]
    BY <1>1
  <2>2. report(fills, q) = r /\ q \in FilledOf({q})
    BY <1>3 DEF report, FilledOf
  <2> HIDE DEF r
  <2>3. ASSUME NEW k \in DOMAIN r, k # n + 1 PROVE k \in DOMAIN fills /\ r[k] = fills[k]
    BY <1>1, <2>1, <2>3
  <2>4. \A k \in DOMAIN r : r[k] \in from \cup FilledOf({q})
    BY <1>1, <2>1, <2>2, <2>3
  <2>5. ASSUME NEW j \in DOMAIN r, NEW k \in DOMAIN r, r[j].orderId = r[k].orderId PROVE j = k
    <3>1. ASSUME NEW i \in DOMAIN r, i # n + 1 PROVE r[i].orderId # q.orderId
      BY <1>1, <1>3, <2>3, <3>1
    <3>2. CASE j = n + 1 \/ k = n + 1
      BY <2>1, <2>5, <3>1, <3>2
    <3>3. CASE j # n + 1 /\ k # n + 1
      BY <1>1, <2>3, <2>5, <3>3
    <3> QED
      BY <3>2, <3>3
  <2> QED
    BY <2>1, <2>2, <2>4, <2>5 DEF Fresh
<1> QED
  BY <1>2, <1>3

\* The reports of one time.
LEMMA ReportFoldFresh ==
  ASSUME NEW fills, NEW from, Fresh(fills, from), NEW s \in Seq(Orders), OnceIn(s, Alive),
         \A q \in Range(s), p \in from : q.state = "FILLED" => p.orderId # q.orderId
  PROVE  Fresh(FoldLeft(report, fills, s), from \cup FilledOf(Range(s)))
<1> DEFINE n == Len(s)
           at(S) == {s[k] : k \in S}
<1>1. n \in Nat /\ DOMAIN s = 1 .. n /\ (\A k \in 1 .. n : s[k] \in Orders) /\ fills \in Seq(Orders)
  BY DEF Fresh
<1>2. PICK g : IsReport(g, fills, s)
  BY <1>1, ReportSteps
<1> DEFINE Good == {S \in SUBSET (1 .. n) : Fresh(g[S], from \cup FilledOf(at(S)))}
<1>3. {} \in Good
  <2>1. g[{}] = fills /\ from \cup FilledOf(at({})) = from
    BY <1>2 DEF IsReport, FilledOf
  <2> QED
    BY <2>1
<1>4. ASSUME NEW S \in SUBSET (1 .. n), S # {} /\ S \ {Max(S)} \in Good
      PROVE  S \in Good
  <2> DEFINE m == Max(S)
             R == S \ {m}
             X == from \cup FilledOf(at(R))
  <2>1. m \in S /\ m \in 1 .. n /\ s[m] \in Orders /\ s[m] \in Range(s)
    BY <1>1, <1>4, Largest DEF Range
  <2>2. g[S] = report(g[R], s[m])
    BY <1>2, <1>4 DEF IsReport
  <2>3. Fresh(g[R], X)
    BY <1>4
  <2>4. ASSUME s[m].state = "FILLED", NEW p \in X PROVE p.orderId # s[m].orderId
    <3>1. CASE p \in from
      BY <2>1, <2>4, <3>1
    <3>2. CASE p \in FilledOf(at(R))
      <4>1. PICK k \in R : p = s[k] /\ s[k].state = "FILLED"
        BY <3>2 DEF FilledOf
      <4>2. k \in DOMAIN s /\ m \in DOMAIN s /\ k # m
        BY <1>1, <2>1
      <4> QED
        BY <2>4, <4>1, <4>2 DEF OnceIn, Alive
    <3> QED
      BY <3>1, <3>2
  <2>5. from \cup FilledOf(at(S)) = X \cup FilledOf({s[m]})
    BY <2>1 DEF FilledOf
  <2> HIDE DEF X
  <2>6. Fresh(report(g[R], s[m]), X \cup FilledOf({s[m]}))
    BY <2>1, <2>3, <2>4, ReportFresh
  <2> QED
    BY <2>2, <2>5, <2>6
<1> HIDE DEF Good
<1>5. 1 .. n \in Good
  BY <1>1, <1>3, <1>4, FoldHolds
<1>6. at(1 .. n) = Range(s) /\ g[1 .. n] = FoldLeft(report, fills, s)
  BY <1>1, <1>2 DEF IsReport, Range
<1> QED
  BY <1>5, <1>6 DEF Good

\* The reports of a row, which come one time after the other.
LEMMA ExecuteReportsFresh ==
  ASSUME ExchangeInv, Once(timed_buffer, Alive), executions = <<>>, NEW obs, Execute(obs)
  PROVE  Fresh(executions', FilledOf(Now(obs)))
<1> DEFINE due == DueTimes(obs)
           n == Cardinality(due)
           s == Sorted(due)
           at(S) == UNION {Range(timed_buffer[s[k]]) : k \in S}
           last == FoldLeft(LAMBDA f, t : FoldLeft(report, f, timed_buffer[t]), executions, s)
<1>1. IsFiniteSet(due) /\ due \in SUBSET Int /\ due \subseteq DOMAIN timed_buffer
  <2>1. due \in SUBSET (0 .. market.id) /\ due \in SUBSET Int /\ market.id \in Nat
    BY DEF DueTimes, ExchangeInv
  <2>2. IsFiniteSet(0 .. market.id) /\ due \subseteq DOMAIN timed_buffer
    BY <2>1, FS_Interval DEF DueTimes
  <2> HIDE DEF due
  <2> QED
    BY <2>1, <2>2, FS_Subset
<1>2. /\ IsBuffer(timed_buffer)
      /\ \A t \in due : timed_buffer[t] \in Seq(Orders)
  BY <1>1 DEF ExchangeInv, IsBuffer
<1>3. executions' = last
  BY DEF Execute, DueTimes
<1>4. FilledOf(Now(obs)) = FilledOf(UNION {Range(timed_buffer[t]) : t \in due})
  BY DEF Now
<1> HIDE DEF due
<1>5. /\ n \in Nat /\ s \in [1 .. n -> due]
      /\ \A t \in due : \E k \in 1 .. n : s[k] = t
      /\ \A j, k \in 1 .. n : j < k => s[j] < s[k]
  BY <1>1, SortedFacts
<1> HIDE DEF s, n
<1>6. s \in Seq(due) /\ Len(s) = n
  BY <1>5
<1>7. \A j, k \in 1 .. n : s[j] = s[k] => j = k
  <2> SUFFICES ASSUME NEW j \in 1 .. n, NEW k \in 1 .. n, s[j] = s[k] PROVE j = k
    OBVIOUS
  <2>1. s[j] \in Int /\ s[k] \in Int /\ (j < k => s[j] < s[k]) /\ (k < j => s[k] < s[j])
    BY <1>1, <1>5
  <2> QED
    BY <1>5, <2>1
<1>8. executions \in Seq(Orders)
  OBVIOUS
<1>9. PICK g : IsReports(g, executions, s)
  BY <1>2, <1>6, <1>8, ReportsSteps
<1> DEFINE Good == {S \in SUBSET (1 .. n) : Fresh(g[S], FilledOf(at(S)))}
<1>10. {} \in Good
  <2>1. g[{}] = <<>>
    BY <1>9 DEF IsReports
  <2>2. Fresh(<<>>, FilledOf(at({})))
    BY <1>8 DEF Fresh
  <2> QED
    BY <2>1, <2>2
<1>11. ASSUME NEW S \in SUBSET (1 .. n), S # {} /\ S \ {Max(S)} \in Good
       PROVE  S \in Good
  <2> DEFINE m == Max(S)
             R == S \ {m}
             b == timed_buffer[s[m]]
  <2>1. m \in S /\ m \in 1 .. n /\ s[m] \in due
    BY <1>5, <1>11, Largest
  <2>2. g[S] = FoldLeft(report, g[R], b)
    BY <1>6, <1>9, <1>11 DEF IsReports
  <2>3. Fresh(g[R], FilledOf(at(R))) /\ b \in Seq(Orders) /\ OnceIn(b, Alive)
    BY <1>1, <1>2, <1>11, <2>1 DEF Once
  <2>4. ASSUME NEW q \in Range(b), NEW p \in FilledOf(at(R)), q.state = "FILLED"
        PROVE  p.orderId # q.orderId
    <3>1. PICK k \in R : p \in Range(timed_buffer[s[k]])
      BY DEF FilledOf
    <3>2. s[k] \in due /\ s[k] # s[m] /\ p.state = "FILLED"
      BY <1>5, <1>7, <2>1 DEF FilledOf
    <3>3. p \in Held(timed_buffer) /\ q \in Held(timed_buffer)
      BY <1>1, <2>1, <3>1, <3>2 DEF Held
    <3>4. p.microSecond = s[k] /\ q.microSecond = s[m]
      BY <1>1, <1>2, <2>1, <3>1, <3>2 DEF IsBuffer
    <3> QED
      BY <2>4, <3>2, <3>3, <3>4 DEF Once, Alive
  <2>5. FilledOf(at(S)) = FilledOf(at(R)) \cup FilledOf(Range(b))
    BY <2>1 DEF FilledOf
  <2> HIDE DEF b, at
  <2>6. Fresh(FoldLeft(report, g[R], b), FilledOf(at(R)) \cup FilledOf(Range(b)))
    BY <2>3, <2>4, ReportFoldFresh
  <2> QED
    BY <2>2, <2>5, <2>6
<1> HIDE DEF Good
<1>12. 1 .. n \in Good
  BY <1>5, <1>10, <1>11, FoldHolds
<1>13. at(1 .. n) = UNION {Range(timed_buffer[t]) : t \in due}
  BY <1>5
<1>14. g[1 .. n] = last
  BY <1>6, <1>9 DEF IsReports
<1> QED
  BY <1>3, <1>4, <1>12, <1>13, <1>14 DEF Good

-----------------------------------------------------------------------------
(* Orders move *)

IdsOf(orders) == {q.orderId : q \in orders}
Arriving(obs, side) == {r \in Now(obs) : r.side = side /\ r.state = "NEW"}

LEMMA BookIds ==
  ASSUME NEW quotes, IsBook(quotes)
  PROVE  DOMAIN quotes = IdsOf(Range(quotes))
BY DEF IsBook, IdsOf, Range

\* A side of the book gets its orders from what arrives, and loses those that
\* are filled.
SideMoved(quotes, left, fills, came) ==
  /\ IsBook(left) /\ fills \in SUBSET Orders /\ Distinct(fills)
  /\ \A q \in fills : q.state = "FILLED"
  /\ DOMAIN left \cup IdsOf(fills) \subseteq DOMAIN quotes \cup came
  /\ DOMAIN left \cap IdsOf(fills) = {}
  /\ \A q \in Range(left) : q \in Range(quotes) \/ q.orderId \in came

LEMMA SideMoves ==
  ASSUME IsBuffer(timed_buffer), NEW quotes, IsBook(quotes), NEW obs, NEW side,
         NEW filled \in SUBSET Range(Taken(quotes, obs, side)),
         NEW fills, fills = {Fill(q) : q \in filled},
         NEW left, left = Without(Taken(quotes, obs, side), fills)
  PROVE  SideMoved(quotes, left, fills, IdsOf(Arriving(obs, side)))
<1> DEFINE taken == Taken(quotes, obs, side)
<1>1. IsBook(taken)
  BY TakenFacts
<1>2. ASSUME NEW q \in Acked(obs, side) PROVE q.orderId \in IdsOf(Arriving(obs, side))
  <2>1. PICK r \in Now(obs) : r.side = side /\ Accepted(r, obs) /\ q = [r EXCEPT !.state = "NEW_ACK"]
    BY DEF Acked
  <2>2. r \in Orders /\ r.state = "NEW"
    BY <2>1, NowIsDue, WaitingOrders DEF Accepted
  <2>3. q.orderId = r.orderId /\ r \in Arriving(obs, side)
    BY <2>1, <2>2 DEF Orders, Arriving
  <2> QED
    BY <2>3 DEF IdsOf
<1>3. ASSUME NEW q \in Range(taken)
      PROVE  q \in Range(quotes) \/ q.orderId \in IdsOf(Arriving(obs, side))
  <2> DEFINE kept == Without(quotes, Gone(obs))
             new == ById(Acked(obs, side))
  <2>1. PICK o \in DOMAIN kept \cup DOMAIN new :
          q = IF o \in DOMAIN new THEN new[o] ELSE kept[o]
    BY DEF Taken, With, Range
  <2>2. Acked(obs, side) \in SUBSET Orders
    <3> SUFFICES ASSUME NEW r \in Now(obs) PROVE [r EXCEPT !.state = "NEW_ACK"] \in Orders
      BY DEF Acked
    <3>1. r \in Orders
      BY NowIsDue, WaitingOrders
    <3> QED
      BY <3>1 DEF Orders
  <2>3. \A p \in DOMAIN new : new[p] \in Acked(obs, side)
    BY <2>2, ByIdFacts
  <2>4. \A p \in DOMAIN kept : kept[p] \in Range(quotes)
    BY DEF Without, Restrict, Range
  <2> QED
    BY <1>2, <2>1, <2>3, <2>4
<1>4. \A q \in Range(taken) : q.orderId \in DOMAIN quotes \cup IdsOf(Arriving(obs, side))
  BY <1>3, BookFacts
<1>5. /\ fills \in SUBSET Orders /\ Distinct(fills)
      /\ \A q \in fills : q.state = "FILLED"
      /\ IsBook(left) /\ Range(left) = Range(taken) \ filled
  <2> HIDE DEF taken
  <2>1. filled \in SUBSET Range(taken) /\ left = Without(taken, fills)
    BY DEF taken
  <2>2. /\ {Fill(q) : q \in filled} \in SUBSET Orders /\ Distinct({Fill(q) : q \in filled})
        /\ \A q \in {Fill(p) : p \in filled} : q.state = "FILLED"
        /\ IsBook(Without(taken, {Fill(q) : q \in filled}))
        /\ Range(Without(taken, {Fill(q) : q \in filled})) = Range(taken) \ filled
    BY <1>1, <2>1, FillFacts
  <2> QED
    BY <2>1, <2>2
<1>6. IdsOf(fills) = IdsOf(filled)
  <2>1. \A q \in Orders : Fill(q).orderId = q.orderId
    BY DEF Fill, Orders
  <2>2. filled \in SUBSET Orders
    BY <1>1, BookFacts
  <2> QED
    BY <2>1, <2>2 DEF IdsOf
<1>7. DOMAIN left = IdsOf(Range(taken) \ filled)
  BY <1>5, BookIds
<1> HIDE DEF taken
<1>8. DOMAIN left \cap IdsOf(filled) = {}
  <2>1. Distinct(Range(taken)) /\ filled \subseteq Range(taken)
    BY <1>1, BookFacts DEF taken
  <2> QED
    BY <1>7, <2>1 DEF IdsOf, Distinct
<1>9. DOMAIN left \cup IdsOf(filled) \subseteq IdsOf(Range(taken))
  BY <1>7 DEF IdsOf, taken
<1>10. IdsOf(Range(taken)) \subseteq DOMAIN quotes \cup IdsOf(Arriving(obs, side))
  BY <1>4 DEF IdsOf, taken
<1>11. \A q \in Range(left) : q \in Range(quotes) \/ q.orderId \in IdsOf(Arriving(obs, side))
  BY <1>3, <1>5 DEF taken
<1> QED
  BY <1>5, <1>6, <1>8, <1>9, <1>10, <1>11 DEF SideMoved

\* The orders of a row: what arrives was in no other place, and leaves timed_buffer.
LEMMA ArrivingFacts ==
  ASSUME ExchangeInv, Once(timed_buffer, Alive), OnePlaceInv, NEW obs
  PROVE  /\ IdsOf(Arriving(obs, "BUY")) \cap IdsOf(Arriving(obs, "SELL")) = {}
         /\ \A side \in {"BUY", "SELL"} :
              /\ IdsOf(Arriving(obs, side)) \cap (Booked \cup Reported \cup applied) = {}
              /\ IdsOf(Arriving(obs, side)) \cap IdsOf(FilledOf(Now(obs))) = {}
              /\ \A o \in IdsOf(Arriving(obs, side)) : \E r \in Waiting : r.orderId = o /\ r.state = "NEW"
              /\ \A q \in Waiting :
                   ~IsDue(q.microSecond, obs) /\ q.state \in Alive => q.orderId \notin IdsOf(Arriving(obs, side))
         /\ IdsOf(FilledOf(Now(obs))) \cap (Booked \cup Reported \cup applied) = {}
         /\ \A q \in Waiting :
              ~IsDue(q.microSecond, obs) /\ q.state \in Alive => q.orderId \notin IdsOf(FilledOf(Now(obs)))
         /\ \A o \in IdsOf(FilledOf(Now(obs))) : \E r \in Waiting : r.orderId = o
<1>1. \A q : q \in Now(obs) <=> q \in Waiting /\ IsDue(q.microSecond, obs)
  BY NowIsDue DEF ExchangeInv
<1>2. \A p, q \in Waiting : p.state \in Alive /\ q.state \in Alive /\ p.orderId = q.orderId => p = q
  BY DEF Once, Waiting, Held
<1>3. \A q \in Waiting : q.state \in Alive => q.orderId \notin Booked \cup Reported \cup applied
  BY DEF OnePlaceInv
<1>4. \A side, r : r \in Arriving(obs, side) =>
         r \in Waiting /\ r.side = side /\ r.state = "NEW" /\ IsDue(r.microSecond, obs)
  BY <1>1 DEF Arriving
<1>5. \A r \in FilledOf(Now(obs)) : r \in Waiting /\ r.state = "FILLED" /\ IsDue(r.microSecond, obs)
  BY <1>1 DEF FilledOf
<1>6. "NEW" \in Alive /\ "FILLED" \in Alive
  BY DEF Alive
<1>7. IdsOf(Arriving(obs, "BUY")) \cap IdsOf(Arriving(obs, "SELL")) = {}
  BY <1>2, <1>4, <1>6 DEF IdsOf
<1>8. ASSUME NEW side \in {"BUY", "SELL"}
      PROVE   /\ IdsOf(Arriving(obs, side)) \cap (Booked \cup Reported \cup applied) = {}
              /\ IdsOf(Arriving(obs, side)) \cap IdsOf(FilledOf(Now(obs))) = {}
              /\ \A o \in IdsOf(Arriving(obs, side)) : \E r \in Waiting : r.orderId = o /\ r.state = "NEW"
              /\ \A q \in Waiting :
                   ~IsDue(q.microSecond, obs) /\ q.state \in Alive => q.orderId \notin IdsOf(Arriving(obs, side))
  <2>1. IdsOf(Arriving(obs, side)) \cap (Booked \cup Reported \cup applied) = {}
    BY <1>3, <1>4, <1>6 DEF IdsOf
  <2>2. IdsOf(Arriving(obs, side)) \cap IdsOf(FilledOf(Now(obs))) = {}
    BY <1>2, <1>4, <1>5, <1>6 DEF IdsOf
  <2>3. \A o \in IdsOf(Arriving(obs, side)) : \E r \in Waiting : r.orderId = o /\ r.state = "NEW"
    BY <1>4 DEF IdsOf
  <2>4. \A q \in Waiting :
          ~IsDue(q.microSecond, obs) /\ q.state \in Alive => q.orderId \notin IdsOf(Arriving(obs, side))
    BY <1>2, <1>4, <1>6 DEF IdsOf
  <2> QED
    BY <2>1, <2>2, <2>3, <2>4
<1>9. IdsOf(FilledOf(Now(obs))) \cap (Booked \cup Reported \cup applied) = {}
  BY <1>3, <1>5, <1>6 DEF IdsOf
<1>10. \A q \in Waiting :
          ~IsDue(q.microSecond, obs) /\ q.state \in Alive => q.orderId \notin IdsOf(FilledOf(Now(obs)))
  BY <1>2, <1>5, <1>6 DEF IdsOf
<1>11. \A o \in IdsOf(FilledOf(Now(obs))) : \E r \in Waiting : r.orderId = o
  BY <1>5 DEF IdsOf
<1> QED
  BY <1>7, <1>8, <1>9, <1>10, <1>11

\* Orders that arrive, are filled or are reported go from one place to another.
LEMMA ExecuteMoves ==
  ASSUME ExchangeInv, FateInv, executions = <<>>, NEW obs, Execute(obs),
         UNCHANGED <<applied, order_id>>, pc' = "fills"
  PROVE  FateInv'
<1> DEFINE bids == Taken(bid_quotes, obs, "BUY")
           asks == Taken(ask_quotes, obs, "SELL")
           bids_crossed == {r \in Range(bids) : r.price > obs.bid}
           asks_crossed == {r \in Range(asks) : r.price < obs.ask}
           bids_filled == {Fill(q) : q \in bids_crossed}
           asks_filled == {Fill(q) : q \in asks_crossed}
           later == Restrict(timed_buffer, DOMAIN timed_buffer \ DueTimes(obs))
           buys == IdsOf(Arriving(obs, "BUY"))
           sells == IdsOf(Arriving(obs, "SELL"))
           told == IdsOf(FilledOf(Now(obs)))
<1>1. /\ IsBook(bid_quotes) /\ IsBook(ask_quotes) /\ IsBuffer(timed_buffer)
      /\ Waiting = Held(timed_buffer) /\ order_id \in Nat
  BY DEF ExchangeInv, Waiting, Held
<1>2. /\ timed_buffer' = AddAll(later, bids_filled, asks_filled)
      /\ bid_quotes' = Without(bids, bids_filled)
      /\ ask_quotes' = Without(asks, asks_filled)
  BY DEF Execute, Taken, Acked, Gone, Now, DueTimes, Fill
<1>3. /\ IsBook(bid_quotes') /\ bids_filled \in SUBSET Orders /\ Distinct(bids_filled)
      /\ \A q \in bids_filled : q.state = "FILLED"
      /\ DOMAIN bid_quotes' \cup IdsOf(bids_filled) \subseteq DOMAIN bid_quotes \cup buys
      /\ DOMAIN bid_quotes' \cap IdsOf(bids_filled) = {}
      /\ \A q \in Range(bid_quotes') : q \in Range(bid_quotes) \/ q.orderId \in buys
  <2>1. bids_crossed \in SUBSET Range(Taken(bid_quotes, obs, "BUY"))
    OBVIOUS
  <2> HIDE DEF bids_crossed
  <2>2. bids_filled = {Fill(q) : q \in bids_crossed}
    OBVIOUS
  <2>3. bid_quotes' = Without(Taken(bid_quotes, obs, "BUY"), bids_filled)
    BY <1>2
  <2> HIDE DEF bids_filled
  <2>4. SideMoved(bid_quotes, bid_quotes', bids_filled, IdsOf(Arriving(obs, "BUY")))
    BY <1>1, <2>1, <2>2, <2>3, SideMoves
  <2> QED
    BY <2>4 DEF SideMoved
<1>4. /\ IsBook(ask_quotes') /\ asks_filled \in SUBSET Orders /\ Distinct(asks_filled)
      /\ \A q \in asks_filled : q.state = "FILLED"
      /\ DOMAIN ask_quotes' \cup IdsOf(asks_filled) \subseteq DOMAIN ask_quotes \cup sells
      /\ DOMAIN ask_quotes' \cap IdsOf(asks_filled) = {}
      /\ \A q \in Range(ask_quotes') : q \in Range(ask_quotes) \/ q.orderId \in sells
  <2>1. asks_crossed \in SUBSET Range(Taken(ask_quotes, obs, "SELL"))
    OBVIOUS
  <2> HIDE DEF asks_crossed
  <2>2. asks_filled = {Fill(q) : q \in asks_crossed}
    OBVIOUS
  <2>3. ask_quotes' = Without(Taken(ask_quotes, obs, "SELL"), asks_filled)
    BY <1>2
  <2> HIDE DEF asks_filled
  <2>4. SideMoved(ask_quotes, ask_quotes', asks_filled, IdsOf(Arriving(obs, "SELL")))
    BY <1>1, <2>1, <2>2, <2>3, SideMoves
  <2> QED
    BY <2>4 DEF SideMoved
<1> HIDE DEF bids_filled, asks_filled, bids, asks, bids_crossed, asks_crossed
<1>5. /\ Once(timed_buffer, Alive) /\ Once(timed_buffer, Dead) /\ OnePlaceInv /\ CancelInv /\ OldInv
      /\ DOMAIN bid_quotes \cap DOMAIN ask_quotes = {}
  BY DEF FateInv, PlacesInv
<1>6. /\ buys \cap sells = {}
      /\ (buys \cup sells) \cap (Booked \cup Reported \cup applied \cup told) = {}
      /\ \A o \in buys \cup sells : \E r \in Waiting : r.orderId = o /\ r.state = "NEW"
      /\ \A q \in Waiting :
           ~IsDue(q.microSecond, obs) /\ q.state \in Alive => q.orderId \notin buys \cup sells
      /\ told \cap (Booked \cup Reported \cup applied) = {}
      /\ \A q \in Waiting :
           ~IsDue(q.microSecond, obs) /\ q.state \in Alive => q.orderId \notin told
      /\ \A o \in told : \E r \in Waiting : r.orderId = o
  BY <1>5, ArrivingFacts
<1> HIDE DEF buys, sells, told
<1>7. /\ IsBuffer(later) /\ Once(later, Alive) /\ Once(later, Dead)
      /\ \A q : q \in Held(later) => q \in Waiting /\ ~IsDue(q.microSecond, obs)
  <2>1. IsBuffer(later)
    BY <1>1 DEF IsBuffer, Restrict
  <2>2. DOMAIN later = DOMAIN timed_buffer \ DueTimes(obs) /\ \A t \in DOMAIN later : later[t] = timed_buffer[t]
    BY DEF Restrict
  <2> HIDE DEF later
  <2>3. \A q : q \in Held(later) => q \in Waiting /\ ~IsDue(q.microSecond, obs)
    BY <1>1, <2>2 DEF Held, DueTimes, IsBuffer
  <2>4. ASSUME NEW st, Once(timed_buffer, st) PROVE Once(later, st)
    <3>1. \A t \in DOMAIN later : OnceIn(later[t], st)
      BY <2>2, <2>4 DEF Once
    <3>2. \A q \in Held(later) : q \in Held(timed_buffer)
      BY <1>1, <2>3
    <3> QED
      BY <2>4, <3>1, <3>2 DEF Once
  <2> QED
    BY <1>5, <2>1, <2>3, <2>4
<1> HIDE DEF later
<1> DEFINE filledIds == IdsOf(bids_filled) \cup IdsOf(asks_filled)
<1>8. /\ filledIds \subseteq Booked \cup buys \cup sells
      /\ Booked' \subseteq Booked \cup buys \cup sells
      /\ IdsOf(bids_filled) \cap IdsOf(asks_filled) = {}
      /\ Booked' \cap filledIds = {}
      /\ DOMAIN bid_quotes' \cap DOMAIN ask_quotes' = {}
  BY <1>3, <1>4, <1>5, <1>6 DEF Booked
<1>9. \A q \in Waiting : q.state \in Alive => q.orderId \notin Booked \cup Reported \cup applied
  BY <1>5 DEF OnePlaceInv
<1>10. \A p \in bids_filled \cup asks_filled, q \in Held(later) :
          p.state \in Alive /\ q.state \in Alive => p.orderId # q.orderId
  <2>1. \A p \in bids_filled \cup asks_filled : p.orderId \in filledIds
    BY DEF IdsOf
  <2> HIDE DEF filledIds
  <2> QED
    BY <1>6, <1>7, <1>8, <1>9, <2>1
<1>11. \A p \in bids_filled, q \in asks_filled : p.orderId # q.orderId
  BY <1>8 DEF IdsOf
<1>12. Once(timed_buffer', Alive) /\ Once(timed_buffer', Dead)
  <2>1. Once(timed_buffer', Alive)
    BY <1>2, <1>3, <1>4, <1>7, <1>10, <1>11, OnceAdded
  <2>2. \A p \in bids_filled \cup asks_filled, q \in Held(later) :
          p.state \in Dead /\ q.state \in Dead => p.orderId # q.orderId
    BY <1>3, <1>4 DEF Dead
  <2>3. Once(timed_buffer', Dead)
    BY <1>2, <1>3, <1>4, <1>7, <1>11, <2>2, OnceAdded
  <2> QED
    BY <2>1, <2>3
<1>13. Waiting' = Held(later) \cup bids_filled \cup asks_filled
  <2>1. Waiting' = Held(timed_buffer')
    BY DEF Waiting, Held
  <2> QED
    BY <1>2, <1>3, <1>4, <1>7, <2>1, AddAllFacts
<1>14. Fresh(executions', FilledOf(Now(obs)))
  BY <1>5, ExecuteReportsFresh
<1>15. Reported' \subseteq told
  BY <1>14 DEF Fresh, Reported, IdsOf, Range, told
<1>16. PlacesInv'
  BY <1>8, <1>12, <1>14 DEF PlacesInv, Fresh
<1>17. ASSUME NEW q \in Waiting' PROVE q \in Held(later) \/ (q.state = "FILLED" /\ q.orderId \in filledIds)
  BY <1>3, <1>4, <1>13 DEF IdsOf
<1> HIDE DEF filledIds
<1>18. Booked \cap applied = {} /\ Reported = {}
  BY <1>5 DEF OnePlaceInv, Reported, Range
<1>19. OnePlaceInv'
  <2>1. ASSUME NEW q \in Waiting', q.state \in Alive
        PROVE  q.orderId \notin Booked' \cup Reported' \cup applied
    <3>1. CASE q \in Held(later)
      BY <1>6, <1>7, <1>8, <1>9, <1>15, <2>1, <3>1
    <3>2. CASE q.orderId \in filledIds
      BY <1>6, <1>8, <1>15, <1>18, <3>2
    <3> QED
      BY <1>17, <3>1, <3>2
  <2>2. Booked' \cap (Reported' \cup applied) = {} /\ Reported' \cap applied = {}
    BY <1>6, <1>8, <1>15, <1>18
  <2> QED
    BY <2>1, <2>2 DEF OnePlaceInv
<1>20. CancelInv'
  <2> SUFFICES ASSUME NEW q \in Waiting', q.state = "CANCELLED"
               PROVE  /\ \A r \in Waiting' : r.orderId = q.orderId => r.state # "NEW"
                      /\ \A r \in Resting' : r.orderId = q.orderId => r.state = "CANCELLED"
    BY DEF CancelInv
  <2>1. /\ q \in Waiting
        /\ \A r \in Waiting : r.orderId = q.orderId => r.state # "NEW"
        /\ \A r \in Resting : r.orderId = q.orderId => r.state = "CANCELLED"
    BY <1>5, <1>7, <1>17 DEF CancelInv
  <2>2. ASSUME NEW r \in Waiting', r.orderId = q.orderId PROVE r.state # "NEW"
    BY <1>7, <1>17, <2>1, <2>2
  <2>3. ASSUME NEW r \in Resting', r.orderId = q.orderId PROVE r.state = "CANCELLED"
    <3>1. r \in Resting \/ r.orderId \in buys \cup sells
      BY <1>3, <1>4 DEF Resting
    <3> QED
      BY <1>6, <2>1, <2>3, <3>1
  <2> QED
    BY <2>2, <2>3
<1>21. OldInv'
  <2>1. /\ \A q \in Waiting : q.orderId <= order_id
        /\ \A o \in Booked \cup Reported \cup applied : o \in Nat /\ o <= order_id
    BY <1>5 DEF OldInv
  <2>2. \A q \in Waiting : q.orderId \in Nat
    BY <1>1, WaitingOrders DEF Orders
  <2>3. \A o \in buys \cup sells \cup told : o \in Nat /\ o <= order_id
    BY <1>6, <2>1, <2>2
  <2>4. \A q \in Waiting' : q.orderId <= order_id
    BY <1>7, <1>8, <1>17, <2>1, <2>3
  <2>5. \A o \in Booked' \cup Reported' \cup applied : o \in Nat /\ o <= order_id
    BY <1>8, <1>15, <2>1, <2>3
  <2> QED
    BY <2>4, <2>5 DEF OldInv
<1> QED
  BY <1>16, <1>19, <1>20, <1>21 DEF FateInv

LEMMA CancelIds ==
  ASSUME NEW quotes, IsBook(quotes)
  PROVE  /\ DOMAIN cancel(quotes) = DOMAIN quotes
         /\ \A q \in cancels(quotes) :
              \E p \in Range(quotes) : p.state # "CANCELLED" /\ p.orderId = q.orderId
<1>1. DOMAIN cancel(quotes) = DOMAIN quotes
  BY DEF cancel
<1>2. ASSUME NEW q \in cancels(quotes)
      PROVE  \E p \in Range(quotes) : p.state # "CANCELLED" /\ p.orderId = q.orderId
  <2>1. PICK p \in Range(quotes) : p.state # "CANCELLED" /\ q = Cancelled(p)
    BY DEF cancels, Cancellable
  <2>2. p \in Orders
    BY BookFacts
  <2>3. q.orderId = p.orderId
    BY <2>1, <2>2 DEF Cancelled, Orders
  <2> QED
    BY <2>1, <2>3
<1> QED
  BY <1>1, <1>2

\* A step sends a cancel for each quote that has none, and quotes with new ids.
LEMMA StepMoves ==
  ASSUME ExchangeInv, FateInv, executions = <<>>,
         NEW bids \in SUBSET Orders, Distinct(bids), NEW asks \in SUBSET Orders, Distinct(asks),
         \A p \in bids, q \in asks : p.orderId # q.orderId,
         \A q \in bids \cup asks :
           q.state = "NEW" /\ q.orderId > order_id /\ q.orderId <= order_id',
         CancelAndQuote(bids, asks), applied' = applied, order_id' \in Nat, order_id' >= order_id
  PROVE  FateInv'
<1> DEFINE cb == cancels(bid_quotes)
           ca == cancels(ask_quotes)
           middle == AddAll(timed_buffer, cb, ca)
<1>1. /\ IsBook(bid_quotes) /\ IsBook(ask_quotes) /\ IsBuffer(timed_buffer)
      /\ market.id \in Nat /\ Waiting = Held(timed_buffer) /\ order_id \in Nat
  BY DEF ExchangeInv, Waiting, Held
<1>2. /\ bid_quotes' = cancel(bid_quotes) /\ ask_quotes' = cancel(ask_quotes)
      /\ timed_buffer' = AddAll(middle, bids, asks)
      /\ executions' = executions
  BY DEF CancelAndQuote
<1>3. /\ Once(timed_buffer, Alive) /\ Once(timed_buffer, Dead)
      /\ DOMAIN bid_quotes \cap DOMAIN ask_quotes = {}
      /\ \A q \in Waiting : q.state \in Alive => q.orderId \notin Booked \cup Reported \cup applied
      /\ Booked \cap (Reported \cup applied) = {} /\ Reported \cap applied = {}
      /\ \A q \in Waiting : q.state = "CANCELLED" =>
           /\ \A r \in Waiting : r.orderId = q.orderId => r.state # "NEW"
           /\ \A r \in Resting : r.orderId = q.orderId => r.state = "CANCELLED"
      /\ \A q \in Waiting : q.orderId <= order_id
      /\ \A o \in Booked \cup Reported \cup applied : o \in Nat /\ o <= order_id
  BY DEF FateInv, PlacesInv, OnePlaceInv, CancelInv, OldInv
<1>4. /\ Booked' = Booked /\ Reported' = Reported
      /\ DOMAIN bid_quotes' \cap DOMAIN ask_quotes' = {}
  BY <1>1, <1>2, <1>3, CancelIds DEF Booked, Reported
<1>5. /\ cb \in SUBSET Orders /\ Distinct(cb) /\ ca \in SUBSET Orders /\ Distinct(ca)
      /\ \A q \in cb \cup ca : q.state = "CANCELLED"
      /\ \A q \in Range(bid_quotes') \cup Range(ask_quotes') : q.state = "CANCELLED"
  <2>1. /\ cb \in SUBSET Orders /\ Distinct(cb) /\ \A q \in cb : q.state = "CANCELLED"
        /\ \A q \in Range(bid_quotes') : q.state = "CANCELLED"
    BY <1>1, <1>2, CancelFacts
  <2>2. /\ ca \in SUBSET Orders /\ Distinct(ca) /\ \A q \in ca : q.state = "CANCELLED"
        /\ \A q \in Range(ask_quotes') : q.state = "CANCELLED"
    BY <1>1, <1>2, CancelFacts
  <2> QED
    BY <2>1, <2>2
<1>6. /\ \A q \in cb : q.orderId \in DOMAIN bid_quotes
      /\ \A q \in ca : q.orderId \in DOMAIN ask_quotes
      /\ \A q \in cb \cup ca : \E p \in Resting : p.state # "CANCELLED" /\ p.orderId = q.orderId
  BY <1>1, CancelIds, BookFacts DEF Resting
<1> HIDE DEF cb, ca
<1>7. IsBuffer(middle) /\ Held(middle) = Waiting \cup cb \cup ca
  BY <1>1, <1>5, AddAllFacts
<1>8. \A p \in cb, q \in ca : p.orderId # q.orderId
  BY <1>3, <1>6
<1>9. Once(middle, Alive) /\ Once(middle, Dead)
  <2>1. \A p \in cb \cup ca, q \in Held(timed_buffer) :
          p.state \in Alive /\ q.state \in Alive => p.orderId # q.orderId
    BY <1>5 DEF Alive
  <2>2. \A p \in cb \cup ca, q \in Held(timed_buffer) :
          p.state \in Dead /\ q.state \in Dead => p.orderId # q.orderId
    BY <1>1, <1>3, <1>6 DEF Dead
  <2>3. Once(middle, Alive)
    BY <1>1, <1>3, <1>5, <1>8, <2>1, OnceAdded
  <2>4. Once(middle, Dead)
    BY <1>1, <1>3, <1>5, <1>8, <2>2, OnceAdded
  <2> QED
    BY <2>3, <2>4
<1> HIDE DEF middle
<1>10. \A q \in cb \cup ca : q.orderId \in Booked
  BY <1>6 DEF Booked
<1>11. ASSUME NEW q \in Held(middle) PROVE q.orderId \in Nat /\ q.orderId <= order_id
  <2>1. q \in Orders
    BY <1>1, <1>5, <1>7, WaitingOrders
  <2>2. q.orderId \in Nat
    BY <2>1 DEF Orders
  <2> QED
    BY <1>3, <1>7, <1>10, <2>2
<1>12. ASSUME NEW q \in bids \cup asks PROVE q.orderId \in Nat
  BY DEF Orders
<1>13. ASSUME NEW p \in bids \cup asks, NEW q \in Held(middle) PROVE p.orderId # q.orderId
  BY <1>1, <1>11, <1>12
<1>14. Once(timed_buffer', Alive) /\ Once(timed_buffer', Dead)
  <2>1. Once(timed_buffer', Alive)
    BY <1>2, <1>7, <1>9, <1>13, OnceAdded
  <2>2. Once(timed_buffer', Dead)
    BY <1>2, <1>7, <1>9, <1>13, OnceAdded
  <2> QED
    BY <2>1, <2>2
<1>15. Waiting' = Waiting \cup cb \cup ca \cup bids \cup asks
  <2>1. Waiting' = Held(timed_buffer')
    BY DEF Waiting, Held
  <2> QED
    BY <1>2, <1>7, <2>1, AddAllFacts
<1>16. PlacesInv'
  <2>1. executions' = <<>>
    BY <1>2
  <2>2. \A j, k \in DOMAIN executions' : executions'[j].orderId = executions'[k].orderId => j = k
    BY <2>1
  <2> QED
    BY <1>4, <1>14, <2>1, <2>2 DEF PlacesInv
<1>17. ASSUME NEW q \in bids \cup asks, NEW o \in Booked \cup Reported \cup applied PROVE q.orderId # o
  BY <1>1, <1>3, <1>12
<1>18. OnePlaceInv'
  <2>1. ASSUME NEW q \in Waiting', q.state \in Alive
        PROVE  q.orderId \notin Booked \cup Reported \cup applied
    <3>1. q \notin cb \cup ca
      BY <1>5, <2>1 DEF Alive
    <3> QED
      BY <1>3, <1>15, <1>17, <2>1, <3>1
  <2> QED
    BY <1>3, <1>4, <2>1 DEF OnePlaceInv
<1>19. CancelInv'
  <2> SUFFICES ASSUME NEW q \in Waiting', q.state = "CANCELLED"
               PROVE  /\ \A r \in Waiting' : r.orderId = q.orderId => r.state # "NEW"
                      /\ \A r \in Resting' : r.orderId = q.orderId => r.state = "CANCELLED"
    BY DEF CancelInv
  <2>1. \A r \in Resting' : r.state = "CANCELLED"
    BY <1>5 DEF Resting
  <2>2. q \in Held(middle)
    BY <1>7, <1>15
  <2>3. ASSUME NEW r \in Waiting', r.orderId = q.orderId, r.state = "NEW" PROVE FALSE
    <3>1. r \in Waiting
      BY <1>5, <1>13, <1>15, <2>2, <2>3
    <3>2. q \in cb \cup ca
      BY <1>3, <1>7, <2>2, <2>3, <3>1
    <3> QED
      BY <1>3, <1>10, <2>3, <3>1, <3>2 DEF Alive
  <2> QED
    BY <2>1, <2>3
<1>20. OldInv'
  <2>1. ASSUME NEW q \in Waiting' PROVE q.orderId <= order_id'
    <3>1. CASE q \in Held(middle)
      BY <1>1, <1>11, <3>1
    <3>2. CASE q \in bids \cup asks
      BY <3>2
    <3> QED
      BY <1>7, <1>15, <3>1, <3>2
  <2>2. ASSUME NEW o \in Booked \cup Reported \cup applied PROVE o \in Nat /\ o <= order_id'
    <3>1. o \in Nat /\ o <= order_id
      BY <1>3
    <3> QED
      BY <1>1, <3>1
  <2> QED
    BY <1>4, <2>1, <2>2 DEF OldInv
<1> QED
  BY <1>16, <1>18, <1>19, <1>20 DEF FateInv

-----------------------------------------------------------------------------
(* The env, and one fate *)

LEMMA NoOrdersFate ==
  ASSUME timed_buffer = NoOrders, bid_quotes = NoOrders, ask_quotes = NoOrders,
         executions = <<>>, applied = {}
  PROVE  FateInv
<1>1. /\ Waiting = {} /\ Held(timed_buffer) = {} /\ Booked = {} /\ Reported = {}
      /\ DOMAIN timed_buffer = {} /\ DOMAIN bid_quotes = {} /\ DOMAIN ask_quotes = {}
      /\ DOMAIN executions = {}
  BY EmptyBook DEF Waiting, Held, Booked, Reported, Range
<1>2. PlacesInv
  BY <1>1 DEF PlacesInv, Once
<1>3. OnePlaceInv /\ CancelInv /\ OldInv
  BY <1>1 DEF OnePlaceInv, CancelInv, OldInv
<1> QED
  BY <1>2, <1>3 DEF FateInv

\* The same of the next state.
LEMMA ClearedFate ==
  ASSUME ClearBook, applied' = {}
  PROVE  FateInv'
<1>1. /\ Waiting' = {} /\ Held(timed_buffer') = {} /\ Booked' = {} /\ Reported' = {}
      /\ DOMAIN timed_buffer' = {} /\ DOMAIN bid_quotes' = {} /\ DOMAIN ask_quotes' = {}
      /\ executions' = <<>> /\ DOMAIN executions' = {}
  BY EmptyBook DEF ClearBook, Waiting, Held, Booked, Reported, Range
<1>2. PlacesInv'
  BY <1>1 DEF PlacesInv, Once
<1>3. OnePlaceInv' /\ CancelInv' /\ OldInv'
  BY <1>1 DEF OnePlaceInv, CancelInv, OldInv
<1> QED
  BY <1>2, <1>3 DEF FateInv

\* What the position takes was reported.
LEMMA FillsMoves ==
  ASSUME FateInv, Fills
  PROVE  FateInv'
<1>1. /\ UNCHANGED <<bid_quotes, ask_quotes, timed_buffer, order_id>>
      /\ executions' = <<>> /\ applied' = applied \cup Reported
  BY DEF Fills, getFills, Reported
<1>2. /\ Waiting' = Waiting /\ Resting' = Resting /\ Booked' = Booked /\ Reported' = {}
      /\ DOMAIN executions' = {}
  BY <1>1 DEF Waiting, Resting, Booked, Reported, Range
<1>3. PlacesInv'
  BY <1>1, <1>2 DEF FateInv, PlacesInv
<1>4. OnePlaceInv'
  BY <1>1, <1>2 DEF FateInv, OnePlaceInv
<1>5. CancelInv'
  BY <1>2 DEF FateInv, CancelInv
<1>6. OldInv'
  BY <1>1, <1>2 DEF FateInv, OldInv
<1> QED
  BY <1>3, <1>4, <1>5, <1>6 DEF FateInv

LEMMA SameFate ==
  ASSUME FateInv, UNCHANGED <<bookVars, applied, order_id>>, executions = <<>> \/ pc' = pc
  PROVE  FateInv'
<1>1. UNCHANGED <<Waiting, Resting, Booked, Reported, executions, timed_buffer, bid_quotes, ask_quotes>>
  BY DEF bookVars, Waiting, Resting, Booked, Reported
<1>2. PlacesInv'
  BY <1>1 DEF FateInv, PlacesInv
<1>3. OnePlaceInv' /\ CancelInv'
  BY <1>1 DEF FateInv, OnePlaceInv, CancelInv
<1>4. OldInv'
  BY <1>1 DEF FateInv, OldInv
<1> QED
  BY <1>2, <1>3, <1>4 DEF FateInv

\* Where the orders are, in every reachable state.
THEOREM FateInvariance == Spec => []FateInv
<1>1. Init => FateInv
  BY NoOrdersFate DEF Init
<1>2. IInv /\ FateInv /\ [Next]_vars => FateInv'
  <2> SUFFICES ASSUME IInv, FateInv, [Next]_vars PROVE FateInv'
    OBVIOUS
  <2>1. ExchangeInv /\ (pc # "fills" => executions = <<>>)
    BY DEF IInv, FateInv, PlacesInv
  <2>2. CASE Reset
    BY <2>2, ClearedFate DEF Reset, ResetExchange
  <2>3. CASE Step
    <3>1. PICK bids, asks : IsQuotes(bids, asks)
      BY <2>1, <2>3, StepQuotes
    <3>2. executions = <<>> /\ applied' = applied
      BY <2>1, <2>3 DEF Step
    <3> QED
      BY <2>1, <3>1, <3>2, StepMoves DEF IsQuotes
  <2>4. CASE Read
    <3>1. executions = <<>> /\ UNCHANGED <<applied, order_id>>
      BY <2>1, <2>4 DEF Read, strategyVars
    <3>2. CASE HasNext
      <4>1. pc' = "fills"
        BY <2>4, <3>2 DEF Read
      <4>2. PICK obs : Execute(obs)
        BY <2>4, <3>2 DEF Read, next_read
      <4> QED
        BY <2>1, <3>1, <4>1, <4>2, ExecuteMoves
    <3>3. CASE ~HasNext
      <4>1. UNCHANGED bookVars
        BY <2>4, <3>3 DEF Read, next_read
      <4> QED
        BY <3>1, <4>1, SameFate
    <3> QED
      BY <3>2, <3>3
  <2>5. CASE Fills
    BY <2>5, FillsMoves
  <2>6. CASE UNCHANGED vars
    BY <2>6, SameFate DEF vars, exchangeVars, strategyVars, envVars
  <2> QED
    BY <2>2, <2>3, <2>4, <2>5, <2>6 DEF Next
<1> QED
  BY <1>1, <1>2, Invariance, PTL DEF Spec

LEMMA AtMostOne ==
  ASSUME NEW S, \A x, y \in S : x = y
  PROVE  Cardinality(S) = IF S = {} THEN 0 ELSE 1
<1>1. CASE S = {}
  BY <1>1, FS_EmptySet
<1>2. CASE S # {}
  <2>1. PICK x \in S : S = {x}
    BY <1>2
  <2> QED
    BY <2>1, FS_Singleton
<1> QED
  BY <1>1, <1>2

\* An order that waits does so in one place of the buffer.
LEMMA WaitsOnce ==
  ASSUME IsBuffer(timed_buffer), NEW st, Once(timed_buffer, st), NEW o
  PROVE  /\ WaitingCount(o, st) \in {0, 1}
         /\ WaitingCount(o, st) # 0 => \E q \in Waiting : q.orderId = o /\ q.state \in st
<1> DEFINE at(t) == {<<t, k>> : k \in {j \in DOMAIN timed_buffer[t] : IsOf(timed_buffer[t][j], o, st)}}
           places == UNION {at(t) : t \in DOMAIN timed_buffer}
           IsAt(x, t, k) ==
             /\ x = <<t, k>>
             /\ timed_buffer[t][k].orderId = o /\ timed_buffer[t][k].state \in st
             /\ timed_buffer[t][k] \in Held(timed_buffer) /\ timed_buffer[t][k] \in Waiting
             /\ timed_buffer[t][k].microSecond = t
<1>1. ASSUME NEW x \in places
      PROVE  \E t \in DOMAIN timed_buffer : \E k \in DOMAIN timed_buffer[t] : IsAt(x, t, k)
  <2>1. PICK t \in DOMAIN timed_buffer : x \in at(t)
    OBVIOUS
  <2>2. PICK k \in DOMAIN timed_buffer[t] : x = <<t, k>> /\ IsOf(timed_buffer[t][k], o, st)
    BY <2>1
  <2>3. timed_buffer[t][k] \in Range(timed_buffer[t])
    BY DEF Range
  <2>4. timed_buffer[t][k] \in Held(timed_buffer) /\ timed_buffer[t][k] \in Waiting
    BY <2>3 DEF Held, Waiting
  <2>5. timed_buffer[t][k].microSecond = t
    BY <2>3 DEF IsBuffer
  <2> QED
    BY <2>2, <2>4, <2>5 DEF IsOf
<1>2. WaitingCount(o, st) = Cardinality(places)
  BY DEF WaitingCount
<1> HIDE DEF places
<1>3. ASSUME NEW x \in places, NEW y \in places PROVE x = y
  <2>1. PICK t \in DOMAIN timed_buffer : \E k \in DOMAIN timed_buffer[t] : IsAt(x, t, k)
    BY <1>1
  <2>2. PICK k \in DOMAIN timed_buffer[t] : IsAt(x, t, k)
    BY <2>1
  <2>3. PICK u \in DOMAIN timed_buffer : \E l \in DOMAIN timed_buffer[u] : IsAt(y, u, l)
    BY <1>1
  <2>4. PICK l \in DOMAIN timed_buffer[u] : IsAt(y, u, l)
    BY <2>3
  <2>5. timed_buffer[t][k] = timed_buffer[u][l]
    BY <2>2, <2>4 DEF Once
  <2>6. t = u
    BY <2>2, <2>4, <2>5
  <2>7. OnceIn(timed_buffer[t], st)
    BY DEF Once
  <2>8. k = l
    BY <2>2, <2>4, <2>6, <2>7 DEF OnceIn
  <2> QED
    BY <2>2, <2>4, <2>6, <2>8
<1>4. Cardinality(places) = IF places = {} THEN 0 ELSE 1
  BY <1>3, AtMostOne
<1>5. places # {} => \E q \in Waiting : q.orderId = o /\ q.state \in st
  BY <1>1
<1> QED
  BY <1>2, <1>4, <1>5

\* An order is in one place at a time, and not filled twice: sim_exchange.cc,
\* lines 137-278, with strategy.cc.
THEOREM OneFateCorrect == Spec => []OneFate
<1>1. IInv /\ FateInv => OneFate
  <2> SUFFICES ASSUME IInv, FateInv, NEW o \in 1 .. order_id
      PROVE  /\ WaitingCount(o, {"NEW", "FILLED"}) + Cardinality({q \in Resting : q.orderId = o})
                  + Count(executions, o, {"FILLED"}) + (IF o \in applied THEN 1 ELSE 0) <= 1
             /\ WaitingCount(o, {"CANCELLED"}) <= 1
    BY DEF OneFate
  <2> DEFINE waiting == WaitingCount(o, {"NEW", "FILLED"})
             resting == {q \in Resting : q.orderId = o}
             told == {k \in DOMAIN executions : IsOf(executions[k], o, {"FILLED"})}
  <2>1. /\ IsBook(bid_quotes) /\ IsBook(ask_quotes) /\ IsBuffer(timed_buffer)
        /\ PlacesInv /\ OnePlaceInv
    BY DEF IInv, ExchangeInv, FateInv
  <2>2. /\ waiting \in {0, 1}
        /\ waiting # 0 => \E q \in Waiting : q.orderId = o /\ q.state \in Alive
        /\ WaitingCount(o, {"CANCELLED"}) \in {0, 1}
    BY <2>1, WaitsOnce DEF PlacesInv, Alive, Dead
  <2>3. Cardinality(resting) = (IF resting = {} THEN 0 ELSE 1) /\ (resting # {} => o \in Booked)
    <3>1. ASSUME NEW q \in resting
          PROVE  \/ o \in DOMAIN bid_quotes /\ q = bid_quotes[o]
                 \/ o \in DOMAIN ask_quotes /\ q = ask_quotes[o]
      BY <2>1, BookFacts DEF Resting
    <3>2. \A p, q \in resting : p = q
      BY <2>1, <3>1 DEF PlacesInv
    <3> HIDE DEF resting
    <3>3. Cardinality(resting) = (IF resting = {} THEN 0 ELSE 1)
      BY <3>2, AtMostOne
    <3>4. resting # {} => o \in Booked
      BY <3>1 DEF Booked
    <3> QED
      BY <3>3, <3>4
  <2>4. /\ Count(executions, o, {"FILLED"}) = (IF told = {} THEN 0 ELSE 1)
        /\ told # {} => o \in Reported
    <3>1. \A j, k \in told : j = k
      BY <2>1 DEF PlacesInv, IsOf
    <3>2. told # {} => o \in Reported
      BY DEF Reported, Range, IsOf
    <3>3. Count(executions, o, {"FILLED"}) = Cardinality(told)
      BY DEF Count
    <3> HIDE DEF told
    <3>4. Cardinality(told) = (IF told = {} THEN 0 ELSE 1)
      BY <3>1, AtMostOne
    <3> QED
      BY <3>2, <3>3, <3>4
  <2> HIDE DEF waiting, resting, told
  <2>5. /\ waiting # 0 => o \notin Booked \cup Reported \cup applied
        /\ Booked \cap (Reported \cup applied) = {} /\ Reported \cap applied = {}
    BY <2>1, <2>2 DEF OnePlaceInv
  <2>6. waiting + Cardinality(resting) + Count(executions, o, {"FILLED"})
          + (IF o \in applied THEN 1 ELSE 0) <= 1
    BY <2>2, <2>3, <2>4, <2>5
  <2> QED
    BY <2>2, <2>6 DEF waiting, resting
<1> QED
  BY <1>1, Invariance, FateInvariance, PTL

-----------------------------------------------------------------------------
(* The position and the money *)

\* The divisions of a fill leave no remainder.  In the code they are divisions
\* of doubles; here a remainder would be lost, and with it money.
Exact(pos, order) ==
  LET size == abs(pos.netAmount)
  IN  /\ pos.netAmount * sign(order.side) > 0 =>
           averageAfter(pos, order) * (order.amount + size) =
             order.amount * order.price + size * pos.averagePrice
      /\ order.side = "BUY" =>
           averaged(pos.average_buy_price, pos.buy_amount, order) * (pos.buy_amount + order.amount) =
             pos.average_buy_price * pos.buy_amount + order.price * order.amount
      /\ order.side = "SELL" =>
           averaged(pos.average_sell_price, pos.sell_amount, order) * (pos.sell_amount + order.amount) =
             pos.average_sell_price * pos.sell_amount + order.price * order.amount

\* So it is for each of the fills that are reported, after those before it.
ExactFills ==
  \A k \in 1 .. Len(executions) :
    Exact(FoldLeft(onFill, position, SubSeq(executions, 1, k - 1)), executions[k])

\* The position says what was paid and received.  An open position has a price,
\* without which a close of it realizes nothing.
Accounts(pos, money) ==
  /\ pos.balance - pos.netAmount * pos.averagePrice = money
  /\ pos.netAmount = pos.buy_amount - pos.sell_amount
  /\ pos.sell_amount * pos.average_sell_price - pos.buy_amount * pos.average_buy_price = money
  /\ pos.netAmount # 0 => pos.averagePrice > 0

\* What is filled has a price: a bid is above the best bid then, an ask was
\* when it arrived.
PriceInv ==
  /\ market.bid \in Nat /\ market.ask \in Nat \ {0}
  /\ \A q \in Waiting : q.state = "FILLED" => q.price > 0
  /\ \A q \in Range(executions) : q.price > 0

AccountInv == cash \in Int /\ Accounts(position, cash) /\ PriceInv

paid(money, order) == money - sign(order.side) * order.amount * order.price

\* Money and the averages: of one side, and of the position when a fill opens
\* it, adds to it, or takes from it.
LEMMA SideAverage ==
  ASSUME NEW amount \in Int, NEW average \in Int, NEW a \in Int, NEW p \in Int, NEW after \in Int,
         after * (amount + a) = average * amount + p * a
  PROVE  (amount + a) * after = amount * average + a * p
OBVIOUS

LEMMA AddedTo ==
  ASSUME NEW b \in Int, NEW n \in Int, NEW v \in Int, NEW a \in Int, NEW p \in Int, NEW w \in Int,
         NEW s \in {1, -1}, w * (a + s * n) = a * p + s * n * v
  PROVE  b - (n + a * s) * w = (b - n * v) - s * a * p
<1>1. CASE s = 1
  BY <1>1
<1>2. CASE s = -1
  <2>1. w * (a - n) = a * p - n * v
    BY <1>2
  <2>2. b - (n - a) * w = b + w * (a - n)
    OBVIOUS
  <2> QED
    BY <1>2, <2>1, <2>2
<1> QED
  BY <1>1, <1>2

LEMMA TakenFrom ==
  ASSUME NEW b \in Int, NEW n \in Int, NEW v \in Int, NEW a \in Int, NEW p \in Int, NEW s \in {1, -1}
  PROVE  /\ (b + (-s * a) * (p - v)) - (n + a * s) * v = (b - n * v) - s * a * p
         /\ (b + n * (p - v)) - (n + a * s) * p = (b - n * v) - s * a * p
         /\ n = -s * a => (b + n * (p - v)) - (n + a * s) * 0 = (b - n * v) - s * a * p
<1>1. CASE s = 1
  BY <1>1
<1>2. CASE s = -1
  BY <1>2
<1> QED
  BY <1>1, <1>2

\* What the position has after a fill.
LEMMA OnFillParts ==
  ASSUME NEW pos \in Positions, NEW order \in Orders
  PROVE  LET after == onFill(pos, order)
             net == pos.netAmount
             closed == IF net * sign(order.side) < 0 THEN closedPart(net, order.amount) ELSE 0
         IN  /\ after.averagePrice = averageAfter(pos, order)
             /\ after.netAmount = net + order.amount * sign(order.side)
             /\ after.balance = pos.balance + pnl(closed, pos.averagePrice, order.price)
             /\ order.side = "BUY" =>
                  /\ after.buy_amount = pos.buy_amount + order.amount
                  /\ after.average_buy_price = averaged(pos.average_buy_price, pos.buy_amount, order)
                  /\ after.sell_amount = pos.sell_amount
                  /\ after.average_sell_price = pos.average_sell_price
             /\ order.side = "SELL" =>
                  /\ after.sell_amount = pos.sell_amount + order.amount
                  /\ after.average_sell_price = averaged(pos.average_sell_price, pos.sell_amount, order)
                  /\ after.buy_amount = pos.buy_amount
                  /\ after.average_buy_price = pos.average_buy_price
<1> DEFINE net == pos.netAmount
           closed == IF net * sign(order.side) < 0 THEN closedPart(net, order.amount) ELSE 0
           trades == tradesAfter(pos, order)
           fields == {"averagePrice", "netAmount", "balance", "totalFee", "buy_amount",
                      "average_buy_price", "sell_amount", "average_sell_price"}
<1>1. DOMAIN pos = fields
  BY DEF Positions
<1>2. /\ DOMAIN trades = fields
      /\ order.side = "BUY" =>
           /\ trades.buy_amount = pos.buy_amount + order.amount
           /\ trades.average_buy_price = averaged(pos.average_buy_price, pos.buy_amount, order)
           /\ trades.sell_amount = pos.sell_amount
           /\ trades.average_sell_price = pos.average_sell_price
      /\ order.side = "SELL" =>
           /\ trades.sell_amount = pos.sell_amount + order.amount
           /\ trades.average_sell_price = averaged(pos.average_sell_price, pos.sell_amount, order)
           /\ trades.buy_amount = pos.buy_amount
           /\ trades.average_buy_price = pos.average_buy_price
  BY <1>1 DEF tradesAfter
<1>3. onFill(pos, order) =
        [trades EXCEPT
           !.averagePrice = averageAfter(pos, order),
           !.netAmount = net + order.amount * sign(order.side),
           !.totalFee = pos.totalFee + fees(order),
           !.balance = pos.balance + pnl(closed, pos.averagePrice, order.price)]
  BY DEF onFill
<1> HIDE DEF trades, closed, net
<1>4. /\ onFill(pos, order).averagePrice = averageAfter(pos, order)
      /\ onFill(pos, order).netAmount = net + order.amount * sign(order.side)
      /\ onFill(pos, order).balance = pos.balance + pnl(closed, pos.averagePrice, order.price)
      /\ onFill(pos, order).buy_amount = trades.buy_amount
      /\ onFill(pos, order).average_buy_price = trades.average_buy_price
      /\ onFill(pos, order).sell_amount = trades.sell_amount
      /\ onFill(pos, order).average_sell_price = trades.average_sell_price
  BY <1>2, <1>3
<1> QED
  BY <1>2, <1>4 DEF closed, net

\* A fill moves as much money in the position as it does outside.
LEMMA OnFillAccounts ==
  ASSUME NEW pos \in Positions, NEW order \in Orders, order.price > 0,
         NEW money \in Int, Accounts(pos, money), Exact(pos, order)
  PROVE  Accounts(onFill(pos, order), paid(money, order))
<1> DEFINE after == onFill(pos, order)
           a == order.amount
           p == order.price
           s == sign(order.side)
           n == pos.netAmount
           v == pos.averagePrice
           w == averageAfter(pos, order)
           b == pos.balance
           size == abs(n)
           closed == IF n * s < 0 THEN closedPart(n, a) ELSE 0
<1>1. /\ v \in Int /\ n \in Int /\ b \in Int /\ a \in Nat \ {0} /\ p \in Int /\ p > 0
      /\ order.side \in {"BUY", "SELL"}
      /\ pos.buy_amount \in Nat /\ pos.average_buy_price \in Int
      /\ pos.sell_amount \in Nat /\ pos.average_sell_price \in Int
  BY DEF Positions, Orders
<1>2. /\ s \in {1, -1} /\ (order.side = "BUY" => s = 1) /\ (order.side = "SELL" => s = -1)
  BY <1>1 DEF sign
<1>3. /\ after \in Positions /\ after.averagePrice = w /\ after.netAmount = n + a * s
      /\ after.balance = b + pnl(closed, v, p)
  BY OnFillType, OnFillParts
<1>4. w \in Int
  BY <1>3 DEF Positions
<1>5. /\ b - n * v = money
      /\ n = pos.buy_amount - pos.sell_amount
      /\ pos.sell_amount * pos.average_sell_price - pos.buy_amount * pos.average_buy_price = money
      /\ n # 0 => v > 0
  BY DEF Accounts
<1>6. paid(money, order) = money - s * a * p
  BY DEF paid
<1>7. n * s > 0 => w * (a + size) = a * p + size * v
  BY DEF Exact
<1>8. /\ w = IF n = 0 THEN p
             ELSE IF n * s > 0 THEN (a * p + size * v) \div (a + size)
             ELSE IF a < size THEN v ELSE IF a = size THEN 0 ELSE p
  BY DEF averageAfter
<1>9. size = (IF n < 0 THEN -n ELSE n) /\ size \in Nat
  BY <1>1 DEF abs
<1> DEFINE gain == pnl(closed, v, p)
<1> HIDE DEF after, w, s, size, a, p, n, v, b, closed, gain
<1>10. /\ (b + gain) - (n + a * s) * w = money - s * a * p
       /\ n + a * s # 0 => w > 0
  <2>1. CASE n = 0
    <3>1. closed = 0 /\ w = p
      BY <1>1, <1>2, <1>8, <2>1 DEF closed
    <3>2. gain = 0
      BY <1>1, <3>1 DEF gain, pnl
    <3>3. w * (a + s * 0) = a * p + s * 0 * v
      BY <1>1, <1>2, <3>1
    <3>4. b - (0 + a * s) * w = (b - 0 * v) - s * a * p
      BY <1>1, <1>2, <1>4, <3>3, AddedTo
    <3> QED
      BY <1>1, <1>5, <2>1, <3>1, <3>2, <3>4
  <2>2. CASE n * s > 0
    <3>1. closed = 0 /\ size = s * n /\ n # 0 /\ size > 0
      BY <1>1, <1>2, <1>9, <2>2 DEF closed
    <3>2. gain = 0
      BY <1>1, <3>1 DEF gain, pnl
    <3>3. w * (a + s * n) = a * p + s * n * v
      BY <1>7, <2>2, <3>1
    <3>4. b - (n + a * s) * w = (b - n * v) - s * a * p
      BY <1>1, <1>2, <1>4, <3>3, AddedTo
    <3>5. w > 0
      <4>1. v > 0 /\ a > 0
        BY <1>1, <1>5, <3>1
      <4>2. a * p > 0 /\ size * v > 0
        BY <1>1, <1>9, <3>1, <4>1
      <4>3. w * (a + size) > 0
        BY <1>1, <1>4, <1>7, <1>9, <2>2, <4>2
      <4> QED
        BY <1>1, <1>4, <1>9, <4>3
    <3> QED
      BY <1>1, <1>4, <1>5, <3>2, <3>4, <3>5
  <2>3. CASE n * s < 0
    <3>1. closed = closedPart(n, a) /\ n # 0 /\ v > 0 /\ ~(n * s > 0) /\ size = -s * n
      BY <1>1, <1>2, <1>5, <1>9, <2>3 DEF closed
    <3>2. gain = closed * (p - v)
      BY <1>1, <3>1 DEF gain, pnl
    <3>3. closed = IF a >= size THEN n ELSE -s * a
      BY <1>1, <1>2, <1>9, <2>3, <3>1 DEF closedPart, size, n
    <3>4. CASE a < size
      <4>1. closed = -s * a /\ w = v
        BY <1>1, <1>8, <1>9, <3>1, <3>3, <3>4
      <4>2. (b + (-s * a) * (p - v)) - (n + a * s) * v = (b - n * v) - s * a * p
        BY <1>1, <1>2, TakenFrom
      <4> QED
        BY <1>5, <3>1, <3>2, <4>1, <4>2
    <3>5. CASE a = size
      <4>1. closed = n /\ w = 0 /\ n = -s * a
        BY <1>1, <1>2, <1>8, <1>9, <3>1, <3>3, <3>5
      <4>2. (b + n * (p - v)) - (n + a * s) * 0 = (b - n * v) - s * a * p
        BY <1>1, <1>2, <4>1, TakenFrom
      <4>3. n + a * s = 0
        BY <1>1, <1>2, <4>1
      <4> QED
        BY <1>5, <3>2, <4>1, <4>2, <4>3
    <3>6. CASE a > size
      <4>1. closed = n /\ w = p
        BY <1>1, <1>8, <1>9, <3>1, <3>3, <3>6
      <4>2. (b + n * (p - v)) - (n + a * s) * p = (b - n * v) - s * a * p
        BY <1>1, <1>2, TakenFrom
      <4> QED
        BY <1>1, <1>5, <3>2, <4>1, <4>2
    <3> QED
      BY <1>1, <1>9, <3>4, <3>5, <3>6
  <2> QED
    BY <1>1, <1>2, <2>1, <2>2, <2>3
<1>11. after.balance - after.netAmount * after.averagePrice = paid(money, order)
  BY <1>3, <1>6, <1>10 DEF gain
<1>12. after.netAmount # 0 => after.averagePrice > 0
  BY <1>3, <1>10
<1>13. /\ after.netAmount = after.buy_amount - after.sell_amount
       /\ after.sell_amount * after.average_sell_price - after.buy_amount * after.average_buy_price
            = paid(money, order)
  <2>1. CASE order.side = "BUY"
    <3> DEFINE x == averaged(pos.average_buy_price, pos.buy_amount, order)
    <3>1. /\ after.buy_amount = pos.buy_amount + a /\ after.average_buy_price = x
          /\ after.sell_amount = pos.sell_amount /\ after.average_sell_price = pos.average_sell_price
      BY <2>1, OnFillParts DEF after, a
    <3>2. x \in Int
      BY <1>3, <3>1 DEF Positions
    <3>3. x * (pos.buy_amount + a) = pos.average_buy_price * pos.buy_amount + p * a
      BY <2>1 DEF Exact, a, p
    <3> HIDE DEF x
    <3>4. (pos.buy_amount + a) * x = pos.buy_amount * pos.average_buy_price + a * p
      BY <1>1, <3>2, <3>3, SideAverage
    <3>5. s = 1 /\ s * a * p = a * p
      BY <1>1, <1>2, <2>1
    <3>6. paid(money, order) = money - a * p /\ n + a * s = n + a
      BY <1>1, <1>6, <3>5
    <3>7. n + a * s = (pos.buy_amount + a) - pos.sell_amount
      BY <1>1, <1>5, <3>6
    <3>8. after.netAmount = after.buy_amount - after.sell_amount
      BY <1>3, <3>1, <3>7
    <3>9. after.sell_amount * after.average_sell_price - after.buy_amount * after.average_buy_price =
            pos.sell_amount * pos.average_sell_price - (pos.buy_amount + a) * x
      BY <3>1
    <3>10. pos.buy_amount * pos.average_buy_price \in Int /\ pos.sell_amount * pos.average_sell_price \in Int
           /\ a * p \in Int
      BY <1>1
    <3>11. pos.sell_amount * pos.average_sell_price - (pos.buy_amount + a) * x = paid(money, order)
      BY <1>5, <3>4, <3>6, <3>10
    <3> QED
      BY <3>8, <3>9, <3>11
  <2>2. CASE order.side = "SELL"
    <3> DEFINE x == averaged(pos.average_sell_price, pos.sell_amount, order)
    <3>1. /\ after.sell_amount = pos.sell_amount + a /\ after.average_sell_price = x
          /\ after.buy_amount = pos.buy_amount /\ after.average_buy_price = pos.average_buy_price
      BY <2>2, OnFillParts DEF after, a
    <3>2. x \in Int
      BY <1>3, <3>1 DEF Positions
    <3>3. x * (pos.sell_amount + a) = pos.average_sell_price * pos.sell_amount + p * a
      BY <2>2 DEF Exact, a, p
    <3> HIDE DEF x
    <3>4. (pos.sell_amount + a) * x = pos.sell_amount * pos.average_sell_price + a * p
      BY <1>1, <3>2, <3>3, SideAverage
    <3>5. s = -1 /\ s * a * p = -(a * p)
      BY <1>1, <1>2, <2>2
    <3>6. paid(money, order) = money + a * p /\ n + a * s = n - a
      BY <1>1, <1>6, <3>5
    <3>7. n + a * s = pos.buy_amount - (pos.sell_amount + a)
      BY <1>1, <1>5, <3>6
    <3>8. after.netAmount = after.buy_amount - after.sell_amount
      BY <1>3, <3>1, <3>7
    <3>9. after.sell_amount * after.average_sell_price - after.buy_amount * after.average_buy_price =
            (pos.sell_amount + a) * x - pos.buy_amount * pos.average_buy_price
      BY <3>1
    <3>10. pos.buy_amount * pos.average_buy_price \in Int /\ pos.sell_amount * pos.average_sell_price \in Int
           /\ a * p \in Int
      BY <1>1
    <3>11. (pos.sell_amount + a) * x - pos.buy_amount * pos.average_buy_price = paid(money, order)
      BY <1>5, <3>4, <3>6, <3>10
    <3> QED
      BY <3>8, <3>9, <3>11
  <2> QED
    BY <1>1, <2>1, <2>2
<1> QED
  BY <1>11, <1>12, <1>13 DEF Accounts, after

\* The money after some fills.
IsCash(g, money, s) ==
  /\ g[{}] = money
  /\ \A S \in SUBSET (1 .. Len(s)) :
       S # {} => g[S] = paid(g[S \ {Max(S)}], s[Max(S)])
  /\ FoldLeft(LAMBDA c, q : c - sign(q.side) * q.amount * q.price, money, s) = g[1 .. Len(s)]

LEMMA PaidType ==
  ASSUME NEW money \in Int, NEW q \in Orders
  PROVE  paid(money, q) \in Int
<1>1. sign(q.side) \in Int /\ q.amount \in Int /\ q.price \in Int
  BY DEF sign, Orders
<1>2. sign(q.side) * q.amount * q.price \in Int
  BY <1>1
<1> QED
  BY <1>2 DEF paid

LEMMA CashSteps ==
  ASSUME NEW money \in Int, NEW s \in Seq(Orders)
  PROVE  \E g : IsCash(g, money, s)
<1> DEFINE n == Len(s)
           A == Int
           Adds == [p \in (1 .. n) \X A |-> paid(p[2], s[p[1]])]
           pay(c, q) == c - sign(q.side) * q.amount * q.price
           folds(g) == g = [S \in SUBSET DOMAIN s |->
                              IF S = {} THEN money ELSE pay(g[S \ {Max(S)}], s[Max(S)])]
           fold == CHOOSE g : folds(g)
<1>1. n \in Nat /\ DOMAIN s = 1 .. n /\ \A k \in 1 .. n : s[k] \in Orders
  OBVIOUS
<1>2. ASSUME NEW a \in A, NEW q \in Orders PROVE paid(a, q) \in A
  BY PaidType
<1>3. Adds \in [(1 .. n) \X A -> A]
  BY <1>1, <1>2
<1> HIDE DEF n, A
<1>4. PICK h \in [SUBSET (1 .. n) -> A] : IsFold(h, n, money, Adds)
  <2> HIDE DEF Adds
  <2>1. money \in A /\ n \in Nat
    BY <1>1 DEF A
  <2> QED
    BY ONLY <1>3, <2>1, FoldExists
<1>5. ASSUME NEW S \in SUBSET (1 .. n)
      PROVE  h[S] = IF S = {} THEN money ELSE pay(h[S \ {Max(S)}], s[Max(S)])
  <2>1. S # {} => Max(S) \in 1 .. n /\ h[S \ {Max(S)}] \in A
    BY <1>1, <1>4, Largest
  <2>2. S # {} => h[S] = paid(h[S \ {Max(S)}], s[Max(S)])
    BY <1>4, <2>1 DEF IsFold
  <2>3. S = {} => h[S] = money
    BY <1>4 DEF IsFold
  <2> QED
    BY <2>2, <2>3 DEF paid
<1>6. folds(h)
  BY <1>1, <1>4, <1>5
<1>7. folds(fold)
  <2> HIDE DEF folds
  <2> QED
    BY <1>6
<1>8. FoldLeft(LAMBDA c, q : c - sign(q.side) * q.amount * q.price, money, s) = fold[DOMAIN s]
  BY DEF FoldLeft, MapThenFoldSet
<1> HIDE DEF fold, Adds
<1>9. \A S \in SUBSET (1 .. n) :
        fold[S] = IF S = {} THEN money ELSE pay(fold[S \ {Max(S)}], s[Max(S)])
  BY <1>1, <1>7
<1>10. \A S \in SUBSET (1 .. n) : S # {} => fold[S] = paid(fold[S \ {Max(S)}], s[Max(S)])
  BY <1>9 DEF paid
<1>11. fold[{}] = money /\ DOMAIN s = 1 .. n
  BY <1>1, <1>9
<1> HIDE DEF pay
<1>12. IsCash(fold, money, s)
  BY <1>8, <1>10, <1>11 DEF IsCash, n
<1> QED
  BY <1>12

\* What the first fills make of a position does not depend on those after them.
LEMMA FirstFills ==
  ASSUME NEW pos \in Positions, NEW s \in Seq(Orders), NEW g, IsFills(g, pos, s),
         NEW m \in 0 .. Len(s)
  PROVE  FoldLeft(onFill, pos, SubSeq(s, 1, m)) = g[1 .. m]
<1> DEFINE first == SubSeq(s, 1, m)
<1>1. first \in Seq(Orders) /\ Len(first) = m /\ \A k \in 1 .. m : first[k] = s[k]
  OBVIOUS
<1> HIDE DEF first
<1>2. PICK h : IsFills(h, pos, first)
  BY <1>1, FillSteps
<1> DEFINE Good == {S \in SUBSET (1 .. m) : h[S] = g[S]}
<1>3. {} \in Good
  BY <1>2 DEF IsFills
<1>4. ASSUME NEW S \in SUBSET (1 .. m), S # {} /\ S \ {Max(S)} \in Good
      PROVE  S \in Good
  <2>1. m \in Nat /\ Len(s) \in Nat /\ m <= Len(s)
    OBVIOUS
  <2>2. S \in SUBSET (1 .. Len(s)) /\ Max(S) \in 1 .. m
    BY <1>4, <2>1, Largest
  <2>3. h[S] = onFill(h[S \ {Max(S)}], first[Max(S)])
    BY <1>1, <1>2, <1>4 DEF IsFills
  <2>4. g[S] = onFill(g[S \ {Max(S)}], s[Max(S)])
    BY <1>4, <2>2 DEF IsFills
  <2>5. h[S \ {Max(S)}] = g[S \ {Max(S)}] /\ first[Max(S)] = s[Max(S)]
    BY <1>1, <1>4, <2>2
  <2> QED
    BY <2>3, <2>4, <2>5
<1>5. m \in Nat
  OBVIOUS
<1> HIDE DEF Good
<1>6. 1 .. m \in Good
  BY <1>3, <1>4, <1>5, FoldHolds
<1>7. h[1 .. m] = g[1 .. m]
  BY <1>6 DEF Good
<1> QED
  BY <1>1, <1>2, <1>7 DEF IsFills, first

\* So the position says what was paid and received after any fills.
LEMMA FillsAccount ==
  ASSUME NEW pos \in Positions, NEW money \in Int, Accounts(pos, money), NEW s \in Seq(Orders),
         \A k \in 1 .. Len(s) :
           s[k].price > 0 /\ Exact(FoldLeft(onFill, pos, SubSeq(s, 1, k - 1)), s[k])
  PROVE  LET after == FoldLeft(LAMBDA c, q : c - sign(q.side) * q.amount * q.price, money, s)
         IN  after \in Int /\ Accounts(FoldLeft(onFill, pos, s), after)
<1> DEFINE n == Len(s)
<1>1. n \in Nat /\ \A k \in 1 .. n : s[k] \in Orders
  OBVIOUS
<1>2. PICK g : IsFills(g, pos, s)
  BY FillSteps
<1>3. PICK c : IsCash(c, money, s)
  BY CashSteps
<1> DEFINE Holds(S) == g[S] \in Positions /\ c[S] \in Int /\ Accounts(g[S], c[S])
           Good == {S \in SUBSET (1 .. n) : (\E m \in 0 .. n : S = 1 .. m) => Holds(S)}
<1>4. {} \in Good
  BY <1>2, <1>3 DEF IsFills, IsCash
<1>5. ASSUME NEW S \in SUBSET (1 .. n), S # {} /\ S \ {Max(S)} \in Good
      PROVE  S \in Good
  <2> SUFFICES ASSUME NEW m \in 0 .. n, S = 1 .. m PROVE Holds(S)
    OBVIOUS
  <2>1. m \in 1 .. n /\ m - 1 \in 0 .. n /\ m \in Nat
    BY <1>1, <1>5
  <2>2. Max(S) = m
    <3>1. Max(S) \in S /\ \A x \in S : x <= Max(S)
      BY <1>1, <1>5, Largest
    <3>2. m \in S
      BY <2>1
    <3>3. Max(S) \in 1 .. m /\ m <= Max(S)
      BY <3>1, <3>2
    <3> QED
      BY <2>1, <3>3
  <2>3. S \ {m} = 1 .. m - 1
    BY <2>1
  <2>4. Holds(1 .. m - 1)
    BY <1>5, <2>1, <2>2, <2>3
  <2>5. g[S] = onFill(g[1 .. m - 1], s[m]) /\ c[S] = paid(c[1 .. m - 1], s[m])
    BY <1>2, <1>3, <1>5, <2>2, <2>3 DEF IsFills, IsCash
  <2>6. s[m] \in Orders /\ s[m].price > 0 /\ Exact(g[1 .. m - 1], s[m])
    <3>1. FoldLeft(onFill, pos, SubSeq(s, 1, m - 1)) = g[1 .. m - 1]
      BY <1>2, <2>1, FirstFills
    <3> QED
      BY <1>1, <2>1, <3>1
  <2>7. Accounts(onFill(g[1 .. m - 1], s[m]), paid(c[1 .. m - 1], s[m]))
    BY <2>4, <2>6, OnFillAccounts
  <2> QED
    BY <2>4, <2>5, <2>6, <2>7, OnFillType, PaidType
<1> HIDE DEF Good, Holds
<1>6. 1 .. n \in Good
  BY <1>1, <1>4, <1>5, FoldHolds
<1>7. n \in 0 .. n
  BY <1>1
<1>8. Holds(1 .. n)
  BY <1>6, <1>7 DEF Good
<1> QED
  BY <1>2, <1>3, <1>8 DEF IsFills, IsCash, Holds

\* An ask that is in the book has a price, however it came there.
LEMMA AskPrices ==
  ASSUME ExchangeInv, DelaysHold, PriceInv, NEW obs, obs.bid \in Nat,
         NEW q \in Range(Taken(ask_quotes, obs, "SELL"))
  PROVE  q \in Orders /\ q.price > 0
<1>1. IsBook(ask_quotes) /\ IsBuffer(timed_buffer)
  BY DEF ExchangeInv
<1>2. IsBook(Taken(ask_quotes, obs, "SELL"))
  BY <1>1, TakenFacts
<1>3. q \in Orders /\ q.price \in Int
  BY <1>2, BookFacts DEF Orders
<1>4. ASSUME NEW r \in Acked(obs, "SELL") PROVE r \in Orders /\ r.price > obs.bid
  <2>1. PICK p \in Now(obs) : p.side = "SELL" /\ Accepted(p, obs) /\ r = [p EXCEPT !.state = "NEW_ACK"]
    BY DEF Acked
  <2>2. p \in Orders /\ p.price > obs.bid
    BY <1>1, <2>1, NowIsDue, WaitingOrders DEF Accepted
  <2> QED
    BY <2>1, <2>2 DEF Orders
<1> DEFINE kept == Without(ask_quotes, Gone(obs))
           new == ById(Acked(obs, "SELL"))
<1>5. PICK o \in DOMAIN kept \cup DOMAIN new :
        q = IF o \in DOMAIN new THEN new[o] ELSE kept[o]
  BY DEF Taken, With, Range
<1>6. \A p \in DOMAIN new : new[p] \in Acked(obs, "SELL")
  BY <1>4, ByIdFacts
<1>7. \A p \in DOMAIN kept : kept[p] \in Range(ask_quotes)
  BY DEF Without, Restrict, Range
<1> HIDE DEF kept, new
<1>8. CASE q \in Range(ask_quotes)
  <2>1. q.price >= market.ask /\ market.ask \in Nat \ {0}
    BY <1>8 DEF DelaysHold, PriceInv
  <2> QED
    BY <1>3, <2>1
<1>9. CASE q \in Acked(obs, "SELL")
  <2>1. q.price > obs.bid
    BY <1>4, <1>9
  <2> QED
    BY <1>3, <2>1
<1> QED
  BY <1>5, <1>6, <1>7, <1>8, <1>9

LEMMA ExecutePrices ==
  ASSUME ExchangeInv, DelaysHold, FateInv, PriceInv, executions = <<>>,
         NEW obs, obs.bid \in Nat, obs.ask \in Nat \ {0}, Execute(obs), market' = obs
  PROVE  PriceInv'
<1> DEFINE bids == Taken(bid_quotes, obs, "BUY")
           asks == Taken(ask_quotes, obs, "SELL")
           bids_crossed == {r \in Range(bids) : r.price > obs.bid}
           asks_crossed == {r \in Range(asks) : r.price < obs.ask}
           bids_filled == {Fill(q) : q \in bids_crossed}
           asks_filled == {Fill(q) : q \in asks_crossed}
           later == Restrict(timed_buffer, DOMAIN timed_buffer \ DueTimes(obs))
<1>1. /\ IsBook(bid_quotes) /\ IsBook(ask_quotes) /\ IsBuffer(timed_buffer)
      /\ Waiting = Held(timed_buffer)
  BY DEF ExchangeInv, Waiting, Held
<1>2. timed_buffer' = AddAll(later, bids_filled, asks_filled)
  BY DEF Execute, Taken, Acked, Gone, Now, DueTimes, Fill
<1>3. IsBook(bids) /\ IsBook(asks)
  BY <1>1, TakenFacts
<1>4. \A q \in Range(asks) : q.price > 0
  BY AskPrices
<1> HIDE DEF bids, asks
<1>5. bids_filled \in SUBSET Orders /\ Distinct(bids_filled)
  <2>1. bids_crossed \in SUBSET Range(bids)
    OBVIOUS
  <2> HIDE DEF bids_crossed
  <2> QED
    BY <1>3, <2>1, FillFacts
<1>6. asks_filled \in SUBSET Orders /\ Distinct(asks_filled)
  <2>1. asks_crossed \in SUBSET Range(asks)
    OBVIOUS
  <2> HIDE DEF asks_crossed
  <2> QED
    BY <1>3, <2>1, FillFacts
<1>7. ASSUME NEW q \in bids_filled \cup asks_filled PROVE q.price > 0
  <2>1. \A p \in Orders : Fill(p).price = p.price
    BY DEF Fill, Orders
  <2>2. CASE q \in bids_filled
    <3>1. PICK p \in Range(bids) : p.price > obs.bid /\ q = Fill(p)
      BY <2>2
    <3>2. p \in Orders /\ p.price \in Int
      BY <1>3, BookFacts DEF Orders
    <3>3. p.price > 0
      BY <3>1, <3>2
    <3> QED
      BY <2>1, <3>1, <3>2, <3>3
  <2>3. CASE q \in asks_filled
    <3>1. PICK p \in Range(asks) : q = Fill(p)
      BY <2>3
    <3>2. p \in Orders /\ p.price > 0
      BY <1>3, <1>4, BookFacts
    <3> QED
      BY <2>1, <3>1, <3>2
  <2> QED
    BY <2>2, <2>3
<1>8. IsBuffer(later) /\ Held(later) \subseteq Waiting
  <2>1. IsBuffer(later)
    BY <1>1 DEF IsBuffer, Restrict
  <2>2. DOMAIN later \subseteq DOMAIN timed_buffer /\ \A t \in DOMAIN later : later[t] = timed_buffer[t]
    BY DEF Restrict
  <2> HIDE DEF later
  <2> QED
    BY <1>1, <2>1, <2>2 DEF Held
<1> HIDE DEF later, bids_filled, asks_filled
<1>9. Waiting' = Held(later) \cup bids_filled \cup asks_filled
  <2>1. Waiting' = Held(timed_buffer')
    BY DEF Waiting, Held
  <2> QED
    BY <1>2, <1>5, <1>6, <1>8, <2>1, AddAllFacts
<1>10. \A q \in Waiting' : q.state = "FILLED" => q.price > 0
  BY <1>7, <1>8, <1>9 DEF PriceInv
<1>11. \A q \in Range(executions') : q.price > 0
  <2>1. Fresh(executions', FilledOf(Now(obs)))
    BY ExecuteReportsFresh DEF FateInv, PlacesInv
  <2>2. ASSUME NEW q \in FilledOf(Now(obs)) PROVE q.price > 0
    BY <1>1, NowIsDue DEF FilledOf, PriceInv
  <2> QED
    BY <2>1, <2>2 DEF Fresh, Range
<1> QED
  BY <1>10, <1>11 DEF PriceInv

\* A step fills nothing.
LEMMA StepPrices ==
  ASSUME ExchangeInv, PriceInv,
         NEW bids, NEW asks, IsQuotes(bids, asks)
  PROVE  PriceInv'
<1> DEFINE cb == cancels(bid_quotes)
           ca == cancels(ask_quotes)
           middle == AddAll(timed_buffer, cb, ca)
<1>1. /\ IsBook(bid_quotes) /\ IsBook(ask_quotes) /\ IsBuffer(timed_buffer)
      /\ Waiting = Held(timed_buffer) /\ Waiting' = Held(timed_buffer')
      /\ market.id \in Nat
  BY DEF ExchangeInv, Waiting, Held
<1>2. timed_buffer' = AddAll(middle, bids, asks) /\ UNCHANGED <<executions, market>>
  BY DEF IsQuotes, CancelAndQuote
<1>3. /\ cb \in SUBSET Orders /\ Distinct(cb) /\ ca \in SUBSET Orders /\ Distinct(ca)
      /\ \A q \in cb \cup ca : q.state = "CANCELLED"
  <2>1. cb \in SUBSET Orders /\ Distinct(cb) /\ \A q \in cb : q.state = "CANCELLED"
    BY <1>1, CancelFacts
  <2>2. ca \in SUBSET Orders /\ Distinct(ca) /\ \A q \in ca : q.state = "CANCELLED"
    BY <1>1, CancelFacts
  <2> QED
    BY <2>1, <2>2
<1> HIDE DEF cb, ca
<1>4. IsBuffer(middle) /\ Held(middle) = Waiting \cup cb \cup ca
  BY <1>1, <1>3, AddAllFacts
<1> HIDE DEF middle
<1>5. Waiting' = Waiting \cup cb \cup ca \cup bids \cup asks
  BY <1>1, <1>2, <1>4, AddAllFacts DEF IsQuotes
<1>6. \A q \in Waiting' : q.state = "FILLED" => q.price > 0
  BY <1>3, <1>5 DEF PriceInv, IsQuotes
<1> QED
  BY <1>2, <1>6 DEF PriceInv

LEMMA MarketPrices ==
  ASSUME NEW id \in Nat, NEW obs \in Markets(id)
  PROVE  obs.bid \in Nat /\ obs.ask \in Nat \ {0}
BY ExchangeAssumption DEF Markets

LEMMA SamePrices ==
  ASSUME PriceInv, UNCHANGED <<timed_buffer, market>>, executions' = executions \/ executions' = <<>>
  PROVE  PriceInv'
<1>1. Waiting' = Waiting
  BY DEF Waiting
<1>2. executions' = <<>> => Range(executions') = {}
  BY DEF Range
<1> QED
  BY <1>1, <1>2 DEF PriceInv

LEMMA FlatAccounts ==
  Accounts(FlatPosition, 0)
BY DEF Accounts, FlatPosition

\* In every reachable state, if divisions leave no remainder.
THEOREM AccountInvariance == Spec /\ []ExactFills => []AccountInv
<1>1. Init => AccountInv
  <2> SUFFICES ASSUME Init PROVE AccountInv
    OBVIOUS
  <2>1. market.bid \in Nat /\ market.ask \in Nat \ {0}
    BY MarketPrices DEF Init
  <2>2. Waiting = {} /\ Range(executions) = {}
    BY EmptyBook DEF Init, Waiting, Range
  <2> QED
    BY <2>1, <2>2, FlatAccounts DEF Init, AccountInv, PriceInv
<1>2. IInv /\ FateInv /\ ExactFills /\ AccountInv /\ [Next]_vars => AccountInv'
  <2> SUFFICES ASSUME IInv, FateInv, ExactFills, AccountInv, [Next]_vars PROVE AccountInv'
    OBVIOUS
  <2>1. /\ ExchangeInv /\ DelaysHold /\ (pc # "fills" => executions = <<>>)
        /\ position \in Positions /\ executions \in Seq(Orders) /\ market.id \in Nat
        /\ cash \in Int /\ Accounts(position, cash) /\ PriceInv
    BY DEF IInv, FateInv, PlacesInv, RewardInv, ExchangeInv, AccountInv
  <2>2. CASE Reset
    <3>1. market' \in Markets(0) /\ timed_buffer' = NoOrders /\ executions' = <<>>
          /\ position' = FlatPosition /\ cash' = 0
      BY <2>2 DEF Reset, ResetExchange, ClearBook
    <3>2. Waiting' = {} /\ Range(executions') = {}
      BY <3>1, EmptyBook DEF Waiting, Range
    <3>3. market'.bid \in Nat /\ market'.ask \in Nat \ {0}
      BY <3>1, MarketPrices
    <3> QED
      BY <3>1, <3>2, <3>3, FlatAccounts DEF AccountInv, PriceInv
  <2>3. CASE Step
    <3>1. PICK bids, asks : IsQuotes(bids, asks)
      BY <2>1, <2>3, StepQuotes
    <3>2. UNCHANGED <<position, cash>>
      BY <2>3 DEF Step
    <3>3. PriceInv'
      BY <2>1, <3>1, StepPrices
    <3> QED
      BY <2>1, <3>2, <3>3 DEF AccountInv
  <2>4. CASE Read
    <3>1. executions = <<>> /\ UNCHANGED <<position, cash>>
      BY <2>1, <2>4 DEF Read, strategyVars
    <3>2. CASE HasNext
      <4>1. PICK gap \in IdGaps : market' \in Markets(market.id + gap) /\ Execute(market')
        BY <2>4, <3>2 DEF Read, next_read
      <4>2. market.id + gap \in Nat
        BY <2>1, ExchangeAssumption
      <4>3. market'.bid \in Nat /\ market'.ask \in Nat \ {0}
        BY <4>1, <4>2, MarketPrices
      <4>4. PriceInv'
        BY <2>1, <3>1, <4>1, <4>3, ExecutePrices
      <4> QED
        BY <2>1, <3>1, <4>4 DEF AccountInv
    <3>3. CASE ~HasNext
      <4>1. UNCHANGED <<bookVars, market>>
        BY <2>4, <3>3 DEF Read, next_read
      <4>2. PriceInv'
        BY <2>1, <4>1, SamePrices DEF bookVars
      <4> QED
        BY <2>1, <3>1, <4>2 DEF AccountInv
    <3> QED
      BY <3>2, <3>3
  <2>5. CASE Fills
    <3>1. /\ position' = FoldLeft(onFill, position, executions)
          /\ cash' = FoldLeft(LAMBDA c, q : c - sign(q.side) * q.amount * q.price, cash, executions)
          /\ executions' = <<>> /\ UNCHANGED <<timed_buffer, market>>
      BY <2>5 DEF Fills, getFills
    <3>2. PriceInv'
      BY <2>1, <3>1, SamePrices
    <3>3. \A k \in 1 .. Len(executions) :
            executions[k].price > 0
            /\ Exact(FoldLeft(onFill, position, SubSeq(executions, 1, k - 1)), executions[k])
      BY <2>1 DEF ExactFills, PriceInv, Range
    <3>4. cash' \in Int /\ Accounts(position', cash')
      BY <2>1, <3>1, <3>3, FillsAccount
    <3> QED
      BY <3>2, <3>4 DEF AccountInv
  <2>6. CASE UNCHANGED vars
    <3>1. UNCHANGED <<position, cash, timed_buffer, market, executions>>
      BY <2>6 DEF vars, exchangeVars, bookVars, strategyVars
    <3>2. PriceInv'
      BY <2>1, <3>1, SamePrices
    <3> QED
      BY <2>1, <3>1, <3>2 DEF AccountInv
  <2> QED
    BY <2>2, <2>3, <2>4, <2>5, <2>6 DEF Next
<1> QED
  BY <1>1, <1>2, Invariance, FateInvariance, PTL DEF Spec

\* However fills open, add to, close and flip the position, it says what was
\* paid and received, as long as the divisions for the averages are exact:
\* position.cc, lines 55-106.
THEOREM EquityIsCashCorrect == Spec /\ []ExactFills => []EquityIsCash
<1>1. AccountInv => EquityIsCash
  BY DEF AccountInv, Accounts, EquityIsCash
<1> QED
  BY <1>1, AccountInvariance, PTL
=============================================================================
