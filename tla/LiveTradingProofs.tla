-------------------------- MODULE LiveTradingProofs --------------------------
(***************************************************************************)
(* The ring of order books between its two threads, for any size; and      *)
(* results about the live system, for every scenario: whatever the         *)
(* threads, the network and the server do, starts and stops of the client  *)
(* included, every step of LiveTrading is a step of the ring of books or   *)
(* leaves it alone; and a stream has one write at a time.  At last, that a *)
(* side has one order at a time while the first connection stands.         *)
(***************************************************************************)
EXTENDS LiveTrading, CommonFacts, SequenceTheorems, FiniteSetTheorems, TLAPS

-----------------------------------------------------------------------------
(***************************************************************************)
(* The ring of order books, for any size.                                  *)
(*                                                                         *)
(* Books are counted by position: the position of the next book to write   *)
(* is `written', that of the next one to read is `consumed', and the slot  *)
(* of a position is its remainder.  The positions from consumed up to      *)
(* written are the unread books, those from written up to consumed +       *)
(* BUFFER_SIZE the room that is left; together they take each slot once.   *)
(***************************************************************************)
slot(k) == k % BUFFER_SIZE
Unread == consumed .. written - 1
Room == written .. consumed + BUFFER_SIZE - 1

RingTypeInv ==
  /\ sequence \in [Slots -> Int] /\ book \in [Slots -> Nat]
  /\ written \in Nat /\ consumed \in Nat
  /\ consumed <= written /\ written <= consumed + BUFFER_SIZE
  /\ write_index = slot(written) /\ read_index = slot(consumed)

\* The sequence number of a slot says on which side its position is.
SlotInv ==
  /\ \A k \in Unread : sequence[slot(k)] = slot(k) + BUFFER_SIZE /\ book[slot(k)] = k + 1
  /\ \A k \in Room : sequence[slot(k)] = slot(k)

\* A thread in a slot is at the start of its side.
ThreadInv ==
  /\ writing # NoSlot =>
       writing = slot(written) /\ written < consumed + BUFFER_SIZE /\ book[writing] = written + 1
  /\ reading # NoSlot => reading = slot(consumed) /\ consumed < written

RingInv == RingTypeInv /\ SlotInv /\ ThreadInv

-----------------------------------------------------------------------------
\* The slot of a position, of the next one, and of the one a ring further.
LEMMA SlotFacts ==
  ASSUME NEW k \in Nat
  PROVE  /\ slot(k) \in Slots /\ slot(k) # NoSlot /\ slot(k) \in Nat
         /\ slot(k + 1) = (slot(k) + 1) % BUFFER_SIZE
         /\ slot(k + BUFFER_SIZE) = slot(k)
<1>1. slot(k) \in Slots /\ slot(k) # NoSlot /\ slot(k) \in Nat
  BY BufferAssumption DEF slot, Slots, NoSlot
<1>2. slot(k + BUFFER_SIZE) = slot(k)
  BY BufferAssumption, NextLap DEF slot
<1>3. slot(k + 1) = (slot(k) + 1) % BUFFER_SIZE
  BY BufferAssumption, NextSlot DEF slot
<1> QED
  BY <1>1, <1>2, <1>3

\* Positions less than a ring apart have different slots.
LEMMA Apart ==
  ASSUME NEW j \in Nat, NEW k \in Nat, j < k, k < j + BUFFER_SIZE
  PROVE  slot(j) # slot(k)
BY SlotsDiffer, BufferAssumption DEF slot

LEMMA RingInitially ==
  InitBuffer => RingInv
<1> SUFFICES ASSUME InitBuffer PROVE RingInv
  OBVIOUS
<1> USE BufferAssumption DEF InitBuffer
<1>1. RingTypeInv
  BY DEF RingTypeInv, Slots, slot
<1>2. SlotInv
  <2>1. ASSUME NEW k \in Room PROVE sequence[slot(k)] = slot(k)
    <3>1. k \in Nat
      BY DEF Room
    <3> QED
      BY <3>1, SlotFacts
  <2>2. Unread = {}
    BY DEF Unread
  <2> QED
    BY <2>1, <2>2 DEF SlotInv
<1>3. ThreadInv
  BY DEF ThreadInv
<1> QED
  BY <1>1, <1>2, <1>3 DEF RingInv

\* The writer takes a slot: it is free, so that there is room.
LEMMA GetWriteSlot ==
  ASSUME RingInv, get_write_slot
  PROVE  RingInv'
<1> USE BufferAssumption DEF RingInv, get_write_slot
<1>1. written < consumed + BUFFER_SIZE
  <2> SUFFICES ASSUME written = consumed + BUFFER_SIZE PROVE FALSE
    BY DEF RingTypeInv
  <2>1. consumed \in Unread /\ consumed \in Nat
    BY DEF RingTypeInv, Unread
  <2>2. slot(written) = slot(consumed)
    BY <2>1, SlotFacts
  <2>3. sequence[slot(consumed)] = slot(consumed) + BUFFER_SIZE
    BY <2>1 DEF SlotInv
  <2>4. slot(consumed) \in Nat /\ BUFFER_SIZE > 0
    BY <2>1, SlotFacts
  <2> QED
    BY <2>2, <2>3, <2>4 DEF Free, RingTypeInv
<1>2. slot(written) \in Slots /\ written \in Nat
  BY SlotFacts DEF RingTypeInv
<1>3. RingTypeInv'
  BY <1>2 DEF RingTypeInv, slot
<1>4. SlotInv'
  <2>1. ASSUME NEW k \in Unread PROVE slot(k) # slot(written) /\ slot(k) \in Slots
    <3>1. k \in Nat /\ written \in Nat /\ k < written /\ written < k + BUFFER_SIZE
      BY <1>1 DEF RingTypeInv, Unread
    <3> QED
      BY <3>1, Apart, SlotFacts
  <2>2. \A k \in Unread : sequence[slot(k)] = slot(k) + BUFFER_SIZE /\ book'[slot(k)] = k + 1
    BY <2>1 DEF SlotInv, RingTypeInv
  <2> QED
    BY <2>2 DEF SlotInv, Unread, Room, slot
<1>5. ThreadInv'
  BY <1>1, <1>2, SlotFacts DEF ThreadInv, RingTypeInv, slot
<1> QED
  BY <1>3, <1>4, <1>5

\* The writer commits its book, which becomes the last unread one.
LEMMA CommitWrite ==
  ASSUME RingInv, commit_write
  PROVE  RingInv'
<1> USE BufferAssumption DEF RingInv, commit_write
<1>1. /\ writing = slot(written) /\ writing \in Slots /\ written \in Nat /\ consumed \in Nat
      /\ consumed <= written /\ written < consumed + BUFFER_SIZE /\ book[writing] = written + 1
      /\ written' = written + 1 /\ consumed' = consumed
  BY SlotFacts DEF RingTypeInv, ThreadInv
<1>2. RingTypeInv'
  <2>1. write_index' = slot(written')
    BY <1>1, SlotFacts
  <2>2. sequence' \in [Slots -> Int]
    <3>1. writing + BUFFER_SIZE \in Int
      BY <1>1 DEF Slots
    <3> QED
      BY <3>1 DEF RingTypeInv
  <2> QED
    BY <1>1, <2>1, <2>2 DEF RingTypeInv, slot
<1>3. ASSUME NEW k \in Nat, k # written, consumed <= k, k < consumed + BUFFER_SIZE
      PROVE  slot(k) # slot(written) /\ slot(k) \in Slots
  <2>1. CASE k < written
    <3>1. written < k + BUFFER_SIZE
      BY <2>1, <1>1, <1>3
    <3> QED
      BY <2>1, <3>1, <1>1, Apart, SlotFacts
  <2>2. CASE written < k
    <3>1. k < written + BUFFER_SIZE
      BY <2>2, <1>1, <1>3
    <3> QED
      BY <2>2, <3>1, <1>1, Apart, SlotFacts
  <2> QED
    BY <1>1, <1>3, <2>1, <2>2
<1>4. SlotInv'
  <2>1. ASSUME NEW k \in consumed .. written
        PROVE  sequence'[slot(k)] = slot(k) + BUFFER_SIZE /\ book'[slot(k)] = k + 1
    <3>1. CASE k = written
      BY <3>1, <1>1 DEF RingTypeInv
    <3>2. CASE k # written
      <4>1. k \in Nat /\ k \in Unread /\ k < consumed + BUFFER_SIZE
        BY <3>2, <1>1 DEF Unread
      <4> QED
        BY <3>2, <4>1, <1>1, <1>3 DEF SlotInv, RingTypeInv
    <3> QED
      BY <3>1, <3>2
  <2>2. ASSUME NEW k \in written + 1 .. consumed + BUFFER_SIZE - 1
        PROVE  sequence'[slot(k)] = slot(k)
    <3>1. k \in Nat /\ k \in Room /\ k # written /\ consumed <= k /\ k < consumed + BUFFER_SIZE
      BY <1>1 DEF Room
    <3> QED
      BY <3>1, <1>1, <1>3 DEF SlotInv, RingTypeInv
  <2> QED
    BY <1>1, <2>1, <2>2 DEF SlotInv, Unread, Room, slot
<1>5. ThreadInv'
  BY <1>1, SlotFacts DEF ThreadInv, RingTypeInv, slot
<1> QED
  BY <1>2, <1>4, <1>5

\* The reader takes a slot: it is full, so that there is an unread book.
LEMMA GetReadSlot ==
  ASSUME RingInv, get_read_slot
  PROVE  RingInv'
<1> USE BufferAssumption DEF RingInv, get_read_slot
<1>1. consumed < written
  <2> SUFFICES ASSUME written = consumed PROVE FALSE
    BY DEF RingTypeInv
  <2>1. consumed \in Room /\ consumed \in Nat
    BY DEF RingTypeInv, Room
  <2>2. sequence[slot(consumed)] = slot(consumed)
    BY <2>1 DEF SlotInv
  <2>3. slot(consumed) \in Nat /\ BUFFER_SIZE > 0
    BY <2>1, SlotFacts
  <2> QED
    BY <2>2, <2>3 DEF Full, RingTypeInv
<1>2. RingTypeInv' /\ SlotInv'
  BY DEF RingTypeInv, SlotInv, Unread, Room, slot
<1>3. ThreadInv'
  BY <1>1, SlotFacts DEF ThreadInv, RingTypeInv, slot
<1> QED
  BY <1>2, <1>3

\* The reader gives its slot back, which becomes the last of the room.
LEMMA CommitRead ==
  ASSUME RingInv, commit_read
  PROVE  RingInv'
<1> USE BufferAssumption DEF RingInv, commit_read
<1>1. /\ reading = slot(consumed) /\ reading \in Slots /\ written \in Nat /\ consumed \in Nat
      /\ consumed < written /\ written <= consumed + BUFFER_SIZE
      /\ written' = written /\ consumed' = consumed + 1
  BY SlotFacts DEF RingTypeInv, ThreadInv
<1>2. RingTypeInv'
  <2>1. read_index' = slot(consumed')
    BY <1>1, SlotFacts
  <2>2. sequence' \in [Slots -> Int]
    BY <1>1 DEF RingTypeInv, Slots
  <2> QED
    BY <1>1, <2>1, <2>2 DEF RingTypeInv, slot
<1>3. ASSUME NEW k \in consumed + 1 .. consumed + BUFFER_SIZE - 1
      PROVE  k \in Nat /\ slot(k) # slot(consumed) /\ slot(k) \in Slots
  <2>1. k \in Nat /\ consumed < k /\ k < consumed + BUFFER_SIZE
    BY <1>1
  <2> QED
    BY <2>1, <1>1, Apart, SlotFacts
<1>4. SlotInv'
  <2>1. ASSUME NEW k \in consumed + 1 .. written - 1
        PROVE  sequence'[slot(k)] = slot(k) + BUFFER_SIZE /\ book'[slot(k)] = k + 1
    <3>1. k \in Unread /\ k \in consumed + 1 .. consumed + BUFFER_SIZE - 1
      BY <1>1 DEF Unread
    <3> QED
      BY <3>1, <1>1, <1>3 DEF SlotInv, RingTypeInv
  <2>2. ASSUME NEW k \in written .. consumed + BUFFER_SIZE
        PROVE  sequence'[slot(k)] = slot(k)
    <3>1. CASE k = consumed + BUFFER_SIZE
      BY <3>1, <1>1, SlotFacts DEF RingTypeInv
    <3>2. CASE k # consumed + BUFFER_SIZE
      <4>1. k \in Room /\ k \in consumed + 1 .. consumed + BUFFER_SIZE - 1
        BY <3>2, <1>1 DEF Room
      <4> QED
        BY <4>1, <1>1, <1>3 DEF SlotInv, RingTypeInv
    <3> QED
      BY <3>1, <3>2
  <2> QED
    BY <1>1, <2>1, <2>2 DEF SlotInv, Unread, Room, slot
<1>5. ThreadInv'
  BY <1>1, SlotFacts DEF ThreadInv, RingTypeInv, slot
<1> QED
  BY <1>2, <1>4, <1>5

LEMMA RingStep ==
  RingInv /\ [BufferNext]_bufferVars => RingInv'
<1> SUFFICES ASSUME RingInv, [BufferNext]_bufferVars PROVE RingInv'
  OBVIOUS
<1>1. CASE BufferNext
  BY <1>1, GetWriteSlot, CommitWrite, GetReadSlot, CommitRead DEF BufferNext
<1>2. CASE UNCHANGED bufferVars
  BY <1>2 DEF bufferVars, RingInv, RingTypeInv, SlotInv, ThreadInv, Unread, Room, slot
<1> QED
  BY <1>1, <1>2

LEMMA RingInvImplies ==
  RingInv => BooksInOrder
<1> SUFFICES ASSUME RingInv PROVE BooksInOrder
  OBVIOUS
<1> USE BufferAssumption DEF RingInv
<1>1. reading # NoSlot => book[reading] = consumed + 1 /\ consumed < written
  BY DEF RingTypeInv, SlotInv, ThreadInv, Unread
<1>2. reading # NoSlot => writing # reading
  <2> SUFFICES ASSUME reading # NoSlot, writing = reading PROVE FALSE
    OBVIOUS
  <2>1. /\ consumed \in Nat /\ written \in Nat /\ consumed < written
        /\ written < consumed + BUFFER_SIZE /\ slot(consumed) = slot(written)
    BY DEF RingTypeInv, ThreadInv
  <2> QED
    BY <2>1, Apart
<1>3. written - consumed \in 0 .. BUFFER_SIZE
  BY DEF RingTypeInv
<1> QED
  BY <1>1, <1>2, <1>3 DEF BooksInOrder

-----------------------------------------------------------------------------
\* The invariant holds of the ring, whatever its size.
THEOREM RingInvariance == BufferSpec => []RingInv
BY RingInitially, RingStep, PTL DEF BufferSpec

\* The reader gets every book once and in order, and never a slot that is
\* being written.
THEOREM BooksInOrderCorrect == BufferSpec => []BooksInOrder
BY RingInvariance, RingInvImplies, PTL

-----------------------------------------------------------------------------
(* The ring in its surroundings *)

\* The io thread writes books in its callback and nowhere else.
LEMMA IoUsesRing ==
  IoRuns => BufferNext \/ UNCHANGED bufferVars
<1>1. Callback => BufferNext \/ UNCHANGED bufferVars
  BY DEF Callback, handle_auth_reply, handle_order_book_updates, put_book,
         handle_order_updates, handle_private_trade_updates, BufferNext
<1> QED
  BY <1>1 DEF IoRuns

\* The env reads books in next_read and done_read and nowhere else.
LEMMA EnvUsesRing ==
  EnvRuns => BufferNext \/ UNCHANGED bufferVars
<1>1. Operation => BufferNext \/ UNCHANGED bufferVars
  BY DEF Operation, quote, clear_executions, read_book, getFills, BufferNext
<1> QED
  BY <1>1 DEF EnvRuns

\* The network and the server do not touch the ring.
LEMMA NetworkLeavesRing ==
  ASSUME NEW c \in Channels, Network(c)
  PROVE  UNCHANGED bufferVars
BY DEF Network, NewStep, Deliver, Arrive, Disturb

LEMMA StepOfRing ==
  [Next]_vars => [BufferNext]_bufferVars
<1> SUFFICES ASSUME [Next]_vars PROVE [BufferNext]_bufferVars
  OBVIOUS
<1>1. CASE EnvAct
  BY <1>1 DEF EnvAct, Reset, Step, Unasked
<1>2. CASE EnvRuns
  BY <1>2, EnvUsesRing
<1>3. CASE IoRuns
  BY <1>3, IoUsesRing
<1>4. CASE \E c \in Channels : Network(c)
  BY <1>4, NetworkLeavesRing
<1>5. CASE Fill /\ Uncounted
  BY <1>5 DEF Fill
<1>6. CASE UNCHANGED vars
  BY <1>6 DEF vars
<1> QED
  BY <1>1, <1>2, <1>3, <1>4, <1>5, <1>6 DEF Next

-----------------------------------------------------------------------------
\* The live system uses the ring as one writer and one reader do, also across
\* the restarts of the client.
THEOREM ImplementsRing == Spec => BufferSpec
<1>1. Init => InitBuffer
  BY DEF Init
<1> QED
  BY <1>1, StepOfRing, PTL DEF Spec, BufferSpec

\* So that the env gets every book once and in order, for any scenario and
\* any size of the ring.
THEOREM LiveBooksInOrder == Spec => []BooksInOrder
BY ImplementsRing, BooksInOrderCorrect, PTL

-----------------------------------------------------------------------------
(* Facts about the two kinds of sequences of DeribitClient, the handlers   *)
(* that are ready and the instructions of a thread.  Their elements are    *)
(* records with values of any kind in them, so that a sequence is one over *)
(* some set, and what its elements have in common is said of that set.     *)

(* Sequences of whatever elements *)

IsSeq(s) == \E S : s \in Seq(S)

\* Two sequences have a set of elements in common.
LEMMA SameElements ==
  ASSUME NEW s, NEW r, IsSeq(s), IsSeq(r)
  PROVE  \E S : s \in Seq(S) /\ r \in Seq(S)
<1>1. PICK S : s \in Seq(S)
  BY DEF IsSeq
<1>2. PICK T : r \in Seq(T)
  BY DEF IsSeq
<1>3. s \in Seq(S \cup T) /\ r \in Seq(S \cup T)
  <2>1. S \subseteq S \cup T /\ T \subseteq S \cup T
    OBVIOUS
  <2> QED
    BY <1>1, <1>2, <2>1, SeqMonotonic
<1> QED
  BY <1>3

LEMMA SeqFacts ==
  ASSUME NEW s, IsSeq(s)
  PROVE  /\ Len(s) \in Nat /\ DOMAIN s = 1 .. Len(s)
         /\ s # <<>> => Len(s) > 0 /\ Head(s) = s[1] /\ 1 \in DOMAIN s
<1>1. PICK S : s \in Seq(S)
  BY DEF IsSeq
<1>2. Len(s) \in Nat /\ DOMAIN s = 1 .. Len(s)
  BY <1>1, LenProperties
<1>3. s # <<>> => Len(s) > 0
  BY <1>1, <1>2, EmptySeq
<1> QED
  BY <1>1, <1>2, <1>3

LEMMA ShortSeqs ==
  /\ IsSeq(<<>>) /\ DOMAIN <<>> = {}
  /\ \A a : IsSeq(<<a>>) /\ <<a>> # <<>> /\ Head(<<a>>) = a /\ Tail(<<a>>) = <<>>
            /\ DOMAIN <<a>> = {1} /\ <<a>>[1] = a
<1>1. IsSeq(<<>>) /\ DOMAIN <<>> = {}
  <2>1. <<>> \in Seq({})
    OBVIOUS
  <2> QED
    BY <2>1 DEF IsSeq
<1>2. ASSUME NEW a
      PROVE  IsSeq(<<a>>) /\ <<a>> # <<>> /\ Head(<<a>>) = a /\ Tail(<<a>>) = <<>>
             /\ DOMAIN <<a>> = {1} /\ <<a>>[1] = a
  <2>1. <<a>> \in Seq({a})
    OBVIOUS
  <2>2. Tail(<<a>>) = <<>> /\ Head(<<a>>) = a /\ <<a>> # <<>> /\ <<a>>[1] = a
    BY <2>1
  <2>3. IsSeq(<<a>>) /\ Len(<<a>>) = 1
    BY <2>1 DEF IsSeq
  <2>4. DOMAIN <<a>> = {1}
    BY <2>3, SeqFacts
  <2> QED
    BY <2>2, <2>3, <2>4
<1> QED
  BY <1>1, <1>2

LEMMA TailFacts ==
  ASSUME NEW s, IsSeq(s), s # <<>>
  PROVE  /\ IsSeq(Tail(s)) /\ Head(s) = s[1] /\ 1 \in DOMAIN s
         /\ \A k \in DOMAIN Tail(s) : k + 1 \in DOMAIN s /\ k + 1 # 1 /\ Tail(s)[k] = s[k + 1]
<1>1. PICK S : s \in Seq(S)
  BY DEF IsSeq
<1>2. /\ Tail(s) \in Seq(S) /\ Len(Tail(s)) = Len(s) - 1
      /\ \A i \in 1 .. Len(Tail(s)) : Tail(s)[i] = s[i + 1]
  BY <1>1, HeadTailProperties
<1>3. IsSeq(Tail(s))
  BY <1>2 DEF IsSeq
<1>4. /\ Len(s) \in Nat /\ DOMAIN s = 1 .. Len(s) /\ DOMAIN Tail(s) = 1 .. Len(Tail(s))
      /\ Head(s) = s[1] /\ 1 \in DOMAIN s
  BY <1>3, SeqFacts
<1> QED
  BY <1>2, <1>3, <1>4

LEMMA ConcatFacts ==
  ASSUME NEW s, NEW r, IsSeq(s), IsSeq(r)
  PROVE  /\ IsSeq(s \o r)
         /\ DOMAIN (s \o r) = 1 .. Len(s) + Len(r)
         /\ \A k \in DOMAIN (s \o r) :
              \/ k \in DOMAIN s /\ (s \o r)[k] = s[k]
              \/ k - Len(s) \in DOMAIN r /\ (s \o r)[k] = r[k - Len(s)]
<1>1. PICK S : s \in Seq(S) /\ r \in Seq(S)
  BY SameElements
<1>2. /\ s \o r \in Seq(S) /\ Len(s \o r) = Len(s) + Len(r)
      /\ \A i \in 1 .. Len(s) + Len(r) : (s \o r)[i] = IF i <= Len(s) THEN s[i] ELSE r[i - Len(s)]
  BY <1>1, ConcatProperties
<1>3. IsSeq(s \o r)
  BY <1>2 DEF IsSeq
<1>4. /\ Len(s) \in Nat /\ DOMAIN s = 1 .. Len(s) /\ Len(r) \in Nat /\ DOMAIN r = 1 .. Len(r)
      /\ DOMAIN (s \o r) = 1 .. Len(s) + Len(r)
  BY <1>2, <1>3, SeqFacts
<1>5. ASSUME NEW k \in 1 .. Len(s) + Len(r)
      PROVE  \/ k \in DOMAIN s /\ (s \o r)[k] = s[k]
             \/ k - Len(s) \in DOMAIN r /\ (s \o r)[k] = r[k - Len(s)]
  <2>1. CASE k <= Len(s)
    BY <2>1, <1>2, <1>4
  <2>2. CASE ~(k <= Len(s))
    BY <2>2, <1>2, <1>4
  <2> QED
    BY <2>1, <2>2
<1> QED
  BY <1>3, <1>4, <1>5

LEMMA AppendFacts ==
  ASSUME NEW s, NEW e, IsSeq(s)
  PROVE  /\ IsSeq(Append(s, e))
         /\ DOMAIN Append(s, e) = 1 .. Len(s) + 1
         /\ \A k \in 1 .. Len(s) : k \in DOMAIN s /\ Append(s, e)[k] = s[k]
         /\ Append(s, e)[Len(s) + 1] = e
<1>1. PICK S : s \in Seq(S) /\ <<e>> \in Seq(S)
  BY SameElements, ShortSeqs
<1>2. e \in S
  BY <1>1, ElementOfSeq, ShortSeqs
<1>3. /\ Append(s, e) \in Seq(S) /\ Len(Append(s, e)) = Len(s) + 1
      /\ \A i \in 1 .. Len(s) : Append(s, e)[i] = s[i]
      /\ Append(s, e)[Len(s) + 1] = e
  BY <1>1, <1>2, AppendProperties
<1>4. IsSeq(Append(s, e))
  BY <1>3 DEF IsSeq
<1> QED
  BY <1>3, <1>4, SeqFacts

-----------------------------------------------------------------------------
(* Handlers *)

HandlerSeq(hs) == \E S : hs \in Seq(S) /\ \A h \in S : h.c \in Channels

IsWrite(h, c) == h.c = c /\ h.op = "write"
None(hs, c) == \E S : hs \in Seq(S) /\ \A h \in S : ~IsWrite(h, c)
AtMostOne(hs, c) == \A j, k \in DOMAIN hs : IsWrite(hs[j], c) /\ IsWrite(hs[k], c) => j = k

\* There are no more writes in one sequence than in another one.
NoMore(r, s, c) == (None(s, c) => None(r, c)) /\ (AtMostOne(s, c) => AtMostOne(r, c))

LEMMA NoHandlers ==
  ASSUME NEW S, NEW hs \in Seq(S)
  PROVE  /\ (\A h \in S : h.c \in Channels) => HandlerSeq(hs)
         /\ \A c : (\A h \in S : ~IsWrite(h, c)) => None(hs, c)
BY DEF HandlerSeq, None

LEMMA HandlerSeqs ==
  /\ HandlerSeq(<<>>) /\ \A c : None(<<>>, c)
  /\ \A h : h.c \in Channels => HandlerSeq(<<h>>)
  /\ \A h, c : ~IsWrite(h, c) => None(<<h>>, c)
<1>1. HandlerSeq(<<>>) /\ \A c : None(<<>>, c)
  <2>1. PICK S, s : S = {} /\ s = <<>>
    OBVIOUS
  <2>2. s \in Seq(S) /\ \A h \in S : FALSE
    BY <2>1
  <2>3. HandlerSeq(s) /\ \A c : None(s, c)
    BY <2>2, NoHandlers
  <2> QED
    BY <2>1, <2>3
<1>2. ASSUME NEW h
      PROVE  /\ h.c \in Channels => HandlerSeq(<<h>>)
             /\ \A c : ~IsWrite(h, c) => None(<<h>>, c)
  <2>1. PICK S, s : S = {h} /\ s = <<h>>
    OBVIOUS
  <2>2. s \in Seq(S) /\ \A g \in S : g = h
    BY <2>1
  <2>3. /\ h.c \in Channels => HandlerSeq(s)
        /\ \A c : ~IsWrite(h, c) => None(s, c)
    BY <2>2, NoHandlers
  <2> QED
    BY <2>1, <2>3
<1> QED
  BY <1>1, <1>2

LEMMA NoneIsIn ==
  ASSUME NEW hs, NEW c, None(hs, c)
  PROVE  \A k \in DOMAIN hs : ~IsWrite(hs[k], c)
<1>1. PICK S : hs \in Seq(S) /\ \A h \in S : ~IsWrite(h, c)
  BY DEF None
<1>2. \A k \in DOMAIN hs : hs[k] \in S
  BY <1>1, LenProperties, ElementOfSeq
<1> QED
  BY <1>1, <1>2

LEMMA IsNone ==
  ASSUME NEW hs, NEW c, IsSeq(hs), \A k \in DOMAIN hs : ~IsWrite(hs[k], c)
  PROVE  None(hs, c)
<1> DEFINE S == {hs[k] : k \in DOMAIN hs}
<1>1. PICK T : hs \in Seq(T)
  BY DEF IsSeq
<1>2. Len(hs) \in Nat /\ DOMAIN hs = 1 .. Len(hs) /\ hs \in [1 .. Len(hs) -> T]
  BY <1>1, LenProperties
<1>3. hs \in [1 .. Len(hs) -> S]
  BY <1>2
<1>4. hs \in Seq(S)
  BY <1>2, <1>3, SeqDef
<1> QED
  BY <1>4 DEF None

LEMMA HandlerTail ==
  ASSUME NEW hs, HandlerSeq(hs), hs # <<>>
  PROVE  /\ HandlerSeq(Tail(hs)) /\ Head(hs).c \in Channels
         /\ \A c : /\ NoMore(Tail(hs), hs, c)
                   /\ IsWrite(Head(hs), c) => ~None(hs, c)
                   /\ IsWrite(Head(hs), c) /\ AtMostOne(hs, c) => None(Tail(hs), c)
<1>1. PICK S : hs \in Seq(S) /\ \A h \in S : h.c \in Channels
  BY DEF HandlerSeq
<1>2. Head(hs) \in S /\ Tail(hs) \in Seq(S)
  BY <1>1, HeadTailProperties
<1>3. HandlerSeq(Tail(hs)) /\ Head(hs).c \in Channels
  BY <1>1, <1>2 DEF HandlerSeq
<1>4. /\ IsSeq(hs) /\ IsSeq(Tail(hs))
      /\ Head(hs) = hs[1] /\ 1 \in DOMAIN hs /\ DOMAIN Tail(hs) \subseteq Nat
      /\ \A k \in DOMAIN Tail(hs) : k + 1 \in DOMAIN hs /\ k + 1 # 1 /\ Tail(hs)[k] = hs[k + 1]
  <2>1. IsSeq(hs)
    BY <1>1 DEF IsSeq
  <2>2. IsSeq(Tail(hs))
    BY <1>2 DEF IsSeq
  <2> QED
    BY <2>1, <2>2, TailFacts, SeqFacts
<1>5. ASSUME NEW c
      PROVE  /\ NoMore(Tail(hs), hs, c)
             /\ IsWrite(Head(hs), c) => ~None(hs, c)
             /\ IsWrite(Head(hs), c) /\ AtMostOne(hs, c) => None(Tail(hs), c)
  <2>1. None(hs, c) => None(Tail(hs), c)
    <3>1. None(hs, c) => \A k \in DOMAIN Tail(hs) : ~IsWrite(Tail(hs)[k], c)
      BY <1>4, NoneIsIn
    <3> QED
      BY <1>4, <3>1, IsNone
  <2>2. AtMostOne(hs, c) => AtMostOne(Tail(hs), c)
    <3>1. ASSUME AtMostOne(hs, c), NEW j \in DOMAIN Tail(hs), NEW k \in DOMAIN Tail(hs),
                 IsWrite(Tail(hs)[j], c), IsWrite(Tail(hs)[k], c)
          PROVE  j = k
      <4>1. j + 1 = k + 1
        BY <1>4, <3>1 DEF AtMostOne
      <4> QED
        BY <1>4, <4>1
    <3> QED
      BY <3>1 DEF AtMostOne
  <2>3. IsWrite(Head(hs), c) => ~None(hs, c)
    BY <1>4, NoneIsIn
  <2>4. ASSUME IsWrite(Head(hs), c), AtMostOne(hs, c)
        PROVE  None(Tail(hs), c)
    <3>1. \A k \in DOMAIN Tail(hs) : ~IsWrite(Tail(hs)[k], c)
      BY <1>4, <2>4 DEF AtMostOne
    <3> QED
      BY <1>4, <3>1, IsNone
  <2> QED
    BY <2>1, <2>2, <2>3, <2>4 DEF NoMore
<1> QED
  BY <1>3, <1>5

LEMMA NoneAtMostOne ==
  ASSUME NEW hs, NEW c, None(hs, c)
  PROVE  AtMostOne(hs, c)
BY NoneIsIn DEF AtMostOne

LEMMA HandlerConcat ==
  ASSUME NEW s, NEW r, HandlerSeq(s), HandlerSeq(r)
  PROVE  /\ HandlerSeq(s \o r)
         /\ \A c : /\ None(r, c) => NoMore(s \o r, s, c)
                   /\ None(s, c) /\ AtMostOne(r, c) => AtMostOne(s \o r, c)
<1>1. PICK S : s \in Seq(S) /\ \A h \in S : h.c \in Channels
  BY DEF HandlerSeq
<1>2. PICK R : r \in Seq(R) /\ \A h \in R : h.c \in Channels
  BY DEF HandlerSeq
<1>3. HandlerSeq(s \o r)
  <2>1. s \in Seq(S \cup R) /\ r \in Seq(S \cup R)
    BY <1>1, <1>2, SeqMonotonic
  <2>2. s \o r \in Seq(S \cup R)
    BY <2>1, ConcatProperties
  <2> QED
    BY <1>1, <1>2, <2>2 DEF HandlerSeq
<1>4. /\ IsSeq(s) /\ IsSeq(r) /\ IsSeq(s \o r) /\ Len(s) \in Nat /\ Len(r) \in Nat
      /\ DOMAIN (s \o r) = 1 .. Len(s) + Len(r)
      /\ \A k \in DOMAIN (s \o r) :
              \/ k \in DOMAIN s /\ (s \o r)[k] = s[k]
              \/ k - Len(s) \in DOMAIN r /\ (s \o r)[k] = r[k - Len(s)]
  <2>1. IsSeq(s) /\ IsSeq(r)
    BY <1>1, <1>2 DEF IsSeq
  <2> QED
    BY <2>1, ConcatFacts, SeqFacts
<1>5. ASSUME NEW c
      PROVE  /\ None(r, c) => NoMore(s \o r, s, c)
             /\ None(s, c) /\ AtMostOne(r, c) => AtMostOne(s \o r, c)
  <2>1. None(r, c) /\ None(s, c) => None(s \o r, c)
    <3>1. None(r, c) /\ None(s, c) => \A k \in DOMAIN (s \o r) : ~IsWrite((s \o r)[k], c)
      BY <1>4, NoneIsIn
    <3> QED
      BY <1>4, <3>1, IsNone
  <2>2. ASSUME None(r, c), AtMostOne(s, c)
        PROVE  AtMostOne(s \o r, c)
    <3>1. \A k \in DOMAIN (s \o r) :
            IsWrite((s \o r)[k], c) => k \in DOMAIN s /\ IsWrite(s[k], c)
      BY <1>4, <2>2, NoneIsIn
    <3> QED
      BY <2>2, <3>1 DEF AtMostOne
  <2>3. ASSUME None(s, c), AtMostOne(r, c)
        PROVE  AtMostOne(s \o r, c)
    <3>1. \A k \in DOMAIN (s \o r) :
            IsWrite((s \o r)[k], c) => k - Len(s) \in DOMAIN r /\ IsWrite(r[k - Len(s)], c)
      BY <1>4, <2>3, NoneIsIn
    <3>2. ASSUME NEW j \in DOMAIN (s \o r), NEW k \in DOMAIN (s \o r),
                 IsWrite((s \o r)[j], c), IsWrite((s \o r)[k], c)
          PROVE  j = k
      <4>1. j - Len(s) = k - Len(s)
        BY <2>3, <3>1, <3>2 DEF AtMostOne
      <4> QED
        BY <1>4, <4>1
    <3> QED
      BY <3>2 DEF AtMostOne
  <2> QED
    BY <2>1, <2>2, <2>3 DEF NoMore
<1> QED
  BY <1>3, <1>5

LEMMA HandlerAppend ==
  ASSUME NEW hs, NEW h, HandlerSeq(hs), h.c \in Channels
  PROVE  /\ HandlerSeq(Append(hs, h))
         /\ \A c : /\ ~IsWrite(h, c) => NoMore(Append(hs, h), hs, c)
                   /\ None(hs, c) => AtMostOne(Append(hs, h), c)
<1>1. PICK S : hs \in Seq(S) /\ <<h>> \in Seq(S)
  BY SameElements, ShortSeqs DEF HandlerSeq, IsSeq
<1>2. h \in S
  BY <1>1, ElementOfSeq, ShortSeqs
<1>3. Append(hs, h) = hs \o <<h>>
  BY <1>1, <1>2, AppendIsConcat
<1>4. \A c : AtMostOne(<<h>>, c)
  BY ShortSeqs DEF AtMostOne
<1> QED
  BY <1>3, <1>4, HandlerSeqs, HandlerConcat
-----------------------------------------------------------------------------
(* Instructions *)

\* Steps that a thread takes as soon as it has decided on them.
Locked == {"async_write", "write_locked"}

\* The env writes on the trading connection only.
Sound(t, i) ==
  /\ i.c \in Channels
  /\ t = "env" /\ i.do \in {"send", "test", "write"} => i.c = "trading"

Calm(t, s) == \E S : s \in Seq(S) /\ \A i \in S : Sound(t, i) /\ i.do \notin Locked

LEMMA CalmTail ==
  ASSUME NEW t, NEW s, Calm(t, s), s # <<>>
  PROVE  Sound(t, Head(s)) /\ Head(s).do \notin Locked /\ Calm(t, Tail(s))
<1>1. PICK S : s \in Seq(S) /\ \A i \in S : Sound(t, i) /\ i.do \notin Locked
  BY DEF Calm
<1>2. Head(s) \in S /\ Tail(s) \in Seq(S)
  BY <1>1, HeadTailProperties
<1> QED
  BY <1>1, <1>2 DEF Calm

LEMMA CalmConcat ==
  ASSUME NEW t, NEW s, NEW r, Calm(t, s), Calm(t, r)
  PROVE  Calm(t, s \o r)
<1>1. PICK S : s \in Seq(S) /\ \A i \in S : Sound(t, i) /\ i.do \notin Locked
  BY DEF Calm
<1>2. PICK R : r \in Seq(R) /\ \A i \in R : Sound(t, i) /\ i.do \notin Locked
  BY DEF Calm
<1>3. s \in Seq(S \cup R) /\ r \in Seq(S \cup R)
  BY <1>1, <1>2, SeqMonotonic
<1>4. s \o r \in Seq(S \cup R)
  BY <1>3, ConcatProperties
<1> QED
  BY <1>1, <1>2, <1>4 DEF Calm

LEMMA IsCalm ==
  ASSUME NEW t, NEW S, NEW s \in Seq(S), \A i \in S : Sound(t, i) /\ i.do \notin Locked
  PROVE  Calm(t, s)
BY DEF Calm

LEMMA CalmShort ==
  ASSUME NEW t
  PROVE  /\ Calm(t, <<>>)
         /\ \A a : Sound(t, a) /\ a.do \notin Locked => Calm(t, <<a>>)
<1>1. <<>> \in Seq({}) /\ \A i \in {} : Sound(t, i) /\ i.do \notin Locked
  OBVIOUS
<1>2. Calm(t, <<>>)
  <2>1. PICK S, s : S = {} /\ s = <<>>
    OBVIOUS
  <2>2. s \in Seq(S) /\ \A i \in S : Sound(t, i) /\ i.do \notin Locked
    BY <1>1, <2>1
  <2>3. Calm(t, s)
    BY <2>2, IsCalm
  <2> QED
    BY <2>1, <2>3
<1>3. ASSUME NEW a, Sound(t, a), a.do \notin Locked PROVE Calm(t, <<a>>)
  <2>1. PICK S, s : S = {a} /\ s = <<a>>
    OBVIOUS
  <2>2. s \in Seq(S) /\ \A i \in S : Sound(t, i) /\ i.do \notin Locked
    BY <1>3, <2>1
  <2>3. Calm(t, s)
    BY <2>2, IsCalm
  <2> QED
    BY <2>1, <2>3
<1> QED
  BY <1>2, <1>3

LEMMA CalmPair ==
  ASSUME NEW t, NEW a, NEW b,
         Sound(t, a), Sound(t, b), {a.do, b.do} \cap Locked = {}
  PROVE  Calm(t, <<a, b>>)
<1>1. <<a, b>> \in Seq({a, b})
  OBVIOUS
<1>2. \A i \in {a, b} : Sound(t, i) /\ i.do \notin Locked
  OBVIOUS
<1> QED
  BY <1>1, <1>2 DEF Calm

LEMMA CalmTriple ==
  ASSUME NEW t, NEW a, NEW b, NEW d,
         Sound(t, a), Sound(t, b), Sound(t, d), {a.do, b.do, d.do} \cap Locked = {}
  PROVE  Calm(t, <<a, b, d>>)
<1>1. <<a, b, d>> \in Seq({a, b, d})
  OBVIOUS
<1>2. \A i \in {a, b, d} : Sound(t, i) /\ i.do \notin Locked
  OBVIOUS
<1> QED
  BY <1>1, <1>2 DEF Calm

LEMMA InFront ==
  ASSUME NEW t, NEW a, NEW s, Calm(t, s)
  PROVE  <<a>> \o s # <<>> /\ Head(<<a>> \o s) = a /\ Tail(<<a>> \o s) = s
<1>1. PICK S : s \in Seq(S)
  BY DEF Calm
<1>2. s \in Seq(S \cup {a}) /\ <<a>> \in Seq(S \cup {a})
  <2>1. <<a>> \in Seq({a})
    OBVIOUS
  <2> QED
    BY <1>1, <2>1, SeqMonotonic
<1> QED
  BY <1>2

-----------------------------------------------------------------------------
(* One write at a time (OneWriteAtATime).  A write is in one place only:   *)
(* the next instruction of a thread, the operations pending on the stream, *)
(* or the handlers that are ready; and as long as it is in one of them the *)
(* flag is_writing is up.                                                  *)

(* The invariant *)

WritesOf(P) == {o \in P : o.op = "write"}
Alone(S) == \A x, y \in S : x = y

\* The places in which a write of stream c may be: the threads of W, the
\* operations of P and the handlers of hs.
OnePlace(flag, W, P, hs, c) ==
  /\ ~flag => W = {} /\ WritesOf(P) = {} /\ None(hs, c)
  /\ Alone(W) /\ Alone(WritesOf(P)) /\ AtMostOne(hs, c)
  /\ W # {} => WritesOf(P) = {} /\ None(hs, c)
  /\ WritesOf(P) # {} => None(hs, c)

StreamType ==
  /\ pending = [c \in Channels |-> pending[c]]
  /\ \A c \in Channels : IsFiniteSet(pending[c])
  /\ HandlerSeq(handlers)

TodoInv ==
  /\ todo = [t \in Threads |-> todo[t]]
  /\ \A t \in Threads : todo[t] # <<>> => Sound(t, Head(todo[t])) /\ Calm(t, Tail(todo[t]))

\* The test of the flag of the market connection outside its lock is enough:
\* only the io thread writes there.
LockInv == \A t \in Threads : IsNext(t, "write_locked") => t = "io" /\ ~is_writing["market"]

WriteInv ==
  \A c \in Channels : OnePlace(is_writing[c], Writing(c), pending[c], handlers, c)

OneWriteInv == is_writing \in [Channels -> BOOLEAN] /\ StreamType /\ TodoInv /\ LockInv /\ WriteInv

\* What most steps do: no thread comes to a write, ...
NoNewWriter ==
  /\ TodoInv'
  /\ \A c \in Channels : Writing(c)' \subseteq Writing(c)
  /\ \A t \in Threads : IsNext(t, "write_locked")' => IsNext(t, "write_locked")

\* ... and no write comes to a stream or a handler.
NoNewWrite ==
  /\ StreamType'
  /\ \A c \in Channels :
       WritesOf(pending'[c]) \subseteq WritesOf(pending[c]) /\ NoMore(handlers', handlers, c)

LEMMA Harmless ==
  OneWriteInv /\ UNCHANGED is_writing /\ NoNewWriter /\ NoNewWrite => OneWriteInv'
<1> SUFFICES ASSUME OneWriteInv, UNCHANGED is_writing, NoNewWriter, NoNewWrite PROVE OneWriteInv'
  OBVIOUS
<1>1. WriteInv'
  <2> SUFFICES ASSUME NEW c \in Channels
               PROVE  OnePlace(is_writing[c], Writing(c), pending[c], handlers, c)'
    BY DEF WriteInv
  <2>1. OnePlace(is_writing[c], Writing(c), pending[c], handlers, c)
    BY DEF OneWriteInv, WriteInv
  <2>2. /\ Writing(c)' \subseteq Writing(c)
        /\ WritesOf(pending'[c]) \subseteq WritesOf(pending[c])
        /\ NoMore(handlers', handlers, c)
    BY DEF NoNewWriter, NoNewWrite
  <2>3. OnePlace(is_writing[c], Writing(c)', pending'[c], handlers', c)
    <3> HIDE DEF Writing, WritesOf
    <3> QED
      BY <2>1, <2>2 DEF OnePlace, Alone, NoMore
  <2> QED
    BY <2>3
<1>2. LockInv'
  BY DEF OneWriteInv, LockInv, NoNewWriter
<1> QED
  BY <1>1, <1>2 DEF OneWriteInv, NoNewWriter, NoNewWrite
-----------------------------------------------------------------------------
(* Steps of a thread *)

LEMMA SameTodo ==
  OneWriteInv /\ UNCHANGED todo => NoNewWriter
BY DEF OneWriteInv, TodoInv, NoNewWriter, Writing, IsNext

LEMMA SameStreams ==
  OneWriteInv /\ UNCHANGED <<pending, handlers>> => NoNewWrite
BY DEF OneWriteInv, StreamType, NoNewWrite, NoMore

LEMMA CalmStep ==
  ASSUME OneWriteInv, NEW t \in Threads, NEW s, Calm(t, s), todo' = [todo EXCEPT ![t] = s]
  PROVE  NoNewWriter /\ \A c : t \notin Writing(c)'
<1>1. /\ todo'[t] = s /\ \A u \in Threads : u # t => todo'[u] = todo[u]
      /\ todo' = [u \in Threads |-> todo'[u]]
  BY DEF OneWriteInv, TodoInv
<1>2. TodoInv'
  BY <1>1, CalmTail DEF OneWriteInv, TodoInv
<1>3. ~IsNext(t, "async_write")' /\ ~IsNext(t, "write_locked")'
  BY <1>1, CalmTail DEF IsNext, Locked
<1>4. \A u \in Threads : u # t => \A what : IsNext(u, what)' = IsNext(u, what)
  BY <1>1 DEF IsNext
<1>5. \A c : Writing(c)' \subseteq Writing(c) /\ t \notin Writing(c)'
  BY <1>1, <1>3, <1>4 DEF Writing
<1> QED
  BY <1>2, <1>3, <1>4, <1>5 DEF NoNewWriter

LEMMA CalmProceed ==
  ASSUME OneWriteInv, NEW t \in Threads, NEW s, Calm(t, s), todo[t] # <<>>, Proceed(t, s)
  PROVE  NoNewWriter /\ \A c : t \notin Writing(c)'
<1>1. Calm(t, s \o Tail(todo[t]))
  BY CalmConcat DEF OneWriteInv, TodoInv
<1>2. todo' = [todo EXCEPT ![t] = s \o Tail(todo[t])]
  BY DEF Proceed, OneWriteInv, TodoInv
<1> QED
  BY <1>1, <1>2, CalmStep

LEMMA LockedProceed ==
  ASSUME OneWriteInv, NEW t \in Threads, NEW a, Sound(t, a), todo[t] # <<>>, Proceed(t, <<a>>)
  PROVE  /\ TodoInv'
         /\ todo'[t] # <<>> /\ Head(todo'[t]) = a
         /\ \A u \in Threads : u # t => todo'[u] = todo[u]
<1>1. Calm(t, Tail(todo[t]))
  BY DEF OneWriteInv, TodoInv
<1>2. /\ todo'[t] = <<a>> \o Tail(todo[t]) /\ \A u \in Threads : u # t => todo'[u] = todo[u]
      /\ todo' = [u \in Threads |-> todo'[u]]
  BY DEF Proceed, OneWriteInv, TodoInv
<1>3. todo'[t] # <<>> /\ Head(todo'[t]) = a /\ Tail(todo'[t]) = Tail(todo[t])
  BY <1>1, <1>2, InFront
<1>4. TodoInv'
  BY <1>1, <1>2, <1>3 DEF OneWriteInv, TodoInv
<1> QED
  BY <1>2, <1>3, <1>4

\* The next instruction of a thread.
LEMMA NextIsSound ==
  ASSUME OneWriteInv, NEW t \in Threads, NEW what, IsNext(t, what)
  PROVE  todo[t] # <<>> /\ Sound(t, Head(todo[t])) /\ Head(todo[t]).do = what
BY DEF OneWriteInv, TodoInv, IsNext

-----------------------------------------------------------------------------
(* Sending *)

LEMMA SendMessage ==
  ASSUME OneWriteInv, NEW t \in Threads, send_message(t)
  PROVE  OneWriteInv'
<1>1. todo[t] # <<>> /\ Sound(t, Head(todo[t])) /\ Head(todo[t]).do = "send"
  BY NextIsSound DEF send_message
<1> DEFINE a == Call("test", Head(todo[t]).c)
<1>2. Calm(t, <<a>>) /\ Calm(t, <<>>)
  <2>1. Sound(t, a) /\ a.do \notin Locked
    BY <1>1 DEF Sound, Call, Locked
  <2> QED
    BY <2>1, CalmShort
<1>3. Proceed(t, <<a>>) \/ Proceed(t, <<>>)
  BY DEF send_message
<1>4. NoNewWriter
  BY <1>1, <1>2, <1>3, CalmProceed
<1> QED
  BY <1>4, SameStreams, Harmless DEF send_message, streamVars

LEMMA TestWriting ==
  ASSUME OneWriteInv, NEW t \in Threads, test_writing(t)
  PROVE  OneWriteInv'
<1>1. todo[t] # <<>> /\ Sound(t, Head(todo[t])) /\ Head(todo[t]).do = "test"
  BY NextIsSound DEF test_writing
<1> DEFINE a == Call("write", Head(todo[t]).c)
<1>2. Calm(t, <<a>>) /\ Calm(t, <<>>)
  <2>1. Sound(t, a) /\ a.do \notin Locked
    BY <1>1 DEF Sound, Call, Locked
  <2> QED
    BY <2>1, CalmShort
<1>3. Proceed(t, <<a>>) \/ Proceed(t, <<>>)
  BY DEF test_writing
<1>4. NoNewWriter
  BY <1>1, <1>2, <1>3, CalmProceed
<1> QED
  BY <1>4, SameStreams, Harmless DEF test_writing, streamVars

\* The flag was down, so there was no write anywhere.
LEMMA Takes ==
  ASSUME OneWriteInv, NEW t \in Threads, NEW c \in Channels, todo[t] # <<>>, TakeNext(t, c),
         ~is_writing[c], t = "env" => c = "trading", UNCHANGED <<pending, handlers>>
  PROVE  OneWriteInv'
<1> DEFINE a == [do |-> "async_write", c |-> c, m |-> Head(message_queue[c])]
<1>1. Sound(t, a)
  BY DEF Sound
<1>2. /\ TodoInv' /\ todo'[t] # <<>> /\ Head(todo'[t]) = a
      /\ \A u \in Threads : u # t => todo'[u] = todo[u]
  BY <1>1, LockedProceed DEF TakeNext
<1>3. /\ is_writing' \in [Channels -> BOOLEAN] /\ is_writing'[c]
      /\ \A d \in Channels : d # c => is_writing'[d] = is_writing[d]
  BY DEF TakeNext, OneWriteInv
<1>4. ASSUME NEW d \in Channels
      PROVE  Writing(d)' \subseteq IF d = c THEN Writing(d) \cup {t} ELSE Writing(d)
  BY <1>2 DEF Writing, IsNext
<1>5. WriteInv'
  <2> SUFFICES ASSUME NEW d \in Channels
               PROVE  OnePlace(is_writing[d], Writing(d), pending[d], handlers, d)'
    BY DEF WriteInv
  <2>1. OnePlace(is_writing[d], Writing(d), pending[d], handlers, d)
    BY DEF OneWriteInv, WriteInv
  <2>2. CASE d = c
    <3>1. Writing(d)' \subseteq {t}
      BY <1>4, <2>1, <2>2 DEF OnePlace
    <3>2. OnePlace(is_writing'[d], Writing(d)', pending[d], handlers, d)
      <4> HIDE DEF Writing, WritesOf
      <4> QED
        BY <1>3, <2>1, <2>2, <3>1, NoneAtMostOne DEF OnePlace, Alone
    <3> QED
      BY <3>2
  <2>3. CASE d # c
    <3>1. OnePlace(is_writing'[d], Writing(d)', pending[d], handlers, d)
      BY <1>3, <1>4, <2>1, <2>3 DEF OnePlace, Alone
    <3> QED
      BY <3>1
  <2> QED
    BY <2>2, <2>3
<1>6. LockInv'
  <2>1. ~IsNext(t, "write_locked")'
    BY <1>2 DEF IsNext
  <2>2. ASSUME NEW u \in Threads, IsNext(u, "write_locked")'
        PROVE  u = "io" /\ ~is_writing'["market"]
    <3>1. u # t /\ IsNext(u, "write_locked")
      BY <1>2, <2>1, <2>2 DEF IsNext
    <3>2. u = "io" /\ ~is_writing["market"]
      BY <3>1 DEF OneWriteInv, LockInv
    <3>3. c # "market" /\ "market" \in Channels
      BY <3>1, <3>2 DEF Threads, Channels
    <3> QED
      BY <1>3, <3>2, <3>3
  <2> QED
    BY <2>2 DEF LockInv
<1> QED
  BY <1>2, <1>3, <1>5, <1>6 DEF OneWriteInv, StreamType

LEMMA WriteNextMessage ==
  ASSUME OneWriteInv, NEW t \in Threads, write_next_message(t)
  PROVE  OneWriteInv'
<1>1. todo[t] # <<>> /\ UNCHANGED <<pending, handlers>> /\ "trading" \in Channels
  BY NextIsSound DEF write_next_message, streamVars, Channels
<1>2. CASE MayWrite("trading")
  BY <1>1, <1>2, Takes DEF write_next_message, MayWrite
<1>3. CASE ~MayWrite("trading")
  <2>1. Proceed(t, <<>>) /\ UNCHANGED is_writing
    BY <1>3 DEF write_next_message
  <2>2. NoNewWriter
    BY <1>1, <2>1, CalmShort, CalmProceed
  <2> QED
    BY <1>1, <2>1, <2>2, SameStreams, Harmless
<1> QED
  BY <1>2, <1>3

LEMMA WriteNextMarketMessage ==
  ASSUME OneWriteInv, NEW t \in Threads, write_next_market_message(t)
  PROVE  OneWriteInv'
<1>1. UNCHANGED <<pending, handlers>> /\ "market" \in Channels
  BY DEF write_next_market_message, streamVars, Channels
<1>2. ASSUME todo[t] # <<>>, Proceed(t, <<>>), UNCHANGED is_writing
      PROVE  OneWriteInv'
  <2>1. NoNewWriter
    BY <1>2, CalmShort, CalmProceed
  <2> QED
    BY <1>1, <1>2, <2>1, SameStreams, Harmless
<1>3. CASE IsNext(t, "write")
  <2>1. /\ todo[t] # <<>> /\ Sound(t, Head(todo[t])) /\ Head(todo[t]).do = "write"
        /\ Head(todo[t]).c = "market"
    BY <1>3, NextIsSound DEF write_next_market_message, IsNext
  <2>2. t = "io"
    BY <2>1 DEF Sound, Threads
  <2> DEFINE a == Call("write_locked", "market")
  <2>3. UNCHANGED is_writing /\ (Proceed(t, <<>>) \/ (~is_writing["market"] /\ Proceed(t, <<a>>)))
    <3>1. /\ UNCHANGED is_writing
          /\ Proceed(t, IF message_queue["market"] # <<>> /\ ~is_writing["market"]
                        THEN <<a>> ELSE <<>>)
      BY <2>1 DEF write_next_market_message, IsNext
    <3> QED
      BY <3>1
  <2>4. CASE Proceed(t, <<>>)
    BY <1>2, <2>1, <2>3, <2>4
  <2>5. CASE ~is_writing["market"] /\ Proceed(t, <<a>>)
    <3>1. Sound(t, a) /\ a.do = "write_locked"
      BY <1>1, <2>2 DEF Sound, Call
    <3>2. /\ TodoInv' /\ todo'[t] # <<>> /\ Head(todo'[t]) = a
          /\ \A u \in Threads : u # t => todo'[u] = todo[u]
      BY <2>1, <2>5, <3>1, LockedProceed
    <3>3. LockInv'
      BY <2>2, <2>3, <2>5, <3>2 DEF OneWriteInv, LockInv, IsNext
    <3>4. \A d \in Channels : Writing(d)' \subseteq Writing(d)
      BY <3>1, <3>2 DEF Writing, IsNext
    <3>5. WriteInv'
      <4> SUFFICES ASSUME NEW d \in Channels
                   PROVE  OnePlace(is_writing[d], Writing(d), pending[d], handlers, d)'
        BY DEF WriteInv
      <4>1. OnePlace(is_writing[d], Writing(d), pending[d], handlers, d)
        BY DEF OneWriteInv, WriteInv
      <4>2. OnePlace(is_writing[d], Writing(d)', pending[d], handlers, d)
        BY <3>4, <4>1 DEF OnePlace, Alone
      <4> QED
        BY <1>1, <2>3, <4>2
    <3> QED
      BY <1>1, <2>3, <3>2, <3>3, <3>5 DEF OneWriteInv, StreamType
  <2> QED
    BY <2>3, <2>4, <2>5
<1>4. CASE IsNext(t, "write_locked")
  <2>1. todo[t] # <<>> /\ t = "io" /\ ~is_writing["market"] /\ Head(todo[t]).do # "write"
    BY <1>4, NextIsSound DEF OneWriteInv, LockInv
  <2>2. TakeNext(t, "market") \/ (Proceed(t, <<>>) /\ UNCHANGED is_writing)
    BY <2>1 DEF write_next_market_message, IsNext
  <2> QED
    BY <1>1, <1>2, <2>1, <2>2, Takes
<1> QED
  BY <1>3, <1>4 DEF write_next_market_message

-----------------------------------------------------------------------------
(* Operations on a stream *)

\* An operation that does not write is started, after hs was taken from the
\* handlers.
LEMMA BeginsOther ==
  ASSUME OneWriteInv, NEW c \in Channels, NEW o, NEW hs, o.op # "write",
         HandlerSeq(hs), \A d \in Channels : NoMore(hs, handlers, d), Begin(c, o, hs)
  PROVE  NoNewWrite
<1> DEFINE h == Handler(c, o, FALSE)
<1>1. h.c \in Channels /\ \A d : ~IsWrite(h, d)
  BY DEF Handler, IsWrite
<1>2. CASE pending' = [pending EXCEPT ![c] = @ \cup {o}] /\ handlers' = hs
  <2>1. /\ pending' = [d \in Channels |-> pending'[d]]
        /\ \A d \in Channels : pending'[d] = IF d = c THEN pending[d] \cup {o} ELSE pending[d]
    BY <1>2 DEF OneWriteInv, StreamType
  <2>2. \A d \in Channels : IsFiniteSet(pending'[d])
    BY <2>1, FS_AddElement DEF OneWriteInv, StreamType
  <2>3. \A d \in Channels : WritesOf(pending'[d]) \subseteq WritesOf(pending[d])
    BY <2>1 DEF WritesOf
  <2> QED
    BY <1>2, <2>1, <2>2, <2>3 DEF NoNewWrite, StreamType
<1>3. CASE handlers' = Append(hs, h) /\ UNCHANGED pending
  BY <1>1, <1>3, HandlerAppend DEF OneWriteInv, StreamType, NoNewWrite, NoMore
<1> QED
  BY <1>2, <1>3 DEF Begin

LEMMA AsyncWrite ==
  ASSUME OneWriteInv, NEW t \in Threads, async_write(t)
  PROVE  OneWriteInv'
<1>1. PICK c \in Channels :
        /\ c = Head(todo[t]).c
        /\ todo[t] # <<>> /\ t \in Writing(c) /\ UNCHANGED is_writing
  BY NextIsSound DEF async_write, Sound, Writing
<1> DEFINE o == Op("write", Head(todo[t]).m)
           h == Handler(c, o, FALSE)
<1>2. NoNewWriter /\ t \notin Writing(c)'
  BY <1>1, CalmShort, CalmProceed DEF async_write
<1>3. OnePlace(is_writing[c], Writing(c), pending[c], handlers, c)
  BY <1>1 DEF OneWriteInv, WriteInv
<1>4. /\ is_writing[c] /\ WritesOf(pending[c]) = {} /\ None(handlers, c) /\ Writing(c)' = {}
  <2>1. Writing(c) # {} /\ Alone(Writing(c))
    BY <1>1, <1>3 DEF OnePlace
  <2>2. Writing(c)' \subseteq Writing(c)
    BY <1>1, <1>2 DEF NoNewWriter
  <2>3. Writing(c)' = {}
    BY <1>1, <1>2, <2>1, <2>2 DEF Alone
  <2> QED
    BY <1>3, <2>1, <2>3 DEF OnePlace
<1>5. h.c = c /\ \A d : IsWrite(h, d) => d = c
  BY DEF Handler, IsWrite
<1>6. /\ StreamType'
      /\ \A d \in Channels : d # c => pending'[d] = pending[d] /\ NoMore(handlers', handlers, d)
      /\ \/ WritesOf(pending'[c]) = {o} /\ None(handlers', c)
         \/ WritesOf(pending'[c]) = {} /\ AtMostOne(handlers', c)
  <2>1. CASE pending' = [pending EXCEPT ![c] = @ \cup {o}] /\ handlers' = handlers
    <3>1. /\ pending' = [d \in Channels |-> pending'[d]]
          /\ \A d \in Channels : pending'[d] = IF d = c THEN pending[d] \cup {o} ELSE pending[d]
      BY <1>1, <2>1 DEF OneWriteInv, StreamType
    <3>2. \A d \in Channels : IsFiniteSet(pending'[d])
      <4> HIDE DEF o
      <4> QED
        BY <3>1, FS_AddElement DEF OneWriteInv, StreamType
    <3>3. WritesOf(pending'[c]) = {o}
      BY <1>1, <1>4, <3>1 DEF WritesOf, Op
    <3> QED
      BY <1>4, <2>1, <3>1, <3>2, <3>3 DEF StreamType, NoMore, OneWriteInv
  <2>2. CASE handlers' = Append(handlers, h) /\ UNCHANGED pending
    BY <1>1, <1>4, <1>5, <2>2, HandlerAppend DEF OneWriteInv, StreamType
  <2> QED
    BY <1>1, <2>1, <2>2 DEF async_write, Begin
<1>7. WriteInv'
  <2> SUFFICES ASSUME NEW d \in Channels
               PROVE  OnePlace(is_writing[d], Writing(d), pending[d], handlers, d)'
    BY DEF WriteInv
  <2>1. CASE d = c
    <3>1. OnePlace(is_writing[c], Writing(c)', pending'[c], handlers', c)
      BY <1>4, <1>6, NoneAtMostOne DEF OnePlace, Alone
    <3> QED
      BY <1>1, <2>1, <3>1
  <2>2. CASE d # c
    <3>1. OnePlace(is_writing[d], Writing(d), pending[d], handlers, d) /\ Writing(d)' \subseteq Writing(d)
      BY <1>2 DEF OneWriteInv, WriteInv, NoNewWriter
    <3>2. OnePlace(is_writing[d], Writing(d)', pending'[d], handlers', d)
      BY <1>6, <2>2, <3>1 DEF OnePlace, Alone, NoMore
    <3> QED
      BY <1>1, <3>2
  <2> QED
    BY <2>1, <2>2
<1> QED
  BY <1>1, <1>2, <1>6, <1>7 DEF OneWriteInv, NoNewWriter, LockInv
-----------------------------------------------------------------------------
(* The handlers of the io thread *)

LEMMA TakesHandler ==
  ASSUME OneWriteInv, handlers # <<>>
  PROVE  /\ HandlerSeq(Tail(handlers)) /\ Head(handlers).c \in Channels
         /\ \A d : NoMore(Tail(handlers), handlers, d)
BY HandlerTail DEF OneWriteInv, StreamType

LEMMA TailOnly ==
  ASSUME OneWriteInv, handlers # <<>>, handlers' = Tail(handlers), UNCHANGED pending
  PROVE  NoNewWrite
BY TakesHandler DEF OneWriteInv, StreamType, NoNewWrite

LEMMA OnConnect ==
  OneWriteInv /\ on_connect => OneWriteInv'
<1> SUFFICES ASSUME OneWriteInv, on_connect PROVE OneWriteInv'
  OBVIOUS
<1>1. handlers # <<>> /\ UNCHANGED <<is_writing, todo>>
  BY DEF on_connect, Handles
<1>2. PICK c \in Channels : c = Head(handlers).c
  BY <1>1, TakesHandler
<1> DEFINE o == Op("handshake", Nothing)
<1>3. o.op # "write" /\ Begin(c, o, Tail(handlers))
  BY <1>2 DEF on_connect, Op
<1>4. NoNewWrite
  BY <1>1, <1>3, TakesHandler, BeginsOther
<1> QED
  BY <1>1, <1>4, SameTodo, Harmless

LEMMA OnHandshake ==
  OneWriteInv /\ on_handshake => OneWriteInv'
<1> SUFFICES ASSUME OneWriteInv, on_handshake PROVE OneWriteInv'
  OBVIOUS
<1>1. /\ handlers # <<>> /\ handlers' = Tail(handlers)
      /\ UNCHANGED <<is_writing, pending>> /\ "io" \in Threads
  BY DEF on_handshake, Handles, Threads
<1>2. PICK c \in Channels : c = Head(handlers).c
  BY <1>1, TakesHandler
<1> DEFINE a == Send(c, Hello(c))
           b == Call("first_read", c)
<1>3. Calm("io", <<a, b>>)
  <2>1. Sound("io", a) /\ Sound("io", b) /\ {a.do, b.do} \cap Locked = {}
    BY DEF Sound, Send, Call, Locked
  <2> QED
    BY <2>1, CalmPair
<1>4. todo' = [todo EXCEPT !["io"] = <<a, b>>]
  BY <1>2 DEF on_handshake
<1>5. NoNewWriter
  BY <1>1, <1>3, <1>4, CalmStep
<1> QED
  BY <1>1, <1>5, TailOnly, Harmless

LEMMA DoRead ==
  OneWriteInv /\ do_read => OneWriteInv'
<1> SUFFICES ASSUME OneWriteInv, do_read PROVE OneWriteInv'
  OBVIOUS
<1>1. /\ "io" \in Threads /\ todo["io"] # <<>> /\ Head(todo["io"]).c \in Channels
      /\ UNCHANGED is_writing /\ Proceed("io", <<>>)
  BY NextIsSound DEF do_read, Threads, Sound
<1>2. NoNewWriter
  BY <1>1, CalmShort, CalmProceed
<1>3. NoNewWrite
  <2>1. CASE UNCHANGED <<pending, handlers>>
    BY <2>1, SameStreams
  <2>2. CASE Begin(Head(todo["io"]).c, Op("read", Nothing), handlers)
    <3>1. PICK c \in Channels : c = Head(todo["io"]).c
      BY <1>1
    <3> DEFINE o == Op("read", Nothing)
    <3>2. o.op # "write" /\ Begin(c, o, handlers)
      BY <2>2, <3>1 DEF Op
    <3>3. HandlerSeq(handlers) /\ \A d \in Channels : NoMore(handlers, handlers, d)
      BY DEF OneWriteInv, StreamType, NoMore
    <3> QED
      BY <3>2, <3>3, BeginsOther
  <2> QED
    BY <2>1, <2>2 DEF do_read
<1> QED
  BY <1>1, <1>2, <1>3, Harmless

LEMMA OnRead ==
  ASSUME OneWriteInv, NEW task, Calm("io", task), on_read(task)
  PROVE  OneWriteInv'
<1>1. /\ handlers # <<>> /\ handlers' = Tail(handlers)
      /\ UNCHANGED <<is_writing, pending>> /\ "io" \in Threads
  BY DEF on_read, Handles, Threads
<1>2. PICK c \in Channels : c = Head(handlers).c
  BY <1>1, TakesHandler
<1> DEFINE b == Call("read", c)
<1>3. Calm("io", task \o <<b>>)
  <2>1. Sound("io", b) /\ b.do \notin Locked
    BY DEF Sound, Call, Locked
  <2>2. Calm("io", <<b>>)
    BY <2>1, CalmShort
  <2> QED
    BY <2>2, CalmConcat
<1>4. todo' = [todo EXCEPT !["io"] = task \o <<b>>]
  BY <1>2 DEF on_read
<1>5. NoNewWriter
  BY <1>1, <1>3, <1>4, CalmStep
<1> QED
  BY <1>1, <1>5, TailOnly, Harmless

LEMMA OnError ==
  OneWriteInv /\ on_error => OneWriteInv'
<1> SUFFICES ASSUME OneWriteInv, on_error PROVE OneWriteInv'
  OBVIOUS
<1>1. /\ handlers # <<>> /\ handlers' = Tail(handlers)
      /\ UNCHANGED <<is_writing, pending>> /\ "io" \in Threads
  BY DEF on_error, Handles, Threads
<1>2. PICK c \in Channels : c = Head(handlers).c
  BY <1>1, TakesHandler
<1> DEFINE b == Call("reconnect", c)
<1>3. Calm("io", <<b>>)
  <2>1. Sound("io", b) /\ b.do \notin Locked
    BY DEF Sound, Call, Locked
  <2> QED
    BY <2>1, CalmShort
<1>4. todo' = [todo EXCEPT !["io"] = <<b>>]
  BY <1>2 DEF on_error
<1>5. NoNewWriter
  BY <1>1, <1>3, <1>4, CalmStep
<1> QED
  BY <1>1, <1>5, TailOnly, Harmless

\* The handler of a write: it was the only one of its stream, so there is none
\* when the flag goes down.
LEMMA FlagDown ==
  ASSUME OneWriteInv, NEW c \in Channels, todo["io"] = <<>>,
         handlers # <<>>, IsWrite(Head(handlers), c),
         is_writing' = [is_writing EXCEPT ![c] = FALSE],
         NoNewWriter, StreamType',
         \A d \in Channels : WritesOf(pending'[d]) \subseteq WritesOf(pending[d]),
         \A d \in Channels : WritesOf(pending[d]) = {} \/ d # c => NoMore(handlers', Tail(handlers), d)
  PROVE  OneWriteInv'
<1>1. /\ is_writing' \in [Channels -> BOOLEAN] /\ ~is_writing'[c]
      /\ \A d \in Channels : d # c => is_writing'[d] = is_writing[d]
  BY DEF OneWriteInv
<1>2. OnePlace(is_writing[c], Writing(c), pending[c], handlers, c)
  BY DEF OneWriteInv, WriteInv
<1>3. ~None(handlers, c)
  BY HandlerTail DEF OneWriteInv, StreamType
<1>4. Writing(c) = {} /\ WritesOf(pending[c]) = {} /\ AtMostOne(handlers, c)
  BY <1>2, <1>3 DEF OnePlace
<1>5. None(Tail(handlers), c)
  BY <1>4, HandlerTail DEF OneWriteInv, StreamType
<1>6. WriteInv'
  <2> SUFFICES ASSUME NEW d \in Channels
               PROVE  OnePlace(is_writing[d], Writing(d), pending[d], handlers, d)'
    BY DEF WriteInv
  <2>1. Writing(d)' \subseteq Writing(d)
    BY DEF NoNewWriter
  <2>2. CASE d = c
    <3>1. None(handlers', d)
      BY <1>4, <1>5, <2>2 DEF NoMore
    <3>2. Writing(d)' = {} /\ WritesOf(pending'[d]) = {}
      BY <1>4, <2>1, <2>2
    <3>3. OnePlace(is_writing'[d], Writing(d)', pending'[d], handlers', d)
      BY <3>1, <3>2, NoneAtMostOne DEF OnePlace, Alone
    <3> QED
      BY <3>3
  <2>3. CASE d # c
    <3>1. OnePlace(is_writing[d], Writing(d), pending[d], handlers, d)
      BY DEF OneWriteInv, WriteInv
    <3>2. NoMore(handlers', handlers, d)
      BY <2>3, TakesHandler DEF NoMore
    <3>3. WritesOf(pending'[d]) \subseteq WritesOf(pending[d]) /\ is_writing'[d] = is_writing[d]
      BY <1>1, <2>3
    <3>4. OnePlace(is_writing'[d], Writing(d)', pending'[d], handlers', d)
      <4> HIDE DEF Writing, WritesOf
      <4> QED
        BY <2>1, <3>1, <3>2, <3>3 DEF OnePlace, Alone, NoMore
    <3> QED
      BY <3>4
  <2> QED
    BY <2>2, <2>3
<1>7. LockInv'
  BY DEF OneWriteInv, LockInv, NoNewWriter, IsNext
<1> QED
  BY <1>1, <1>6, <1>7 DEF OneWriteInv, NoNewWriter

LEMMA OnWrite ==
  OneWriteInv /\ on_write => OneWriteInv'
<1> SUFFICES ASSUME OneWriteInv, on_write PROVE OneWriteInv'
  OBVIOUS
<1>1. /\ handlers # <<>> /\ handlers' = Tail(handlers) /\ UNCHANGED pending
      /\ todo["io"] = <<>> /\ Head(handlers).op = "write" /\ "io" \in Threads
  BY DEF on_write, Handles, Running, Threads
<1>2. PICK c \in Channels : c = Head(handlers).c
  BY <1>1, TakesHandler
<1> DEFINE b == Call("write", c)
<1>3. Calm("io", <<b>>) /\ Calm("io", <<>>)
  <2>1. Sound("io", b) /\ b.do \notin Locked
    BY DEF Sound, Call, Locked
  <2> QED
    BY <2>1, CalmShort
<1>4. /\ is_writing' = [is_writing EXCEPT ![c] = FALSE]
      /\ \/ todo' = [todo EXCEPT !["io"] = <<b>>]
         \/ todo' = [todo EXCEPT !["io"] = <<>>]
  BY <1>2 DEF on_write
<1>5. NoNewWriter
  BY <1>1, <1>3, <1>4, CalmStep
<1>6. NoNewWrite
  BY <1>1, TailOnly
<1>7. IsWrite(Head(handlers), c) /\ \A d : NoMore(Tail(handlers), Tail(handlers), d)
  BY <1>1, <1>2 DEF IsWrite, NoMore
<1> QED
  BY <1>1, <1>4, <1>5, <1>6, <1>7, FlagDown DEF NoNewWrite
\* What a new stream aborts: no more writes than there were on the old one.
LEMMA Aborts ==
  ASSUME OneWriteInv, NEW c \in Channels, NEW aborted \in Aborted(c)
  PROVE  /\ HandlerSeq(aborted)
         /\ \A d : d # c => None(aborted, d)
         /\ WritesOf(pending[c]) = {} => None(aborted, c)
         /\ Alone(WritesOf(pending[c])) => AtMostOne(aborted, c)
<1> DEFINE n == Cardinality(pending[c])
           S == {Handler(c, o, FALSE) : o \in pending[c]}
<1>1. n \in Nat
  BY FS_CardinalityType DEF OneWriteInv, StreamType
<1>2. PICK ops \in SetToSeqs(pending[c]) :
        aborted = [k \in DOMAIN ops |-> Handler(c, ops[k], FALSE)]
  BY DEF Aborted
<1>3. /\ ops \in [1 .. n -> pending[c]]
      /\ \A j, k \in 1 .. n : j # k => ops[j] # ops[k]
  BY <1>2 DEF SetToSeqs
<1>4. /\ aborted \in [1 .. n -> S] /\ DOMAIN aborted = 1 .. n
      /\ \A k \in 1 .. n : aborted[k] = Handler(c, ops[k], FALSE)
  BY <1>2, <1>3
<1>5. aborted \in Seq(S)
  BY <1>1, <1>4, SeqDef
<1>6. \A h \in S : h.c = c /\ \E o \in pending[c] : h.op = o.op
  BY DEF Handler
<1>7. HandlerSeq(aborted)
  <2> HIDE DEF S
  <2> QED
    BY <1>5, <1>6, NoHandlers
<1>8. \A d : d # c => None(aborted, d)
  <2> HIDE DEF S
  <2> QED
    BY <1>5, <1>6, NoHandlers DEF IsWrite
<1>9. WritesOf(pending[c]) = {} => None(aborted, c)
  <2>1. WritesOf(pending[c]) = {} => \A h \in S : ~IsWrite(h, c)
    BY <1>6 DEF IsWrite, WritesOf
  <2> HIDE DEF S
  <2> QED
    BY <1>5, <2>1, NoHandlers
<1>10. Alone(WritesOf(pending[c])) => AtMostOne(aborted, c)
  <2>1. ASSUME Alone(WritesOf(pending[c])), NEW j \in 1 .. n, NEW k \in 1 .. n,
               IsWrite(aborted[j], c), IsWrite(aborted[k], c)
        PROVE  j = k
    <3>1. ops[j] \in WritesOf(pending[c]) /\ ops[k] \in WritesOf(pending[c])
      BY <1>3, <1>4, <2>1 DEF IsWrite, Handler, WritesOf
    <3>2. ops[j] = ops[k]
      BY <2>1, <3>1 DEF Alone
    <3> QED
      BY <1>3, <3>2
  <2> QED
    BY <1>4, <2>1 DEF AtMostOne
<1> QED
  BY <1>7, <1>8, <1>9, <1>10

LEMMA SmallSets ==
  ASSUME NEW P, P \in {{}, {Connect}}
  PROVE  IsFiniteSet(P)
<1>1. IsFiniteSet({})
  BY FS_EmptySet
<1>2. IsFiniteSet({Connect})
  BY FS_Singleton
<1> QED
  BY <1>1, <1>2

LEMMA SetsUp ==
  ASSUME OneWriteInv, NEW c \in Channels, NEW throws, NEW hs, HandlerSeq(hs), SetUp(c, throws, hs)
  PROVE  /\ StreamType'
         /\ WritesOf(pending'[c]) = {}
         /\ \A d \in Channels : d # c => pending'[d] = pending[d]
         /\ \A d \in Channels : WritesOf(pending[d]) = {} \/ d # c => NoMore(handlers', hs, d)
         /\ None(hs, c) /\ Alone(WritesOf(pending[c])) => AtMostOne(handlers', c)
<1>1. PICK P : pending' = [pending EXCEPT ![c] = P] /\ P \in {{}, {Connect}}
  BY DEF SetUp
<1>2. PICK aborted \in Aborted(c) : handlers' = hs \o aborted
  BY DEF SetUp
<1>3. /\ pending' = [d \in Channels |-> pending'[d]] /\ pending'[c] = P
      /\ \A d \in Channels : d # c => pending'[d] = pending[d]
  BY <1>1 DEF OneWriteInv, StreamType
<1>4. IsFiniteSet(P)
  BY <1>1, SmallSets
<1>5. WritesOf(P) = {}
  BY <1>1 DEF WritesOf, Connect, Op
<1>6. HandlerSeq(handlers')
  BY <1>2, Aborts, HandlerConcat
<1>7. StreamType'
  BY <1>3, <1>4, <1>6 DEF StreamType, OneWriteInv
<1>8. \A d \in Channels : WritesOf(pending[d]) = {} \/ d # c => NoMore(handlers', hs, d)
  BY <1>2, Aborts, HandlerConcat
<1>9. None(hs, c) /\ Alone(WritesOf(pending[c])) => AtMostOne(handlers', c)
  BY <1>2, Aborts, HandlerConcat
<1> QED
  BY <1>3, <1>5, <1>7, <1>8, <1>9

LEMMA OnWriteError ==
  OneWriteInv /\ on_write_error => OneWriteInv'
<1> SUFFICES ASSUME OneWriteInv, on_write_error PROVE OneWriteInv'
  OBVIOUS
<1>1. /\ handlers # <<>> /\ UNCHANGED todo
      /\ todo["io"] = <<>> /\ Head(handlers).op = "write"
  BY DEF on_write_error, Handles, Running
<1>2. PICK c \in Channels : c = Head(handlers).c
  BY <1>1, TakesHandler
<1>3. PICK throws \in BOOLEAN : SetUp(c, throws, Tail(handlers))
  BY <1>2 DEF on_write_error
<1>4. is_writing' = [is_writing EXCEPT ![c] = FALSE] /\ IsWrite(Head(handlers), c)
  BY <1>1, <1>2 DEF on_write_error, IsWrite
<1>5. HandlerSeq(Tail(handlers))
  BY <1>1, TakesHandler
<1>6. /\ StreamType'
      /\ \A d \in Channels : WritesOf(pending'[d]) \subseteq WritesOf(pending[d])
      /\ \A d \in Channels : WritesOf(pending[d]) = {} \/ d # c => NoMore(handlers', Tail(handlers), d)
  BY <1>3, <1>5, SetsUp
<1>7. NoNewWriter
  BY <1>1, SameTodo
<1> QED
  BY <1>1, <1>4, <1>6, <1>7, FlagDown

\* A write under way on the old stream becomes a handler.
LEMMA Reconnect ==
  OneWriteInv /\ reconnect => OneWriteInv'
<1> SUFFICES ASSUME OneWriteInv, reconnect PROVE OneWriteInv'
  OBVIOUS
<1>1. /\ "io" \in Threads /\ todo["io"] # <<>> /\ Head(todo["io"]).c \in Channels
      /\ UNCHANGED is_writing /\ Proceed("io", <<>>)
  BY NextIsSound DEF reconnect, Threads, Sound
<1>2. NoNewWriter
  BY <1>1, CalmShort, CalmProceed
<1>3. PICK c \in Channels : c = Head(todo["io"]).c
  BY <1>1
<1>4. CASE UNCHANGED <<streamVars, faults>>
  BY <1>1, <1>2, <1>4, SameStreams, Harmless DEF streamVars
<1>5. CASE \E throws \in BOOLEAN : SetUp(c, throws, handlers)
  <2>1. /\ StreamType'
        /\ WritesOf(pending'[c]) = {}
        /\ \A d \in Channels : d # c => pending'[d] = pending[d]
        /\ \A d \in Channels : WritesOf(pending[d]) = {} \/ d # c => NoMore(handlers', handlers, d)
        /\ None(handlers, c) /\ Alone(WritesOf(pending[c])) => AtMostOne(handlers', c)
    BY <1>5, SetsUp DEF OneWriteInv, StreamType
  <2>2. WriteInv'
    <3> SUFFICES ASSUME NEW d \in Channels
                 PROVE  OnePlace(is_writing[d], Writing(d), pending[d], handlers, d)'
      BY DEF WriteInv
    <3>1. OnePlace(is_writing[d], Writing(d), pending[d], handlers, d) /\ Writing(d)' \subseteq Writing(d)
      BY <1>2 DEF OneWriteInv, WriteInv, NoNewWriter
    <3>2. OnePlace(is_writing[d], Writing(d)', pending'[d], handlers', d)
      <4> HIDE DEF Writing, WritesOf
      <4>1. CASE WritesOf(pending[d]) = {} \/ d # c
        <5>1. NoMore(handlers', handlers, d) /\ WritesOf(pending'[d]) \subseteq WritesOf(pending[d])
          BY <2>1, <4>1
        <5> QED
          BY <3>1, <5>1 DEF OnePlace, Alone, NoMore
      <4>2. CASE ~(WritesOf(pending[d]) = {}) /\ d = c
        <5>1. /\ is_writing[d] /\ Writing(d) = {} /\ None(handlers, d)
              /\ Alone(WritesOf(pending[d]))
          BY <3>1, <4>2 DEF OnePlace
        <5>2. AtMostOne(handlers', d) /\ WritesOf(pending'[d]) = {}
          BY <2>1, <4>2, <5>1
        <5> QED
          BY <3>1, <5>1, <5>2 DEF OnePlace, Alone
      <4> QED
        BY <4>1, <4>2
    <3> QED
      BY <1>1, <3>2
  <2> QED
    BY <1>1, <1>2, <2>1, <2>2 DEF OneWriteInv, NoNewWriter, LockInv
<1> QED
  BY <1>3, <1>4, <1>5 DEF reconnect

\* New streams while nothing is to be aborted, and the end of all streams.
LEMMA NewStreams ==
  ASSUME OneWriteInv, pending' \in [Channels -> {{}, {Connect}}],
         handlers' = handlers \/ handlers' = <<>>
  PROVE  NoNewWrite
<1>1. \A c \in Channels : IsFiniteSet(pending'[c]) /\ WritesOf(pending'[c]) = {}
  <2> SUFFICES ASSUME NEW c \in Channels
               PROVE  IsFiniteSet(pending'[c]) /\ WritesOf(pending'[c]) = {}
    OBVIOUS
  <2>1. pending'[c] \in {{}, {Connect}}
    OBVIOUS
  <2>2. IsFiniteSet(pending'[c])
    BY <2>1, SmallSets
  <2>3. WritesOf(pending'[c]) = {}
    BY <2>1 DEF WritesOf, Connect, Op
  <2> QED
    BY <2>2, <2>3
<1>2. HandlerSeq(handlers') /\ \A c : NoMore(handlers', handlers, c)
  <2>1. CASE handlers' = handlers
    BY <2>1 DEF OneWriteInv, StreamType, NoMore
  <2>2. CASE handlers' = <<>>
    BY <2>2, HandlerSeqs, NoneAtMostOne DEF NoMore
  <2> QED
    BY <2>1, <2>2
<1>3. pending' = [c \in Channels |-> pending'[c]]
  OBVIOUS
<1> QED
  BY <1>1, <1>2, <1>3 DEF NoNewWrite, StreamType

LEMMA RunAgain ==
  OneWriteInv /\ run_again => OneWriteInv'
<1> SUFFICES ASSUME OneWriteInv, run_again PROVE OneWriteInv'
  OBVIOUS
<1>1. pending' \in [Channels -> {{}, {Connect}}] /\ UNCHANGED <<is_writing, todo, handlers>>
  BY DEF run_again
<1>2. NoNewWrite
  BY <1>1, NewStreams
<1> QED
  BY <1>1, <1>2, SameTodo, Harmless

LEMMA IoStepKeeps ==
  OneWriteInv /\ IoStep => OneWriteInv'
<1>1. OneWriteInv /\ io_exit => OneWriteInv'
  BY SameTodo, SameStreams, Harmless DEF io_exit, streamVars
<1>2. "io" \in Threads
  BY DEF Threads
<1> QED
  BY <1>1, <1>2, SendMessage, TestWriting, WriteNextMessage, WriteNextMarketMessage, AsyncWrite,
     OnConnect, OnHandshake, DoRead, OnWrite, OnWriteError, OnError, Reconnect, RunAgain
  DEF IoStep, Sends
-----------------------------------------------------------------------------
(* The thread of the env *)

LEMMA StopBegin ==
  OneWriteInv /\ stop_begin => OneWriteInv'
<1> SUFFICES ASSUME OneWriteInv, stop_begin PROVE OneWriteInv'
  OBVIOUS
<1>1. "env" \in Threads /\ todo["env"] # <<>> /\ UNCHANGED <<is_writing, pending, handlers>>
  BY DEF stop_begin, IsNext, Threads, streamVars
<1> DEFINE a == Send("trading", [kind |-> "cancel_all"])
           b == Call("ioc_stop", "trading")
           d == Call("join", "trading")
<1>2. Calm("env", <<a, b, d>>) /\ Calm("env", <<>>)
  <2>1. Sound("env", a) /\ Sound("env", b) /\ Sound("env", d) /\ {a.do, b.do, d.do} \cap Locked = {}
    BY DEF Sound, Send, Call, Locked, Channels
  <2> QED
    BY <2>1, CalmTriple, CalmShort
<1>3. Proceed("env", <<a, b, d>>) \/ Proceed("env", <<>>)
  BY DEF stop_begin
<1>4. NoNewWriter
  BY <1>1, <1>2, <1>3, CalmProceed
<1> QED
  BY <1>1, <1>4, SameStreams, Harmless

\* A step that ends with its instruction and leaves the streams alone.
LEMMA Done ==
  ASSUME OneWriteInv, NEW t \in Threads, todo[t] # <<>>, Proceed(t, <<>>),
         UNCHANGED <<is_writing, pending, handlers>>
  PROVE  OneWriteInv'
<1>1. NoNewWriter
  BY CalmShort, CalmProceed
<1> QED
  BY <1>1, SameStreams, Harmless

LEMMA EnvStepKeeps ==
  OneWriteInv /\ EnvStep => OneWriteInv'
<1>1. "env" \in Threads
  BY DEF Threads
<1>2. OneWriteInv /\ ioc_stop => OneWriteInv'
  BY <1>1, Done DEF ioc_stop, IsNext, streamVars
<1>3. ASSUME OneWriteInv, join PROVE OneWriteInv'
  <2>1. /\ todo["env"] # <<>> /\ Proceed("env", <<>>) /\ UNCHANGED is_writing
        /\ pending' \in [Channels -> {{}, {Connect}}] /\ handlers' = <<>>
    BY <1>3 DEF join, IsNext
  <2>2. NoNewWriter
    BY <1>1, <1>3, <2>1, CalmShort, CalmProceed
  <2>3. NoNewWrite
    BY <1>3, <2>1, NewStreams
  <2> QED
    BY <1>3, <2>1, <2>2, <2>3, Harmless
<1>4. ASSUME OneWriteInv, start PROVE OneWriteInv'
  <2>1. /\ todo["env"] # <<>> /\ Proceed("env", <<>>) /\ UNCHANGED <<is_writing, handlers>>
        /\ pending' \in [Channels -> {{}, {Connect}}]
    BY <1>4 DEF start, IsNext
  <2>2. NoNewWriter
    BY <1>1, <1>4, <2>1, CalmShort, CalmProceed
  <2>3. NoNewWrite
    BY <1>4, <2>1, NewStreams
  <2> QED
    BY <1>4, <2>1, <2>2, <2>3, Harmless
<1> QED
  BY <1>1, <1>2, <1>3, <1>4, StopBegin,
     SendMessage, TestWriting, WriteNextMessage, WriteNextMarketMessage, AsyncWrite
  DEF EnvStep, Sends

LEMMA OperationKeeps ==
  OneWriteInv /\ Operation => OneWriteInv'
<1> SUFFICES ASSUME OneWriteInv, Operation PROVE OneWriteInv'
  OBVIOUS
<1>1. "env" \in Threads
  BY DEF Threads
<1>2. CASE quote
  <2> DEFINE a == Send("trading", [kind |-> "cancel", side |-> Head(todo["env"]).m.side])
             b == Send("trading", Head(todo["env"]).m)
  <2>1. Calm("env", <<a, b>>) /\ Calm("env", <<>>)
    <3>1. Sound("env", a) /\ Sound("env", b) /\ {a.do, b.do} \cap Locked = {}
      BY DEF Sound, Send, Locked, Channels
    <3> QED
      BY <3>1, CalmPair, CalmShort
  <2>2. Proceed("env", <<a, b>>) \/ Proceed("env", <<>>)
    BY <1>2 DEF quote
  <2>3. todo["env"] # <<>> /\ UNCHANGED <<is_writing, pending, handlers>>
    BY <1>2 DEF quote, IsNext, streamVars
  <2>4. NoNewWriter
    BY <1>1, <2>1, <2>2, <2>3, CalmProceed
  <2> QED
    BY <2>3, <2>4, SameStreams, Harmless
<1>3. CASE clear_executions
  BY <1>1, <1>3, Done DEF clear_executions, IsNext, streamVars
<1>4. CASE read_book
  BY <1>1, <1>4, Done DEF read_book, IsNext, streamVars
<1>5. CASE getFills
  BY <1>1, <1>5, Done DEF getFills, IsNext, streamVars
<1> QED
  BY <1>2, <1>3, <1>4, <1>5 DEF Operation

\* One quote for each side.
LEMMA QuotesAreCalm ==
  ASSUME NEW ps
  PROVE  Calm("env", Quotes(ps))
<1> DEFINE n == Cardinality(Sides)
           ss == SetToSeq(Sides)
           place(k) == Place(ss[k], ps[ss[k]])
           S == {place(k) : k \in 1 .. n}
<1>1. n \in Nat /\ \E f \in [1 .. n -> Sides] : IsInjective(f)
  BY SidesAssumption, FS_CardinalityType DEF ExistsBijection, Bijection, Injection
<1>2. ss \in [1 .. n -> Sides]
  BY <1>1 DEF SetToSeq
<1>3. Quotes(ps) = [k \in 1 .. n |-> place(k)]
  BY <1>2 DEF Quotes
<1>4. Quotes(ps) \in Seq(S)
  BY <1>1, <1>3, SeqDef
<1>5. \A i \in S : Sound("env", i) /\ i.do \notin Locked
  BY DEF Place, Sound, Locked, Channels
<1> HIDE DEF S
<1> QED
  BY <1>4, <1>5, IsCalm

LEMMA EnvActKeeps ==
  OneWriteInv /\ EnvAct => OneWriteInv'
<1> SUFFICES ASSUME OneWriteInv, EnvAct PROVE OneWriteInv'
  OBVIOUS
<1>1. "env" \in Threads /\ UNCHANGED <<is_writing, pending, handlers>>
  BY DEF EnvAct, Reset, Step, Unasked, streamVars, Threads
<1>2. PICK s : Calm("env", s) /\ todo' = [todo EXCEPT !["env"] = s]
  <2>1. CASE Reset
    <3> DEFINE a == Call("stop", "trading")
               b == Call("clear", "trading")
               d == Call("start", "trading")
    <3>1. Sound("env", a) /\ Sound("env", b) /\ Sound("env", d) /\ {a.do, b.do, d.do} \cap Locked = {}
      BY DEF Sound, Call, Locked, Channels
    <3>2. Calm("env", <<a, b, d>>)
      BY <3>1, CalmTriple
    <3> QED
      BY <2>1, <3>2 DEF Reset, Asks
  <2>2. CASE Step
    <3>1. PICK ps : Asks(<<Send("trading", [kind |-> "cancel_all"])>> \o Quotes(ps) \o ReadBook \o ReadBook)
      BY <2>2 DEF Step
    <3> DEFINE e == Send("trading", [kind |-> "cancel_all"])
               a == Call("next_read", "market")
               b == Call("fills", "market")
               d == Call("done_read", "market")
    <3>2. Calm("env", <<e>>)
      <4>1. Sound("env", e) /\ e.do \notin Locked
        BY DEF Sound, Send, Locked, Channels
      <4> QED
        BY <4>1, CalmShort
    <3>3. Calm("env", ReadBook)
      <4>1. Sound("env", a) /\ Sound("env", b) /\ Sound("env", d) /\ {a.do, b.do, d.do} \cap Locked = {}
        BY DEF Sound, Call, Locked, Channels
      <4>2. Calm("env", <<a, b, d>>)
        BY <4>1, CalmTriple
      <4> QED
        BY <4>2 DEF ReadBook
    <3>4. Calm("env", <<e>> \o Quotes(ps) \o ReadBook \o ReadBook)
      BY <3>2, <3>3, QuotesAreCalm, CalmConcat
    <3> QED
      BY <3>1, <3>4 DEF Asks
  <2> QED
    BY <2>1, <2>2 DEF EnvAct
<1>3. NoNewWriter
  BY <1>1, <1>2, CalmStep
<1> QED
  BY <1>1, <1>3, SameStreams, Harmless
-----------------------------------------------------------------------------
(* Callbacks and the network *)

LEMMA CallbackKeeps ==
  OneWriteInv /\ Callback => OneWriteInv'
<1> SUFFICES ASSUME OneWriteInv, Callback PROVE OneWriteInv'
  OBVIOUS
<1>1. "io" \in Threads
  BY DEF Threads
<1>2. CASE handle_auth_reply
  <2> DEFINE a == Send("trading", [kind |-> "subscribe"])
  <2>1. Calm("io", <<a>>)
    <3>1. Sound("io", a) /\ a.do \notin Locked
      BY DEF Sound, Send, Locked, Channels
    <3> QED
      BY <3>1, CalmShort
  <2> QED
    BY <1>2, <2>1, OnRead DEF handle_auth_reply
<1>3. CASE handle_order_book_updates
  <2> DEFINE a == Call("get_write_slot", "market")
             b == Call("commit_write", "market")
  <2>1. Calm("io", <<a, b>>)
    <3>1. Sound("io", a) /\ Sound("io", b) /\ {a.do, b.do} \cap Locked = {}
      BY DEF Sound, Call, Locked, Channels
    <3> QED
      BY <3>1, CalmPair
  <2> QED
    BY <1>3, <2>1, OnRead DEF handle_order_book_updates
<1>4. CASE put_book
  BY <1>1, <1>4, Done DEF put_book, IsNext, streamVars
<1>5. CASE handle_order_updates
  BY <1>5, CalmShort, OnRead DEF handle_order_updates
<1>6. CASE handle_private_trade_updates
  BY <1>6, CalmShort, OnRead DEF handle_private_trade_updates
<1> QED
  BY <1>2, <1>3, <1>4, <1>5, <1>6 DEF Callback

\* An operation completes: a write moves from its stream to the handlers.
LEMMA CompletesKeeps ==
  ASSUME OneWriteInv, NEW c \in Channels, NEW o, NEW r, Completes(c, o, r), r.c = c, r.op = o.op
  PROVE  OneWriteInv'
<1>1. /\ o \in pending[c] /\ handlers' = Append(handlers, r) /\ UNCHANGED <<is_writing, todo>>
      /\ pending' = [d \in Channels |-> pending'[d]]
      /\ \A d \in Channels : pending'[d] = IF d = c THEN pending[d] \ {o} ELSE pending[d]
  BY DEF Completes, OneWriteInv, StreamType
<1>2. StreamType'
  <2>1. \A d \in Channels : IsFiniteSet(pending'[d])
    BY <1>1, FS_RemoveElement DEF OneWriteInv, StreamType
  <2>2. HandlerSeq(handlers')
    BY <1>1, HandlerAppend DEF OneWriteInv, StreamType
  <2> QED
    BY <1>1, <2>1, <2>2 DEF StreamType
<1>3. /\ \A d : ~IsWrite(r, d) => NoMore(handlers', handlers, d)
      /\ \A d : None(handlers, d) => AtMostOne(handlers', d)
  BY <1>1, HandlerAppend DEF OneWriteInv, StreamType
<1>4. NoNewWriter
  BY <1>1, SameTodo
<1>5. WriteInv'
  <2> SUFFICES ASSUME NEW d \in Channels
               PROVE  OnePlace(is_writing[d], Writing(d), pending[d], handlers, d)'
    BY DEF WriteInv
  <2>1. OnePlace(is_writing[d], Writing(d), pending[d], handlers, d) /\ Writing(d)' \subseteq Writing(d)
    BY <1>4 DEF OneWriteInv, WriteInv, NoNewWriter
  <2>2. WritesOf(pending'[d]) \subseteq WritesOf(pending[d])
    BY <1>1 DEF WritesOf
  <2>3. CASE ~IsWrite(r, d)
    <3>1. OnePlace(is_writing[d], Writing(d)', pending'[d], handlers', d)
      <4> HIDE DEF Writing, WritesOf
      <4> QED
        BY <1>3, <2>1, <2>2, <2>3 DEF OnePlace, Alone, NoMore
    <3> QED
      BY <1>1, <3>1
  <2>4. CASE IsWrite(r, d)
    <3>1. d = c /\ o \in WritesOf(pending[d]) /\ o \notin WritesOf(pending'[d])
      BY <1>1, <2>4 DEF IsWrite, WritesOf
    <3>2. WritesOf(pending'[d]) = {}
      BY <2>1, <2>2, <3>1 DEF OnePlace, Alone
    <3>3. is_writing[d] /\ Writing(d)' = {} /\ None(handlers, d)
      BY <2>1, <3>1 DEF OnePlace
    <3>4. OnePlace(is_writing[d], Writing(d)', pending'[d], handlers', d)
      BY <1>3, <3>2, <3>3 DEF OnePlace, Alone
    <3> QED
      BY <1>1, <3>4
  <2> QED
    BY <2>3, <2>4
<1> QED
  BY <1>1, <1>2, <1>4, <1>5 DEF OneWriteInv, NoNewWriter, LockInv

LEMMA NetworkKeeps ==
  ASSUME OneWriteInv, NEW c \in Channels, Network(c)
  PROVE  OneWriteInv'
<1>1. CASE NewStep(c)
  <2>1. PICK o \in pending[c] : Completes(c, o, Handler(c, o, TRUE))
    BY <1>1 DEF NewStep, Establish
  <2>2. Handler(c, o, TRUE).c = c /\ Handler(c, o, TRUE).op = o.op
    BY DEF Handler
  <2> QED
    BY <2>1, <2>2, CompletesKeeps
<1>2. CASE Deliver(c)
  <2>1. PICK m : Completes(c, Op("write", m), Handler(c, Op("write", m), TRUE))
    BY <1>2 DEF Deliver, Written
  <2>2. Handler(c, Op("write", m), TRUE).c = c /\ Handler(c, Op("write", m), TRUE).op = Op("write", m).op
    BY DEF Handler
  <2> QED
    BY <2>1, <2>2, CompletesKeeps
<1>3. CASE Arrive(c)
  <2>1. PICK m : Completes(c, Op("read", Nothing), Handler(c, Op("read", m), TRUE))
    BY <1>3 DEF Arrive, Read
  <2>2. /\ Handler(c, Op("read", m), TRUE).c = c
        /\ Handler(c, Op("read", m), TRUE).op = Op("read", Nothing).op
    BY DEF Handler, Op
  <2> QED
    BY <2>1, <2>2, CompletesKeeps
<1>4. CASE Lose(c)
  BY <1>4, SameTodo, SameStreams, Harmless DEF Lose
<1>5. CASE Fails(c)
  <2>1. PICK o \in pending[c] : Completes(c, o, Handler(c, o, FALSE))
    BY <1>5 DEF Fails
  <2>2. Handler(c, o, FALSE).c = c /\ Handler(c, o, FALSE).op = o.op
    BY DEF Handler
  <2> QED
    BY <2>1, <2>2, CompletesKeeps
<1> QED
  BY <1>1, <1>2, <1>3, <1>4, <1>5 DEF Network, Disturb

-----------------------------------------------------------------------------
(* One write at a time: theorems *)

LEMMA InitOneWrite ==
  Init => OneWriteInv
<1> SUFFICES ASSUME Init PROVE OneWriteInv
  OBVIOUS
<1>1. /\ is_writing = [c \in Channels |-> FALSE] /\ pending = [c \in Channels |-> {}]
      /\ handlers = <<>> /\ todo = [t \in Threads |-> <<>>]
  BY DEF Init, InitClient
<1>2. StreamType
  BY <1>1, HandlerSeqs, FS_EmptySet DEF StreamType
<1>3. TodoInv /\ LockInv
  BY <1>1 DEF TodoInv, LockInv, IsNext
<1>4. WriteInv
  <2>1. \A c \in Channels : Writing(c) = {} /\ WritesOf(pending[c]) = {}
    BY <1>1 DEF Writing, IsNext, WritesOf
  <2> QED
    BY <1>1, <2>1, HandlerSeqs, NoneAtMostOne DEF WriteInv, OnePlace, Alone
<1> QED
  BY <1>1, <1>2, <1>3, <1>4 DEF OneWriteInv

LEMMA StepOneWrite ==
  OneWriteInv /\ [Next]_vars => OneWriteInv'
<1> SUFFICES ASSUME OneWriteInv, [Next]_vars PROVE OneWriteInv'
  OBVIOUS
<1>1. CASE EnvAct
  BY <1>1, EnvActKeeps
<1>2. CASE EnvRuns
  BY <1>2, EnvStepKeeps, OperationKeeps DEF EnvRuns
<1>3. CASE IoRuns
  BY <1>3, IoStepKeeps, CallbackKeeps DEF IoRuns
<1>4. CASE \E c \in Channels : Network(c)
  BY <1>4, NetworkKeeps
<1>5. CASE Fill \/ UNCHANGED vars
  BY <1>5, SameTodo, SameStreams, Harmless DEF Fill, vars, clientVars, streamVars
<1> QED
  BY <1>1, <1>2, <1>3, <1>4, <1>5 DEF Next

\* A set whose members are all the same has at most one.
LEMMA AloneCounts ==
  ASSUME NEW S, Alone(S)
  PROVE  IF S = {} THEN Cardinality(S) = 0 ELSE Cardinality(S) = 1
<1>1. CASE S = {}
  BY <1>1, FS_EmptySet
<1>2. CASE S # {}
  <2>1. PICK x \in S : TRUE
    BY <1>2
  <2>2. S = {x}
    BY <2>1 DEF Alone
  <2> QED
    BY <1>2, <2>2, FS_Singleton
<1> QED
  BY <1>1, <1>2

LEMMA OneWriteFromInvariant ==
  OneWriteInv => OneWriteAtATime
<1> SUFFICES ASSUME OneWriteInv, NEW c \in Channels
             PROVE  Writes(c) <= IF is_writing[c] THEN 1 ELSE 0
  BY DEF OneWriteAtATime
<1> DEFINE W == Writing(c)
           P == {o \in pending[c] : o.op = "write"}
           H == {k \in DOMAIN handlers : handlers[k].c = c /\ handlers[k].op = "write"}
<1>1. OnePlace(is_writing[c], W, pending[c], handlers, c)
  BY DEF OneWriteInv, WriteInv
<1>2. None(handlers, c) => H = {}
  BY NoneIsIn DEF IsWrite
<1>3. /\ Alone(W) /\ Alone(P) /\ Alone(H)
      /\ ~is_writing[c] => W = {} /\ P = {} /\ H = {}
      /\ W # {} => P = {} /\ H = {}
      /\ P # {} => H = {}
  BY <1>1, <1>2 DEF OnePlace, WritesOf, Alone, AtMostOne, IsWrite
<1>4. Writes(c) = Cardinality(W) + Cardinality(P) + Cardinality(H)
  BY DEF Writes
<1> HIDE DEF W, P, H
<1> QED
  BY <1>3, <1>4, AloneCounts

THEOREM OneWriteInvariance == Spec => []OneWriteInv
BY InitOneWrite, StepOneWrite, PTL DEF Spec

\* Whatever the two threads, the network and the server do, a stream never has
\* two writes under way, for any scenario and any sides and prices.
THEOREM OneWriteCorrect == Spec => []OneWriteAtATime
BY OneWriteInvariance, OneWriteFromInvariant, PTL

-----------------------------------------------------------------------------
(* One order of a side (OneOrderPerSide).  A quote is two messages, a      *)
(* cancel of the side and the new order, and every message goes through    *)
(* the queue of the trading connection, one write and the server, in the   *)
(* order in which it was sent.  So an order of the queue is settled: by a  *)
(* cancel of its side before it, with no other order of the side between   *)
(* the two, or because none is resting or under way.  The server has one   *)
(* then when it carries an order out.                                      *)
(*                                                                         *)
(* It takes that the connection is never replaced, since a cancel is lost  *)
(* with the connection that it was written on.  As long as no fault occurs *)
(* and the client is started once, this is so: of connect, handshake and   *)
(* read the trading stream has one under way at a time, each begun in the  *)
(* phase it is for, so that no operation on it fails.                      *)

(* The messages: those in the queue Q, the one that is being written in F, *)
(* and the orders R at the server.                                         *)

Clears(m, s) == m.kind = "cancel_all" \/ (m.kind = "cancel" /\ m.side = s)
Places(m, s) == m.kind \notin {"auth", "subscribe", "cancel_all", "cancel"} /\ m.side = s
Empty(R, s) == \A q \in R : q.side # s

\* After what is being written no order of the side is left.
LeavesNone(F, R, s) ==
  \/ \E m \in F : Clears(m, s)
  \/ Empty(R, s) /\ \A m \in F : ~Places(m, s)

\* Nor is there one after the messages before the k-th of the queue.
Settled(Q, F, R, s, k) ==
  \/ \E j \in 1 .. k - 1 : Clears(Q[j], s) /\ \A i \in j + 1 .. k - 1 : ~Places(Q[i], s)
  \/ LeavesNone(F, R, s) /\ \A i \in 1 .. k - 1 : ~Places(Q[i], s)

AllSettled(Q, F, R, s) == Settled(Q, F, R, s, Len(Q) + 1)

SettledInv(Q, F, R) ==
  \A s \in Sides :
    /\ \A p, q \in R : p.side = s /\ q.side = s => p = q
    /\ \A m \in F : Places(m, s) => Empty(R, s)
    /\ \A k \in DOMAIN Q : Places(Q[k], s) => Settled(Q, F, R, s, k)

\* Without a connection nothing is under way, and the server has no order
\* before the authentication.
OfflineInv(Q, F, R, yes, auth) ==
  /\ ~yes => Q = <<>> /\ F = {} /\ ~auth
  /\ ~auth => R = {}

FlowInv(Q, F, R, yes, auth) == IsSeq(Q) /\ SettledInv(Q, F, R) /\ OfflineInv(Q, F, R, yes, auth)

(* The instructions of the threads *)

\* The env sends cancels and orders, of which it has at most two left, and an
\* order when all that was sent before it is settled.
Control == {"test", "write", "async_write"}
PlainDo == {"quote", "next_read", "fills", "done_read"}
Plain(s) == \E S : s \in Seq(S) /\ \A i \in S : i.do \in PlainDo
Orders(i, Q, F, R) ==
  i.do = "send" => \A s \in Sides : Places(i.m, s) => AllSettled(Q, F, R, s)

OneLeft(i, r, Q, F, R) ==
  Plain(r) /\ i.do \in PlainDo \cup Control \cup {"send"} /\ Orders(i, Q, F, R)
TwoLeft(i, r, Q, F, R) ==
  /\ r # <<>> /\ Head(r).do = "send" /\ Plain(Tail(r)) /\ IsSeq(r)
  /\ \/ i.do \in Control /\ Orders(Head(r), Q, F, R)
     \/ /\ i.do = "send"
        /\ \A s \in Sides : ~Places(i.m, s) /\ (Places(Head(r).m, s) => Clears(i.m, s))

EnvInv(s, Q, F, R) ==
  s # <<>> => OneLeft(Head(s), Tail(s), Q, F, R) \/ TwoLeft(Head(s), Tail(s), Q, F, R)

\* The io thread does not replace the trading stream and sends no order.
Orderly(i) ==
  i.c = "trading" =>
    i.do # "reconnect" /\ (i.do = "send" => i.m.kind \in {"auth", "subscribe"})
IoInv(s) == \E S : s \in Seq(S) /\ \A i \in S : Orderly(i)

(* The life of the trading stream: the operations P under way on it, the   *)
(* handlers hs, the instructions s of the io thread, the phase p of the    *)
(* stream, and whether it is connected.                                    *)

Lively(h) == h.c = "trading" /\ h.op # "write"
IsRead(i) == i.c = "trading" /\ i.do \in {"first_read", "read"}
Begun(P) == {o \in P : o.op # "write"}
Ready(hs) == {k \in DOMAIN hs : Lively(hs[k])}
Reads(s) == {k \in DOMAIN s : IsRead(s[k])}

\* A stream has one operation other than writes: pending, handled or about to
\* be begun.
OneLife(I, J, K) ==
  /\ Alone(I) /\ Alone(J) /\ Alone(K)
  /\ I # {} \/ J # {} \/ K # {}
  /\ I # {} => J = {} /\ K = {}
  /\ J # {} => K = {}

\* The stage of the connection in which an operation is pending, ...
Pends(op, p, yes) ==
  \/ op = "connect" /\ p = "new" /\ ~yes
  \/ op = "handshake" /\ p = "connected" /\ ~yes
  \/ op = "read" /\ p = "open" /\ yes

\* ... and in which it has completed.
Completed(h, p, yes) ==
  /\ h.ok
  /\ \/ h.op = "connect" /\ p = "connected" /\ ~yes
     \/ h.op = "handshake" /\ p = "open" /\ ~yes
     \/ h.op \in {"read", "write"} /\ p = "open" /\ yes

LifeInv(P, hs, s, p, yes) ==
  /\ OneLife(Begun(P), Ready(hs), Reads(s))
  /\ \A o \in Begun(P) : Pends(o.op, p, yes)
  /\ \A k \in DOMAIN hs : hs[k].c = "trading" => Completed(hs[k], p, yes)
  /\ Reads(s) # {} => p = "open" /\ yes

(* The invariant of the first connection *)

\* The message that is being written on the trading connection.
Flying ==
  {Head(todo[t]).m : t \in Writing("trading")} \cup {o.m : o \in WritesOf(pending["trading"])}

Before ==
  /\ ~should_run_ /\ io = "none" /\ handlers = <<>> /\ todo["io"] = <<>>
  /\ connected = [c \in Channels |-> FALSE] /\ message_queue = [c \in Channels |-> <<>>]
  /\ phase = [c \in Channels |-> "none"] /\ pending = [c \in Channels |-> {}]
  /\ resting = {} /\ ~authed
  /\ \/ resets = 0 /\ todo["env"] = <<>>
     \/ resets = 1 /\ todo["env"] = <<Call("stop", "trading"), Call("clear", "trading"), Call("start", "trading")>>
     \/ resets = 1 /\ todo["env"] = <<Call("clear", "trading"), Call("start", "trading")>>
     \/ resets = 1 /\ todo["env"] = <<Call("start", "trading")>>

ByChannel ==
  /\ connected = [c \in Channels |-> connected[c]]
  /\ message_queue = [c \in Channels |-> message_queue[c]]
  /\ phase = [c \in Channels |-> phase[c]]

FirstConnection ==
  /\ resets = 1 /\ should_run_ /\ ByChannel
  /\ LifeInv(pending["trading"], handlers, todo["io"], phase["trading"], connected["trading"])
  /\ FlowInv(message_queue["trading"], Flying, resting, connected["trading"], authed)
  /\ EnvInv(todo["env"], message_queue["trading"], Flying, resting)
  /\ IoInv(todo["io"])

OneOrderInv ==
  /\ resets \in Nat /\ faults \in Nat
  /\ resets <= 1 /\ faults = 0 => Before \/ FirstConnection
-----------------------------------------------------------------------------
(* What happens to a message, from the queue to the server *)

LEMMA SamePrefix ==
  ASSUME NEW Q, NEW N, NEW F, NEW R, NEW s, NEW k \in Nat,
         \A i \in 1 .. k - 1 : N[i] = Q[i], Settled(Q, F, R, s, k)
  PROVE  Settled(N, F, R, s, k)
<1> HIDE DEF LeavesNone, Clears, Places
<1>1. CASE \E j \in 1 .. k - 1 : Clears(Q[j], s) /\ \A i \in j + 1 .. k - 1 : ~Places(Q[i], s)
  <2>1. PICK j \in 1 .. k - 1 : Clears(Q[j], s) /\ \A i \in j + 1 .. k - 1 : ~Places(Q[i], s)
    BY <1>1
  <2>2. Clears(N[j], s)
    BY <2>1
  <2>3. \A i \in j + 1 .. k - 1 : i \in 1 .. k - 1 /\ ~Places(N[i], s)
    BY <2>1
  <2> QED
    BY <2>1, <2>2, <2>3 DEF Settled
<1>2. CASE LeavesNone(F, R, s) /\ \A i \in 1 .. k - 1 : ~Places(Q[i], s)
  BY <1>2 DEF Settled
<1> QED
  BY <1>1, <1>2 DEF Settled

\* What is being written, or has been, leaves no order as before.
LEMMA SettledKept ==
  ASSUME NEW Q, NEW F, NEW G, NEW R, NEW N, NEW s, NEW k,
         LeavesNone(F, R, s) => LeavesNone(G, N, s), Settled(Q, F, R, s, k)
  PROVE  Settled(Q, G, N, s, k)
<1> HIDE DEF LeavesNone, Clears, Places
<1> QED
  BY DEF Settled

\* A message is queued.
LEMMA Pushed ==
  ASSUME NEW Q, NEW F, NEW R, NEW m, IsSeq(Q), SettledInv(Q, F, R),
         \A s \in Sides : Places(m, s) => AllSettled(Q, F, R, s)
  PROVE  /\ IsSeq(Append(Q, m)) /\ SettledInv(Append(Q, m), F, R)
         /\ \A s \in Sides :
              Clears(m, s) \/ (AllSettled(Q, F, R, s) /\ ~Places(m, s)) =>
                AllSettled(Append(Q, m), F, R, s)
<1> DEFINE N == Append(Q, m)
           n == Len(Q)
<1>1. /\ IsSeq(N) /\ n \in Nat /\ DOMAIN Q = 1 .. n /\ DOMAIN N = 1 .. n + 1 /\ Len(N) = n + 1
      /\ N[n + 1] = m /\ \A i \in 1 .. n : N[i] = Q[i]
  <2>1. /\ IsSeq(N) /\ DOMAIN N = 1 .. n + 1 /\ N[n + 1] = m /\ \A i \in 1 .. n : N[i] = Q[i]
    BY AppendFacts
  <2>2. n \in Nat /\ DOMAIN Q = 1 .. n
    BY SeqFacts
  <2>3. Len(N) \in Nat /\ DOMAIN N = 1 .. Len(N)
    BY <2>1, SeqFacts
  <2>4. Len(N) = n + 1
    <3> HIDE DEF N, n
    <3> QED
      BY <2>1, <2>2, <2>3
  <2> QED
    BY <2>1, <2>2, <2>4
<1> HIDE DEF N, n
<1>2. ASSUME NEW s, NEW k \in 1 .. n + 1, Settled(Q, F, R, s, k)
      PROVE  Settled(N, F, R, s, k)
  <2>1. k \in Nat /\ \A i \in 1 .. k - 1 : N[i] = Q[i]
    BY <1>1
  <2> QED
    BY <1>2, <2>1, SamePrefix
<1>3. \A s : AllSettled(Q, F, R, s) => Settled(N, F, R, s, n + 1)
  <2>1. n + 1 \in 1 .. n + 1
    BY <1>1
  <2> QED
    BY <1>2, <2>1 DEF AllSettled, n
<1>4. SettledInv(N, F, R)
  <2> SUFFICES ASSUME NEW s \in Sides, NEW k \in DOMAIN N, Places(N[k], s)
               PROVE  Settled(N, F, R, s, k)
    BY DEF SettledInv
  <2>1. CASE k = n + 1
    BY <1>1, <1>3, <2>1 DEF N
  <2>2. CASE k # n + 1
    <3>1. k \in 1 .. n /\ k \in 1 .. n + 1 /\ N[k] = Q[k]
      BY <1>1, <2>2
    <3>2. Settled(Q, F, R, s, k)
      BY <1>1, <3>1 DEF SettledInv
    <3> QED
      BY <1>2, <3>1, <3>2
  <2> QED
    BY <2>1, <2>2
<1>5. ASSUME NEW s \in Sides, Clears(m, s) PROVE AllSettled(N, F, R, s)
  <2>1. /\ n + 1 \in 1 .. (n + 2) - 1 /\ Clears(N[n + 1], s)
        /\ \A i \in (n + 1) + 1 .. (n + 2) - 1 : ~Places(N[i], s)
    BY <1>1, <1>5
  <2>2. Settled(N, F, R, s, n + 2)
    BY <2>1 DEF Settled
  <2>3. Len(N) + 1 = n + 2
    BY <1>1
  <2> QED
    BY <2>2, <2>3 DEF AllSettled
<1>6. ASSUME NEW s \in Sides, AllSettled(Q, F, R, s), ~Places(m, s) PROVE AllSettled(N, F, R, s)
  <2>1. Settled(N, F, R, s, n + 1)
    BY <1>3, <1>6
  <2>2. (n + 1) - 1 = n /\ (n + 2) - 1 = n + 1 /\ Len(N) + 1 = n + 2
    BY <1>1
  <2>3. CASE \E j \in 1 .. n : Clears(N[j], s) /\ \A i \in j + 1 .. n : ~Places(N[i], s)
    <3>1. PICK j \in 1 .. n : Clears(N[j], s) /\ \A i \in j + 1 .. n : ~Places(N[i], s)
      BY <2>3
    <3>2. j \in 1 .. n + 1 /\ \A i \in j + 1 .. n + 1 : ~Places(N[i], s)
      BY <1>1, <1>6, <3>1
    <3> QED
      BY <2>2, <3>1, <3>2 DEF AllSettled, Settled
  <2>4. CASE LeavesNone(F, R, s) /\ \A i \in 1 .. n : ~Places(N[i], s)
    <3>1. \A i \in 1 .. n + 1 : ~Places(N[i], s)
      BY <1>1, <1>6, <2>4
    <3> QED
      BY <2>2, <2>4, <3>1 DEF AllSettled, Settled
  <2> QED
    BY <2>1, <2>2, <2>3, <2>4 DEF Settled
<1> QED
  BY <1>1, <1>4, <1>5, <1>6 DEF N

\* The first message of the queue is taken to be written.
LEMMA Popped ==
  ASSUME NEW Q, NEW R, IsSeq(Q), Q # <<>>, SettledInv(Q, {}, R)
  PROVE  /\ IsSeq(Tail(Q)) /\ SettledInv(Tail(Q), {Head(Q)}, R)
         /\ \A s : AllSettled(Q, {}, R, s) => AllSettled(Tail(Q), {Head(Q)}, R, s)
<1> DEFINE N == Tail(Q)
           n == Len(N)
           G == {Head(Q)}
<1>1. /\ IsSeq(N) /\ n \in Nat /\ DOMAIN N = 1 .. n /\ DOMAIN Q = 1 .. n + 1 /\ Len(Q) = n + 1
      /\ Head(Q) = Q[1] /\ \A i \in 1 .. n : N[i] = Q[i + 1]
  <2>1. PICK S : Q \in Seq(S)
    BY DEF IsSeq
  <2>2. /\ N \in Seq(S) /\ n = Len(Q) - 1 /\ \A i \in 1 .. n : N[i] = Q[i + 1]
    BY <2>1, HeadTailProperties
  <2>3. IsSeq(N)
    BY <2>2 DEF IsSeq
  <2>4. n \in Nat /\ DOMAIN N = 1 .. n /\ Len(Q) \in Nat /\ DOMAIN Q = 1 .. Len(Q) /\ Head(Q) = Q[1]
    BY <2>3, SeqFacts
  <2> HIDE DEF N, n
  <2>5. Len(Q) = n + 1
    BY <2>2, <2>4
  <2> QED
    BY <2>2, <2>3, <2>4, <2>5
<1> HIDE DEF N, n
<1>2. ASSUME NEW s, NEW k \in 1 .. n + 1, Settled(Q, {}, R, s, k + 1)
      PROVE  Settled(N, G, R, s, k)
  <2>0. k \in Nat /\ (k + 1) - 1 = k /\ n \in Nat
    BY <1>1
  <2>1. ASSUME NEW i \in 1 .. k - 1 PROVE i + 1 \in 1 .. k /\ N[i] = Q[i + 1]
    BY <1>1
  <2>2. CASE \E j \in 1 .. k : Clears(Q[j], s) /\ \A i \in j + 1 .. k : ~Places(Q[i], s)
    <3>1. PICK j \in 1 .. k : Clears(Q[j], s) /\ \A i \in j + 1 .. k : ~Places(Q[i], s)
      BY <2>2
    <3>2. CASE j = 1
      <4>1. LeavesNone(G, R, s)
        BY <1>1, <3>1, <3>2 DEF LeavesNone
      <4>2. \A i \in 1 .. k - 1 : i + 1 \in j + 1 .. k /\ ~Places(N[i], s)
        BY <2>0, <2>1, <3>1, <3>2
      <4> QED
        BY <4>1, <4>2 DEF Settled
    <3>3. CASE j # 1
      <4>1. j - 1 \in 1 .. k - 1 /\ (j - 1) + 1 = j
        BY <2>0, <3>3
      <4>2. Clears(N[j - 1], s)
        BY <2>1, <3>1, <4>1
      <4>3. ASSUME NEW i \in (j - 1) + 1 .. k - 1 PROVE ~Places(N[i], s)
        <5>1. i \in 1 .. k - 1 /\ i + 1 \in j + 1 .. k
          BY <2>0, <4>1
        <5> QED
          BY <2>1, <3>1, <5>1
      <4> QED
        BY <4>1, <4>2, <4>3 DEF Settled
    <3> QED
      BY <3>2, <3>3
  <2>3. CASE LeavesNone({}, R, s) /\ \A i \in 1 .. k : ~Places(Q[i], s)
    <3>1. ~Places(Head(Q), s)
      BY <1>1, <2>0, <2>3
    <3>2. LeavesNone(G, R, s)
      BY <2>3, <3>1 DEF LeavesNone
    <3>3. \A i \in 1 .. k - 1 : ~Places(N[i], s)
      BY <2>1, <2>3
    <3> QED
      BY <3>2, <3>3 DEF Settled
  <2> QED
    BY <1>2, <2>0, <2>2, <2>3 DEF Settled
<1>3. ASSUME NEW s \in Sides, Places(Head(Q), s) PROVE Empty(R, s)
  <2>1. 1 \in DOMAIN Q /\ Places(Q[1], s)
    BY <1>1, <1>3
  <2>2. Settled(Q, {}, R, s, 1)
    BY <2>1 DEF SettledInv
  <2>3. LeavesNone({}, R, s)
    BY <2>2 DEF Settled
  <2> QED
    BY <2>3 DEF LeavesNone
<1>4. ASSUME NEW s \in Sides, NEW k \in DOMAIN N, Places(N[k], s) PROVE Settled(N, G, R, s, k)
  <2>1. k + 1 \in DOMAIN Q /\ N[k] = Q[k + 1] /\ k \in 1 .. n + 1
    BY <1>1
  <2>2. Settled(Q, {}, R, s, k + 1)
    BY <1>4, <2>1 DEF SettledInv
  <2> QED
    BY <1>2, <2>1, <2>2
<1>5. SettledInv(N, G, R)
  BY <1>3, <1>4 DEF SettledInv
<1>6. \A s : AllSettled(Q, {}, R, s) => AllSettled(N, G, R, s)
  <2>1. n + 1 \in 1 .. n + 1 /\ Len(Q) = n + 1 /\ Len(N) = n
    BY <1>1 DEF n
  <2> QED
    BY <1>2, <2>1 DEF AllSettled
<1> QED
  BY <1>1, <1>5, <1>6 DEF N

\* The server has carried out what was written, or an order is filled.
LEMMA Landed ==
  ASSUME NEW Q, NEW F, NEW G, NEW R, NEW N, SettledInv(Q, F, R),
         \A s \in Sides : LeavesNone(F, R, s) => LeavesNone(G, N, s),
         \A s \in Sides : \A p, q \in N : p.side = s /\ q.side = s => p = q,
         \A s \in Sides : \A m \in G : Places(m, s) => Empty(N, s)
  PROVE  /\ SettledInv(Q, G, N)
         /\ \A s \in Sides : AllSettled(Q, F, R, s) => AllSettled(Q, G, N, s)
<1>1. ASSUME NEW s \in Sides, NEW k, Settled(Q, F, R, s, k) PROVE Settled(Q, G, N, s, k)
  BY <1>1, SettledKept
<1> QED
  BY <1>1 DEF SettledInv, AllSettled

\* Nothing at all is under way.
LEMMA NothingFlies ==
  ASSUME NEW Q, NEW F, NEW R, Q = <<>>, F = {}, R = {}
  PROVE  IsSeq(Q) /\ SettledInv(Q, F, R) /\ \A s : AllSettled(Q, F, R, s)
<1>1. IsSeq(Q) /\ DOMAIN Q = {} /\ Len(Q) = 0
  BY ShortSeqs
<1>2. \A s : LeavesNone(F, R, s)
  BY DEF LeavesNone, Empty
<1>3. \A s : AllSettled(Q, F, R, s)
  BY <1>1, <1>2 DEF AllSettled, Settled
<1>4. SettledInv(Q, F, R)
  BY <1>1 DEF SettledInv
<1> QED
  BY <1>1, <1>3, <1>4
-----------------------------------------------------------------------------
(* The instructions of the env *)

LEMMA Prefixed ==
  ASSUME NEW s, IsSeq(s)
  PROVE  /\ <<>> \o s = s
         /\ \A a : /\ IsSeq(<<a>> \o s) /\ <<a>> \o s # <<>>
                   /\ Head(<<a>> \o s) = a /\ Tail(<<a>> \o s) = s
<1>1. PICK S : s \in Seq(S)
  BY DEF IsSeq
<1>2. ASSUME NEW a
      PROVE  /\ IsSeq(<<a>> \o s) /\ <<a>> \o s # <<>>
             /\ Head(<<a>> \o s) = a /\ Tail(<<a>> \o s) = s
  <2>1. s \in Seq(S \cup {a}) /\ <<a>> \in Seq(S \cup {a})
    <3>1. <<a>> \in Seq({a})
      OBVIOUS
    <3> QED
      BY <1>1, <3>1, SeqMonotonic
  <2>2. <<a>> \o s \in Seq(S \cup {a}) /\ <<a>> \o s # <<>>
    BY <2>1
  <2>3. Head(<<a>> \o s) = a /\ Tail(<<a>> \o s) = s
    BY <2>1
  <2> QED
    BY <2>2, <2>3 DEF IsSeq
<1>3. <<>> \o s = s
  BY <1>1, ConcatEmptySeq
<1> QED
  BY <1>2, <1>3

LEMMA PrefixedTwice ==
  ASSUME NEW s, IsSeq(s), NEW a, NEW b
  PROVE  <<a, b>> \o s = <<a>> \o (<<b>> \o s)
<1>1. PICK S : s \in Seq(S)
  BY DEF IsSeq
<1> DEFINE T == S \cup {a, b}
<1>2. a \in T /\ b \in T /\ S \subseteq T
  OBVIOUS
<1> HIDE DEF T
<1>3. s \in Seq(T)
  BY <1>1, <1>2, SeqMonotonic
<1>4. <<a>> \in Seq(T) /\ <<b>> \in Seq(T)
  BY <1>2
<1>5. Append(<<a>>, b) = <<a, b>>
  <2>1. <<a, b>> \in Seq(T) /\ Len(<<a, b>>) = 2 /\ <<a, b>>[1] = a /\ <<a, b>>[2] = b
    BY <1>2
  <2>2. Append(<<a>>, b) \in Seq(T)
    BY <1>2, <1>4
  <2>3. /\ Len(<<a>>) = 1 /\ <<a>>[1] = a
        /\ Len(Append(<<a>>, b)) = Len(<<a>>) + 1
        /\ \A i \in 1 .. Len(<<a>>) : Append(<<a>>, b)[i] = <<a>>[i]
        /\ Append(<<a>>, b)[Len(<<a>>) + 1] = b
    BY <1>2, <1>4, AppendProperties
  <2>4. Len(Append(<<a>>, b)) = 2 /\ Append(<<a>>, b)[1] = a /\ Append(<<a>>, b)[2] = b
    BY <2>3
  <2>5. \A i \in 1 .. 2 : Append(<<a>>, b)[i] = <<a, b>>[i]
    BY <2>1, <2>4
  <2> QED
    BY <2>1, <2>2, <2>4, <2>5, SeqEqual
<1>6. Append(<<a>>, b) = <<a>> \o <<b>>
  BY <1>2, <1>4, AppendIsConcat
<1>7. (<<a>> \o <<b>>) \o s = <<a>> \o (<<b>> \o s)
  BY <1>3, <1>4, ConcatAssociative
<1> QED
  BY <1>5, <1>6, <1>7

LEMMA PlainFacts ==
  ASSUME NEW s, Plain(s)
  PROVE  /\ IsSeq(s)
         /\ s # <<>> => Head(s).do \in PlainDo /\ Plain(Tail(s))
<1>1. PICK S : s \in Seq(S) /\ \A i \in S : i.do \in PlainDo
  BY DEF Plain
<1>2. s # <<>> => Head(s) \in S /\ Tail(s) \in Seq(S)
  BY <1>1, HeadTailProperties
<1> QED
  BY <1>1, <1>2 DEF Plain, IsSeq

LEMMA IsPlain ==
  ASSUME NEW S, NEW s \in Seq(S), \A i \in S : i.do \in PlainDo
  PROVE  Plain(s)
BY DEF Plain

LEMMA PlainConcat ==
  ASSUME NEW s, NEW r, Plain(s), Plain(r)
  PROVE  Plain(s \o r)
<1>1. PICK S : s \in Seq(S) /\ \A i \in S : i.do \in PlainDo
  BY DEF Plain
<1>2. PICK R : r \in Seq(R) /\ \A i \in R : i.do \in PlainDo
  BY DEF Plain
<1>3. s \in Seq(S \cup R) /\ r \in Seq(S \cup R)
  BY <1>1, <1>2, SeqMonotonic
<1>4. s \o r \in Seq(S \cup R) /\ \A i \in S \cup R : i.do \in PlainDo
  BY <1>1, <1>2, <1>3, ConcatProperties
<1> QED
  BY <1>4, IsPlain

LEMMA PlainIsFine ==
  ASSUME NEW s, NEW Q, NEW F, NEW R, Plain(s)
  PROVE  EnvInv(s, Q, F, R)
<1>1. s # <<>> => Head(s).do \in PlainDo /\ Plain(Tail(s))
  BY PlainFacts
<1>2. \A i : i.do \in PlainDo => i.do # "send"
  BY DEF PlainDo
<1> QED
  BY <1>1, <1>2 DEF EnvInv, OneLeft, Orders

\* What is settled stays so when other threads take their steps.
LEMMA EnvKept ==
  ASSUME NEW s, NEW Q, NEW F, NEW R, NEW Q2, NEW F2, NEW R2, EnvInv(s, Q, F, R),
         \A d \in Sides : AllSettled(Q, F, R, d) => AllSettled(Q2, F2, R2, d)
  PROVE  EnvInv(s, Q2, F2, R2)
<1>1. \A i : Orders(i, Q, F, R) => Orders(i, Q2, F2, R2)
  BY DEF Orders
<1> QED
  BY <1>1 DEF EnvInv, OneLeft, TwoLeft

\* A message has been passed on, or has been taken to be written.
LEMMA EnvGoesOn ==
  ASSUME NEW s, NEW Q, NEW F, NEW R, NEW a, EnvInv(s, Q, F, R),
         s # <<>>, Head(s).do \in Control, a.do \in Control
  PROVE  EnvInv(<<a>> \o Tail(s), Q, F, R) /\ EnvInv(<<>> \o Tail(s), Q, F, R)
<1>1. Head(s).do \notin PlainDo /\ Head(s).do # "send" /\ a.do # "send"
  BY DEF Control, PlainDo
<1>2. CASE OneLeft(Head(s), Tail(s), Q, F, R)
  <2>1. Plain(Tail(s)) /\ IsSeq(Tail(s))
    BY <1>2, PlainFacts DEF OneLeft
  <2>2. EnvInv(Tail(s), Q, F, R)
    BY <2>1, PlainIsFine
  <2>3. OneLeft(a, Tail(s), Q, F, R)
    BY <1>1, <2>1 DEF OneLeft, Orders
  <2> QED
    BY <2>1, <2>2, <2>3, Prefixed DEF EnvInv
<1>3. CASE TwoLeft(Head(s), Tail(s), Q, F, R)
  <2>1. /\ Tail(s) # <<>> /\ IsSeq(Tail(s)) /\ Head(Tail(s)).do = "send" /\ Plain(Tail(Tail(s)))
        /\ Orders(Head(Tail(s)), Q, F, R)
    BY <1>1, <1>3 DEF TwoLeft
  <2>2. OneLeft(Head(Tail(s)), Tail(Tail(s)), Q, F, R)
    BY <2>1 DEF OneLeft
  <2>3. TwoLeft(a, Tail(s), Q, F, R)
    BY <2>1 DEF TwoLeft
  <2> QED
    BY <2>1, <2>2, <2>3, Prefixed DEF EnvInv
<1> QED
  BY <1>2, <1>3 DEF EnvInv

\* Something else has been done; a quote becomes a cancel and an order.
LEMMA EnvDoes ==
  ASSUME NEW s, NEW Q, NEW F, NEW R, EnvInv(s, Q, F, R), s # <<>>, Head(s).do \in PlainDo
  PROVE  /\ EnvInv(<<>> \o Tail(s), Q, F, R)
         /\ \A a, b : a.do = "send" /\ b.do = "send"
                      /\ (\A d \in Sides : ~Places(a.m, d) /\ (Places(b.m, d) => Clears(a.m, d)))
                        => EnvInv(<<a, b>> \o Tail(s), Q, F, R)
<1>1. Head(s).do \notin Control /\ Head(s).do # "send"
  BY DEF Control, PlainDo
<1>2. Plain(Tail(s)) /\ IsSeq(Tail(s))
  BY <1>1, PlainFacts DEF EnvInv, OneLeft, TwoLeft
<1>3. EnvInv(Tail(s), Q, F, R)
  BY <1>2, PlainIsFine
<1>4. ASSUME NEW a, NEW b, a.do = "send", b.do = "send",
             \A d \in Sides : ~Places(a.m, d) /\ (Places(b.m, d) => Clears(a.m, d))
      PROVE  EnvInv(<<a, b>> \o Tail(s), Q, F, R)
  <2> DEFINE r == <<b>> \o Tail(s)
  <2>1. IsSeq(r) /\ r # <<>> /\ Head(r) = b /\ Tail(r) = Tail(s)
    BY <1>2, Prefixed
  <2>2. <<a, b>> \o Tail(s) = <<a>> \o r
    BY <1>2, PrefixedTwice
  <2> HIDE DEF r
  <2>3. TwoLeft(a, r, Q, F, R)
    BY <1>2, <1>4, <2>1 DEF TwoLeft
  <2>4. Head(<<a>> \o r) = a /\ Tail(<<a>> \o r) = r
    BY <2>1, Prefixed
  <2> QED
    BY <2>2, <2>3, <2>4 DEF EnvInv
<1> QED
  BY <1>2, <1>3, <1>4, Prefixed

\* A message is sent: it is queued as it should be, or dropped.
LEMMA EnvSends ==
  ASSUME NEW s, NEW Q, NEW F, NEW R, NEW a, EnvInv(s, Q, F, R), IsSeq(Q), SettledInv(Q, F, R),
         s # <<>>, Head(s).do = "send", a.do \in Control
  PROVE  /\ IsSeq(Append(Q, Head(s).m)) /\ SettledInv(Append(Q, Head(s).m), F, R)
         /\ EnvInv(<<a>> \o Tail(s), Append(Q, Head(s).m), F, R)
         /\ (\A d \in Sides : AllSettled(Q, F, R, d)) => EnvInv(<<>> \o Tail(s), Q, F, R)
<1> DEFINE m == Head(s).m
           N == Append(Q, m)
<1>1. Head(s).do \notin PlainDo /\ Head(s).do \notin Control /\ a.do # "send"
  BY DEF Control, PlainDo
<1>2. CASE OneLeft(Head(s), Tail(s), Q, F, R)
  <2>1. Plain(Tail(s)) /\ IsSeq(Tail(s)) /\ \A d \in Sides : Places(m, d) => AllSettled(Q, F, R, d)
    BY <1>2, PlainFacts DEF OneLeft, Orders
  <2>2. IsSeq(N) /\ SettledInv(N, F, R)
    BY <2>1, Pushed
  <2> HIDE DEF N
  <2>3. EnvInv(Tail(s), Q, F, R)
    BY <2>1, PlainIsFine
  <2>4. OneLeft(a, Tail(s), N, F, R)
    BY <1>1, <2>1 DEF OneLeft, Orders
  <2>5. <<>> \o Tail(s) = Tail(s) /\ Head(<<a>> \o Tail(s)) = a /\ Tail(<<a>> \o Tail(s)) = Tail(s)
    BY <2>1, Prefixed
  <2>6. EnvInv(<<a>> \o Tail(s), N, F, R)
    BY <2>4, <2>5 DEF EnvInv
  <2> QED
    BY <2>2, <2>3, <2>5, <2>6 DEF N
<1>3. CASE TwoLeft(Head(s), Tail(s), Q, F, R)
  <2>1. /\ Tail(s) # <<>> /\ IsSeq(Tail(s)) /\ Head(Tail(s)).do = "send" /\ Plain(Tail(Tail(s)))
        /\ \A d \in Sides : ~Places(m, d) /\ (Places(Head(Tail(s)).m, d) => Clears(m, d))
    BY <1>1, <1>3 DEF TwoLeft
  <2>2. /\ IsSeq(N) /\ SettledInv(N, F, R)
        /\ \A d \in Sides : Clears(m, d) => AllSettled(N, F, R, d)
    BY <2>1, Pushed
  <2> HIDE DEF N
  <2>3. Orders(Head(Tail(s)), N, F, R)
    BY <2>1, <2>2 DEF Orders
  <2>4. TwoLeft(a, Tail(s), N, F, R)
    BY <2>1, <2>3 DEF TwoLeft
  <2>5. <<>> \o Tail(s) = Tail(s) /\ Head(<<a>> \o Tail(s)) = a /\ Tail(<<a>> \o Tail(s)) = Tail(s)
    BY <2>1, Prefixed
  <2>6. EnvInv(<<a>> \o Tail(s), N, F, R)
    BY <2>4, <2>5 DEF EnvInv
  <2>7. (\A d \in Sides : AllSettled(Q, F, R, d)) => EnvInv(Tail(s), Q, F, R)
    BY <2>1 DEF EnvInv, OneLeft, Orders
  <2> QED
    BY <2>2, <2>5, <2>6, <2>7 DEF N
<1> QED
  BY <1>2, <1>3 DEF EnvInv

\* The instructions of the io thread.
LEMMA IoFacts ==
  ASSUME NEW s, IoInv(s)
  PROVE  /\ IsSeq(s)
         /\ s # <<>> => Orderly(Head(s)) /\ IoInv(Tail(s)) /\ IoInv(<<>> \o Tail(s))
<1>1. PICK S : s \in Seq(S) /\ \A i \in S : Orderly(i)
  BY DEF IoInv
<1>2. s # <<>> => Head(s) \in S /\ Tail(s) \in Seq(S)
  BY <1>1, HeadTailProperties
<1>3. s # <<>> => <<>> \o Tail(s) = Tail(s)
  BY <1>2, ConcatEmptySeq
<1> QED
  BY <1>1, <1>2, <1>3 DEF IoInv, IsSeq

LEMMA IoConcat ==
  ASSUME NEW s, NEW r, IoInv(s), IoInv(r)
  PROVE  IoInv(s \o r)
<1>1. PICK S : s \in Seq(S) /\ \A i \in S : Orderly(i)
  BY DEF IoInv
<1>2. PICK R : r \in Seq(R) /\ \A i \in R : Orderly(i)
  BY DEF IoInv
<1>3. s \in Seq(S \cup R) /\ r \in Seq(S \cup R)
  BY <1>1, <1>2, SeqMonotonic
<1>4. s \o r \in Seq(S \cup R) /\ \A i \in S \cup R : Orderly(i)
  BY <1>1, <1>2, <1>3, ConcatProperties
<1> QED
  BY <1>4 DEF IoInv

LEMMA IsIo ==
  ASSUME NEW S, NEW s \in Seq(S), \A i \in S : Orderly(i)
  PROVE  IoInv(s)
BY DEF IoInv

LEMMA IoShort ==
  /\ IoInv(<<>>)
  /\ \A a : Orderly(a) => IoInv(<<a>>)
  /\ \A a, b : Orderly(a) /\ Orderly(b) => IoInv(<<a, b>>)
<1>1. IoInv(<<>>)
  <2>1. PICK S, s : S = {} /\ s = <<>>
    OBVIOUS
  <2>2. s \in Seq(S) /\ \A i \in S : Orderly(i)
    BY <2>1
  <2>3. IoInv(s)
    BY <2>2, IsIo
  <2> QED
    BY <2>1, <2>3
<1>2. ASSUME NEW a, Orderly(a) PROVE IoInv(<<a>>)
  <2>1. PICK S, s : S = {a} /\ s = <<a>>
    OBVIOUS
  <2>2. s \in Seq(S) /\ \A i \in S : Orderly(i)
    BY <1>2, <2>1
  <2>3. IoInv(s)
    BY <2>2, IsIo
  <2> QED
    BY <2>1, <2>3
<1>3. ASSUME NEW a, NEW b, Orderly(a), Orderly(b) PROVE IoInv(<<a, b>>)
  <2>1. PICK S, s : S = {a, b} /\ s = <<a, b>>
    OBVIOUS
  <2>2. s \in Seq(S) /\ \A i \in S : Orderly(i)
    BY <1>3, <2>1
  <2>3. IoInv(s)
    BY <2>2, IsIo
  <2> QED
    BY <2>1, <2>3
<1> QED
  BY <1>1, <1>2, <1>3
-----------------------------------------------------------------------------
(* The life of the trading stream *)

\* Of these sets one has at most one member if the other one has, and is empty
\* if and only if it is.
Same(I, J) == (Alone(I) => Alone(J)) /\ (I = {} <=> J = {})

\* The indices of a sequence that are of some kind, when its head is gone.
LEMMA TailIndices ==
  ASSUME NEW s, IsSeq(s), s # <<>>, NEW I \in SUBSET DOMAIN s, NEW J,
         J = {k \in DOMAIN Tail(s) : k + 1 \in I}
  PROVE  /\ 1 \notin I => Same(I, J)
         /\ 1 \in I /\ Alone(I) => J = {}
<1>1. /\ IsSeq(Tail(s)) /\ DOMAIN s \subseteq Nat /\ DOMAIN Tail(s) \subseteq Nat
      /\ \A k \in DOMAIN Tail(s) : k + 1 \in DOMAIN s /\ k + 1 # 1
  BY TailFacts, SeqFacts
<1>2. ASSUME NEW k \in DOMAIN s, k # 1 PROVE k - 1 \in DOMAIN Tail(s) /\ (k - 1) + 1 = k
  <2>1. PICK S : s \in Seq(S)
    BY DEF IsSeq
  <2>2. Len(Tail(s)) = Len(s) - 1
    BY <2>1, HeadTailProperties
  <2>3. Len(s) \in Nat /\ DOMAIN s = 1 .. Len(s) /\ DOMAIN Tail(s) = 1 .. Len(Tail(s))
    BY <1>1, SeqFacts
  <2> QED
    BY <1>2, <2>2, <2>3
<1>3. Alone(I) => Alone(J)
  <2> SUFFICES ASSUME Alone(I), NEW j \in J, NEW k \in J PROVE j = k
    BY DEF Alone
  <2>1. j + 1 = k + 1 /\ j \in Nat /\ k \in Nat
    BY <1>1 DEF Alone
  <2> QED
    BY <2>1
<1>4. ASSUME 1 \notin I PROVE I = {} <=> J = {}
  <2>1. ASSUME NEW k \in I PROVE k - 1 \in J
    BY <1>2, <1>4, <2>1
  <2> QED
    BY <2>1
<1>5. ASSUME 1 \in I, Alone(I), NEW k \in J PROVE FALSE
  <2>1. k + 1 = 1
    BY <1>5 DEF Alone
  <2> QED
    BY <1>1, <2>1
<1> QED
  BY <1>3, <1>4, <1>5 DEF Same

LEMMA ReadyTail ==
  ASSUME NEW hs, IsSeq(hs), hs # <<>>
  PROVE  /\ ~Lively(Head(hs)) => Same(Ready(hs), Ready(Tail(hs)))
         /\ Lively(Head(hs)) => Ready(hs) # {}
         /\ Lively(Head(hs)) /\ Alone(Ready(hs)) => Ready(Tail(hs)) = {}
         /\ \A k \in DOMAIN Tail(hs) : \E j \in DOMAIN hs : Tail(hs)[k] = hs[j]
<1>1. /\ Head(hs) = hs[1] /\ 1 \in DOMAIN hs
      /\ \A k \in DOMAIN Tail(hs) : k + 1 \in DOMAIN hs /\ Tail(hs)[k] = hs[k + 1]
  BY TailFacts
<1>2. Ready(hs) \in SUBSET DOMAIN hs /\ Ready(Tail(hs)) = {k \in DOMAIN Tail(hs) : k + 1 \in Ready(hs)}
  BY <1>1 DEF Ready
<1>3. 1 \in Ready(hs) <=> Lively(Head(hs))
  BY <1>1 DEF Ready
<1> QED
  BY <1>1, <1>2, <1>3, TailIndices

LEMMA ReadyAppend ==
  ASSUME NEW hs, NEW h, IsSeq(hs)
  PROVE  /\ ~Lively(h) => Ready(Append(hs, h)) = Ready(hs)
         /\ Lively(h) => Ready(Append(hs, h)) # {}
         /\ Lively(h) /\ Ready(hs) = {} => Alone(Ready(Append(hs, h)))
         /\ \A k \in DOMAIN Append(hs, h) :
              Append(hs, h)[k] = h \/ \E j \in DOMAIN hs : Append(hs, h)[k] = hs[j]
<1> DEFINE N == Append(hs, h)
           n == Len(hs)
<1>1. /\ n \in Nat /\ DOMAIN hs = 1 .. n /\ DOMAIN N = 1 .. n + 1
      /\ N[n + 1] = h /\ \A k \in 1 .. n : N[k] = hs[k]
  BY AppendFacts, SeqFacts
<1> HIDE DEF N, n
<1>2. /\ n + 1 \in DOMAIN N /\ n + 1 \notin DOMAIN hs
      /\ \A k : k \in DOMAIN N <=> k \in DOMAIN hs \/ k = n + 1
  BY <1>1
<1>3. \A k : k \in Ready(N) <=> k \in Ready(hs) \/ (k = n + 1 /\ Lively(h))
  BY <1>1, <1>2 DEF Ready
<1>4. ~Lively(h) => Ready(N) = Ready(hs)
  BY <1>3
<1>5. Lively(h) => Ready(N) # {}
  BY <1>3
<1>6. Lively(h) /\ Ready(hs) = {} => Alone(Ready(N))
  BY <1>3 DEF Alone
<1>7. \A k \in DOMAIN N : N[k] = h \/ \E j \in DOMAIN hs : N[k] = hs[j]
  BY <1>1, <1>2
<1> QED
  BY <1>4, <1>5, <1>6, <1>7 DEF N

\* Handlers of the other stream do not count.
LEMMA ReadyConcat ==
  ASSUME NEW hs, NEW r, IsSeq(hs), IsSeq(r), \A k \in DOMAIN r : r[k].c # "trading"
  PROVE  /\ Ready(hs \o r) = Ready(hs)
         /\ \A k \in DOMAIN (hs \o r) :
              (hs \o r)[k].c # "trading" \/ \E j \in DOMAIN hs : (hs \o r)[k] = hs[j]
<1> DEFINE N == hs \o r
           n == Len(hs)
<1>1. /\ n \in Nat /\ DOMAIN hs = 1 .. n
      /\ \A k \in DOMAIN N : \/ k \in DOMAIN hs /\ N[k] = hs[k]
                             \/ k - n \in DOMAIN r /\ N[k] = r[k - n]
  BY ConcatFacts, SeqFacts
<1>2. DOMAIN hs \subseteq DOMAIN N /\ \A k \in DOMAIN hs : N[k] = hs[k]
  <2>1. PICK S : hs \in Seq(S) /\ r \in Seq(S)
    BY SameElements
  <2>2. /\ Len(r) \in Nat /\ DOMAIN N = 1 .. n + Len(r)
        /\ \A i \in 1 .. n + Len(r) : N[i] = IF i <= n THEN hs[i] ELSE r[i - n]
    BY <2>1, ConcatProperties, ConcatFacts, SeqFacts
  <2> HIDE DEF N, n
  <2> QED
    BY <1>1, <2>2
<1> HIDE DEF N, n
<1>3. \A k \in DOMAIN N : N[k].c # "trading" \/ (k \in DOMAIN hs /\ N[k] = hs[k])
  BY <1>1
<1>4. Ready(N) = Ready(hs)
  BY <1>2, <1>3 DEF Ready, Lively
<1>5. \A k \in DOMAIN N : N[k].c # "trading" \/ \E j \in DOMAIN hs : N[k] = hs[j]
  BY <1>3
<1> QED
  BY <1>4, <1>5 DEF N

\* The io thread goes on to its next instruction, with another one before it
\* or without.
LEMMA ReadsNext ==
  ASSUME NEW s, IsSeq(s), s # <<>>
  PROVE  /\ ~IsRead(Head(s)) => Same(Reads(s), Reads(<<>> \o Tail(s)))
         /\ \A a : ~IsRead(Head(s)) /\ ~IsRead(a) => Reads(<<a>> \o Tail(s)) = Reads(s)
         /\ IsRead(Head(s)) => Reads(s) # {}
         /\ IsRead(Head(s)) /\ Alone(Reads(s)) => Reads(<<>> \o Tail(s)) = {}
<1>1. /\ IsSeq(Tail(s)) /\ Head(s) = s[1] /\ 1 \in DOMAIN s
      /\ \A k \in DOMAIN Tail(s) : k + 1 \in DOMAIN s /\ Tail(s)[k] = s[k + 1]
  BY TailFacts
<1>2. <<>> \o Tail(s) = Tail(s)
  BY <1>1, Prefixed
<1>3. Reads(s) \in SUBSET DOMAIN s /\ Reads(Tail(s)) = {k \in DOMAIN Tail(s) : k + 1 \in Reads(s)}
  BY <1>1 DEF Reads
<1>4. 1 \in Reads(s) <=> IsRead(Head(s))
  BY <1>1 DEF Reads
<1>5. ASSUME NEW a, ~IsRead(Head(s)), ~IsRead(a) PROVE Reads(<<a>> \o Tail(s)) = Reads(s)
  <2> DEFINE N == <<a>> \o Tail(s)
  <2>1. PICK S : s \in Seq(S)
    BY DEF IsSeq
  <2>2. Len(Tail(s)) = Len(s) - 1
    BY <2>1, HeadTailProperties
  <2>3. IsSeq(N) /\ N # <<>> /\ Head(N) = a /\ Tail(N) = Tail(s)
    BY <1>1, Prefixed
  <2>4. IsSeq(<<a>>) /\ Len(<<a>>) = 1
    BY ShortSeqs
  <2>5. DOMAIN N = 1 .. Len(<<a>>) + Len(Tail(s))
    BY <1>1, <2>4, ConcatFacts
  <2>6. Len(s) \in Nat /\ DOMAIN s = 1 .. Len(s)
    BY SeqFacts
  <2>7. N[1] = a /\ \A k \in DOMAIN Tail(N) : k + 1 \in DOMAIN N /\ Tail(N)[k] = N[k + 1]
    BY <2>3, TailFacts
  <2> HIDE DEF N
  <2>8. DOMAIN N = DOMAIN s
    BY <2>2, <2>4, <2>5, <2>6
  <2>9. DOMAIN Tail(s) = 1 .. Len(s) - 1
    BY <1>1, <2>2, SeqFacts
  <2>10. ASSUME NEW k \in DOMAIN s, k # 1 PROVE N[k] = s[k]
    <3>1. k - 1 \in DOMAIN Tail(s) /\ (k - 1) + 1 = k
      BY <2>6, <2>9, <2>10
    <3> QED
      BY <1>1, <2>3, <2>7, <3>1
  <2>11. \A k \in DOMAIN s : IsRead(N[k]) <=> IsRead(s[k])
    BY <1>1, <1>5, <2>7, <2>10
  <2> QED
    BY <2>8, <2>11 DEF Reads, N
<1> QED
  BY <1>2, <1>3, <1>4, <1>5, TailIndices

-----------------------------------------------------------------------------
\* A step that leaves the life of the trading stream as it was.
LEMMA LifeSame ==
  ASSUME NEW P, NEW hs, NEW s, NEW p, NEW yes, NEW Q, NEW gs, NEW r, LifeInv(P, hs, s, p, yes),
         Begun(Q) = Begun(P), Same(Ready(hs), Ready(gs)), Same(Reads(s), Reads(r)),
         \A k \in DOMAIN gs : gs[k].c = "trading" =>
           Completed(gs[k], p, yes) \/ \E j \in DOMAIN hs : gs[k] = hs[j]
  PROVE  LifeInv(Q, gs, r, p, yes)
<1> HIDE DEF Begun, Ready, Reads, Completed, Pends
<1>1. OneLife(Begun(Q), Ready(gs), Reads(r))
  <2> HIDE DEF Alone
  <2> QED
    BY DEF LifeInv, OneLife, Same
<1>2. \A k \in DOMAIN gs : gs[k].c = "trading" => Completed(gs[k], p, yes)
  BY DEF LifeInv
<1>3. Reads(r) # {} => p = "open" /\ yes
  BY DEF LifeInv, Same
<1> QED
  BY <1>1, <1>2, <1>3 DEF LifeInv

\* An operation completes and its handler is ready.
LEMMA LifeCompletes ==
  ASSUME NEW P, NEW hs, NEW s, NEW p, NEW q, NEW yes, NEW o \in Begun(P), NEW h,
         LifeInv(P, hs, s, p, yes), IsSeq(hs), Lively(h), Completed(h, q, yes), p # q => ~yes
  PROVE  LifeInv(P \ {o}, Append(hs, h), s, q, yes)
<1> DEFINE N == Append(hs, h)
<1>1. Begun(P) # {} /\ Alone(Begun(P)) /\ Ready(hs) = {} /\ Reads(s) = {}
  BY DEF LifeInv, OneLife
<1>2. Begun(P \ {o}) = {}
  BY <1>1 DEF Begun, Alone
<1>3. /\ Ready(N) # {} /\ Alone(Ready(N))
      /\ \A k \in DOMAIN N : N[k] = h \/ \E j \in DOMAIN hs : N[k] = hs[j]
  BY <1>1, ReadyAppend
<1> HIDE DEF N
<1>4. ASSUME NEW j \in DOMAIN hs, hs[j].c = "trading" PROVE Completed(hs[j], q, yes)
  <2>1. Completed(hs[j], p, yes) /\ hs[j].op = "write"
    BY <1>1, <1>4 DEF LifeInv, Ready, Lively
  <2>2. yes
    BY <2>1 DEF Completed
  <2> QED
    BY <2>1, <2>2
<1>5. \A k \in DOMAIN N : N[k].c = "trading" => Completed(N[k], q, yes)
  BY <1>3, <1>4
<1>6. OneLife(Begun(P \ {o}), Ready(N), Reads(s))
  BY <1>1, <1>2, <1>3 DEF OneLife, Alone
<1>7. LifeInv(P \ {o}, N, s, q, yes)
  BY <1>1, <1>2, <1>5, <1>6 DEF LifeInv
<1> QED
  BY <1>7 DEF N

\* Its handler runs, and begins what is next or has it among the instructions.
LEMMA LifeHandled ==
  ASSUME NEW P, NEW hs, NEW s, NEW p, NEW yes, NEW now, NEW Q, NEW r,
         LifeInv(P, hs, s, p, yes), IsSeq(hs), hs # <<>>, Lively(Head(hs)),
         Begun(P) = {} => Alone(Begun(Q)) /\ Alone(Reads(r)),
         Begun(P) = {} => \/ Begun(Q) # {} /\ Reads(r) = {}
                          \/ Begun(Q) = {} /\ Reads(r) # {},
         \A o \in Begun(Q) : o \notin Begun(P) => Pends(o.op, p, now),
         yes # now => ~yes, Reads(r) # {} => p = "open" /\ now
  PROVE  Completed(Head(hs), p, yes) /\ LifeInv(Q, Tail(hs), r, p, now)
<1>1. /\ Ready(hs) # {} /\ (Alone(Ready(hs)) => Ready(Tail(hs)) = {})
      /\ \A k \in DOMAIN Tail(hs) : \E j \in DOMAIN hs : Tail(hs)[k] = hs[j]
      /\ Head(hs) = hs[1] /\ 1 \in DOMAIN hs
  BY ReadyTail, SeqFacts
<1>2. Alone(Ready(hs)) /\ Begun(P) = {} /\ Ready(Tail(hs)) = {}
  BY <1>1 DEF LifeInv, OneLife
<1>3. Completed(Head(hs), p, yes)
  BY <1>1 DEF LifeInv, Lively
<1>4. ASSUME NEW k \in DOMAIN Tail(hs), Tail(hs)[k].c = "trading"
      PROVE  Completed(Tail(hs)[k], p, now)
  <2>1. Completed(Tail(hs)[k], p, yes) /\ Tail(hs)[k].op = "write"
    BY <1>1, <1>2, <1>4 DEF LifeInv, Ready, Lively
  <2>2. yes
    BY <2>1 DEF Completed
  <2> QED
    BY <2>1, <2>2
<1>5. OneLife(Begun(Q), Ready(Tail(hs)), Reads(r))
  BY <1>2 DEF OneLife, Alone
<1> QED
  BY <1>2, <1>3, <1>4, <1>5 DEF LifeInv

\* The next read is begun.
LEMMA LifeBegins ==
  ASSUME NEW P, NEW hs, NEW s, NEW p, NEW yes, NEW o, NEW r,
         LifeInv(P, hs, s, p, yes), Reads(s) # {}, Reads(r) = {}, o.op = "read"
  PROVE  LifeInv(P \cup {o}, hs, r, p, yes)
<1>1. Begun(P) = {} /\ Ready(hs) = {} /\ p = "open" /\ yes
  BY DEF LifeInv, OneLife
<1>2. Begun(P \cup {o}) = {o}
  BY <1>1 DEF Begun
<1>3. OneLife(Begun(P \cup {o}), Ready(hs), Reads(r))
  BY <1>1, <1>2 DEF OneLife, Alone
<1>4. \A u \in Begun(P \cup {o}) : Pends(u.op, p, yes)
  BY <1>1, <1>2 DEF Pends
<1> QED
  BY <1>3, <1>4 DEF LifeInv

\* A new stream.
LEMMA LifeStarts ==
  ASSUME NEW P, P = {Connect}
  PROVE  LifeInv(P, <<>>, <<>>, "new", FALSE)
<1>1. Begun(P) = {Connect} /\ Connect.op = "connect"
  BY DEF Begun, Connect, Op
<1>2. Ready(<<>>) = {} /\ Reads(<<>>) = {} /\ DOMAIN <<>> = {}
  BY ShortSeqs DEF Ready, Reads
<1>3. OneLife(Begun(P), Ready(<<>>), Reads(<<>>))
  BY <1>1, <1>2 DEF OneLife, Alone
<1>4. \A o \in Begun(P) : Pends(o.op, "new", FALSE)
  BY <1>1 DEF Pends
<1> QED
  BY <1>2, <1>3, <1>4 DEF LifeInv

\* While the connection stands, the stream is open.
LEMMA Connected ==
  ASSUME NEW P, NEW hs, NEW s, NEW p, NEW yes, yes, LifeInv(P, hs, s, p, yes)
  PROVE  p = "open"
<1>1. CASE Begun(P) # {}
  BY <1>1 DEF LifeInv, Pends
<1>2. CASE Ready(hs) # {}
  BY <1>2 DEF LifeInv, Ready, Lively, Completed
<1>3. CASE Reads(s) # {}
  BY <1>3 DEF LifeInv
<1> QED
  BY <1>1, <1>2, <1>3 DEF LifeInv, OneLife

\* What is known of the handler that runs.
LEMMA HeadCompleted ==
  ASSUME NEW P, NEW hs, NEW s, NEW p, NEW yes, LifeInv(P, hs, s, p, yes), IsSeq(hs), hs # <<>>
  PROVE  /\ Head(hs).c = "trading" => Completed(Head(hs), p, yes)
         /\ Lively(Head(hs)) => Begun(P) = {} /\ Reads(s) = {} /\ Alone(Ready(hs))
<1>1. Head(hs) = hs[1] /\ 1 \in DOMAIN hs /\ (Lively(Head(hs)) => Ready(hs) # {})
  BY ReadyTail, SeqFacts
<1> QED
  BY <1>1 DEF LifeInv, OneLife
-----------------------------------------------------------------------------
(* Steps of both threads *)

LEMMA Proceeds ==
  ASSUME OneWriteInv, NEW t \in Threads, NEW s, Proceed(t, s)
  PROVE  /\ todo'[t] = s \o Tail(todo[t])
         /\ \A u \in Threads : u # t => todo'[u] = todo[u]
BY DEF OneWriteInv, TodoInv, Proceed

\* A step of a thread that is not at a write, before or after.
LEMMA FlyingKept ==
  ASSUME NEW t \in Threads, \A u \in Threads : u # t => todo'[u] = todo[u],
         t \notin Writing("trading"), t \notin Writing("trading")',
         WritesOf(pending'["trading"]) = WritesOf(pending["trading"])
  PROVE  Flying' = Flying
<1>1. Writing("trading")' = Writing("trading")
  BY DEF Writing, IsNext
<1>2. \A u \in Writing("trading") : todo'[u] = todo[u]
  BY DEF Writing
<1> HIDE DEF Writing, WritesOf
<1> QED
  BY <1>1, <1>2 DEF Flying

LEMMA FlyingSame ==
  ASSUME UNCHANGED todo, WritesOf(pending'["trading"]) = WritesOf(pending["trading"])
  PROVE  Flying' = Flying
<1>1. Writing("trading")' = Writing("trading")
  BY DEF Writing, IsNext
<1> HIDE DEF Writing, WritesOf
<1> QED
  BY <1>1 DEF Flying

\* Nothing is being written while the flag is down, and one message otherwise.
LEMMA OneFlies ==
  ASSUME OneWriteInv
  PROVE  /\ ~is_writing["trading"] => Flying = {} /\ WritesOf(pending["trading"]) = {}
         /\ \A t \in Writing("trading") :
              /\ Flying = {Head(todo[t]).m} /\ Writing("trading") = {t}
              /\ WritesOf(pending["trading"]) = {}
         /\ \A o \in WritesOf(pending["trading"]) :
              Flying = {o.m} /\ Writing("trading") = {} /\ WritesOf(pending["trading"]) = {o}
<1> DEFINE W == Writing("trading")
           P == WritesOf(pending["trading"])
<1>1. /\ ~is_writing["trading"] => W = {} /\ P = {}
      /\ Alone(W) /\ Alone(P) /\ (W # {} => P = {})
  BY DEF OneWriteInv, WriteInv, OnePlace, Channels
<1>2. Flying = {Head(todo[t]).m : t \in W} \cup {o.m : o \in P}
  BY DEF Flying
<1> HIDE DEF W, P
<1>3. ~is_writing["trading"] => Flying = {} /\ P = {}
  BY <1>1, <1>2
<1>4. ASSUME NEW t \in W PROVE Flying = {Head(todo[t]).m} /\ W = {t} /\ P = {}
  <2>1. W = {t} /\ P = {}
    BY <1>1 DEF Alone
  <2> QED
    BY <1>2, <2>1
<1>5. ASSUME NEW o \in P PROVE Flying = {o.m} /\ W = {} /\ P = {o}
  <2>1. W = {} /\ P = {o}
    BY <1>1 DEF Alone
  <2> QED
    BY <1>2, <2>1
<1> QED
  BY <1>3, <1>4, <1>5 DEF W, P

LEMMA SameItself ==
  \A I : Same(I, I)
BY DEF Same

\* A thread goes on with what it does to pass a message on.
LEMMA GoesOn ==
  ASSUME OneWriteInv, NEW t \in Threads, NEW s, NEW a, NEW Q, NEW F, NEW R,
         todo[t] # <<>>, Head(todo[t]).do \in Control \cup {"write_locked"},
         s = <<>> \/ s = <<a>>, a.do \in Control \cup {"write_locked"},
         t = "env" => a.do \in Control, Proceed(t, s),
         EnvInv(todo["env"], Q, F, R), IoInv(todo["io"])
  PROVE  /\ EnvInv(todo'["env"], Q, F, R) /\ IoInv(todo'["io"])
         /\ Same(Reads(todo["io"]), Reads(todo'["io"]))
<1>1. todo'[t] = s \o Tail(todo[t]) /\ \A u \in Threads : u # t => todo'[u] = todo[u]
  BY Proceeds
<1>2. CASE t = "env"
  <2>1. Head(todo["env"]).do \in Control
    <3>1. ~IsNext("env", "write_locked")
      BY <1>2 DEF OneWriteInv, LockInv
    <3> QED
      BY <1>2, <3>1 DEF IsNext
  <2>2. EnvInv(s \o Tail(todo["env"]), Q, F, R)
    BY <1>2, <2>1, EnvGoesOn
  <2>3. todo'["io"] = todo["io"]
    BY <1>1, <1>2 DEF Threads
  <2> QED
    BY <1>1, <1>2, <2>2, <2>3, SameItself
<1>3. CASE t = "io"
  <2>1. Orderly(a) /\ ~IsRead(a) /\ ~IsRead(Head(todo["io"]))
    BY <1>3 DEF Orderly, IsRead, Control
  <2>2. IsSeq(todo["io"]) /\ IoInv(Tail(todo["io"])) /\ IoInv(<<>>) /\ IoInv(<<a>>)
    BY <1>3, <2>1, IoFacts, IoShort
  <2>3. IoInv(s \o Tail(todo["io"]))
    BY <2>2, IoConcat
  <2>4. Same(Reads(todo["io"]), Reads(s \o Tail(todo["io"])))
    BY <1>3, <2>1, <2>2, ReadsNext, SameItself
  <2>5. todo'["env"] = todo["env"]
    BY <1>1, <1>3 DEF Threads
  <2> QED
    BY <1>1, <1>3, <2>3, <2>4, <2>5
<1> QED
  BY <1>2, <1>3 DEF Threads

\* A step that leaves the trading stream alone, and its messages too.
LEMMA StreamAlone ==
  ASSUME FirstConnection, Same(Reads(todo["io"]), Reads(todo'["io"])),
         UNCHANGED <<pending, handlers, phase, connected>>
  PROVE  LifeInv(pending'["trading"], handlers', todo'["io"], phase'["trading"], connected'["trading"])
<1>1. LifeInv(pending["trading"], handlers, todo["io"], phase["trading"], connected["trading"])
  BY DEF FirstConnection
<1>2. LifeInv(pending["trading"], handlers, todo'["io"], phase["trading"], connected["trading"])
  BY <1>1, LifeSame, SameItself
<1> QED
  BY <1>2

LEMMA TestOrders ==
  ASSUME OneWriteInv, FirstConnection, NEW t \in Threads, test_writing(t), UNCHANGED <<resets, exchangeVars>>
  PROVE  FirstConnection'
<1>1. /\ todo[t] # <<>> /\ Sound(t, Head(todo[t])) /\ Head(todo[t]).do = "test"
      /\ UNCHANGED <<should_run_, connected, message_queue, pending, handlers, phase, resting, authed>>
  BY NextIsSound DEF test_writing, streamVars, exchangeVars, serverVars
<1> DEFINE a == Call("write", Head(todo[t]).c)
<1>2. a.do = "write" /\ Sound(t, a)
  BY <1>1 DEF Call, Sound
<1>3. PICK s : (s = <<>> \/ s = <<a>>) /\ Proceed(t, s)
  BY DEF test_writing
<1>4. /\ EnvInv(todo'["env"], message_queue["trading"], Flying, resting) /\ IoInv(todo'["io"])
      /\ Same(Reads(todo["io"]), Reads(todo'["io"]))
  <2> HIDE DEF a
  <2> QED
    BY <1>1, <1>2, <1>3, GoesOn DEF Control, FirstConnection
<1>5. Flying' = Flying
  <2>1. Calm(t, s)
    <3>1. a.do \notin Locked
      BY <1>2 DEF Locked
    <3> HIDE DEF a
    <3> QED
      BY <1>2, <1>3, <3>1, CalmShort
  <2>2. t \notin Writing("trading")'
    BY <1>1, <1>3, <2>1, CalmProceed
  <2>3. t \notin Writing("trading")
    BY <1>1 DEF Writing, IsNext
  <2> QED
    BY <1>1, <1>3, <2>2, <2>3, FlyingKept, Proceeds
<1>6. LifeInv(pending'["trading"], handlers', todo'["io"], phase'["trading"], connected'["trading"])
  BY <1>1, <1>4, StreamAlone
<1> QED
  BY <1>1, <1>4, <1>5, <1>6 DEF FirstConnection, ByChannel
\* A message is queued, or dropped while there is no connection.
LEMMA SendOrders ==
  ASSUME OneWriteInv, FirstConnection, NEW t \in Threads, send_message(t), UNCHANGED <<resets, exchangeVars>>
  PROVE  FirstConnection'
<1> DEFINE i == Head(todo[t])
           a == Call("test", i.c)
           Q == message_queue["trading"]
<1>1. /\ todo[t] # <<>> /\ Sound(t, i) /\ i.do = "send" /\ i.c \in Channels
      /\ UNCHANGED <<should_run_, connected, pending, handlers, phase, resting, authed>>
  BY NextIsSound DEF send_message, streamVars, exchangeVars, serverVars, Sound
<1>2. a.do = "test" /\ a.do \in Control /\ a.do \notin Locked /\ Sound(t, a) /\ Orderly(a) /\ ~IsRead(a)
  BY <1>1 DEF Call, Sound, Locked, Orderly, IsRead, Control
<1>3. \/ /\ connected[i.c] /\ Proceed(t, <<a>>)
         /\ message_queue' = [message_queue EXCEPT ![i.c] = Append(@, i.m)]
      \/ ~connected[i.c] /\ Proceed(t, <<>>) /\ UNCHANGED message_queue
  BY DEF send_message
<1> HIDE DEF a
<1>4. /\ IsSeq(Q) /\ SettledInv(Q, Flying, resting)
      /\ OfflineInv(Q, Flying, resting, connected["trading"], authed)
      /\ EnvInv(todo["env"], Q, Flying, resting) /\ IoInv(todo["io"]) /\ ByChannel
  BY DEF FirstConnection, FlowInv
<1>5. Flying' = Flying
  <2>1. PICK s : (s = <<>> \/ s = <<a>>) /\ Proceed(t, s)
    BY <1>3
  <2>2. Calm(t, s)
    BY <1>2, <2>1, CalmShort
  <2>3. t \notin Writing("trading")'
    BY <1>1, <2>1, <2>2, CalmProceed
  <2>4. t \notin Writing("trading")
    BY <1>1 DEF Writing, IsNext
  <2> QED
    BY <1>1, <2>1, <2>3, <2>4, FlyingKept, Proceeds
<1>6. ByChannel' /\ message_queue' = [c \in Channels |-> message_queue'[c]]
  BY <1>1, <1>3, <1>4 DEF ByChannel
<1>7. ~connected["trading"] => \A d : AllSettled(Q, Flying, resting, d)
  BY <1>4, NothingFlies DEF OfflineInv
<1>8. CASE t = "env"
  <2>1. i.c = "trading" /\ "trading" \in Channels
    BY <1>1, <1>8 DEF Sound
  <2>2. todo'["io"] = todo["io"]
    BY <1>3, <1>8, Proceeds DEF Threads
  <2>3. LifeInv(pending'["trading"], handlers', todo'["io"], phase'["trading"], connected'["trading"])
    BY <1>1, <2>2, StreamAlone, SameItself
  <2>4. /\ IsSeq(Append(Q, i.m)) /\ SettledInv(Append(Q, i.m), Flying, resting)
        /\ EnvInv(<<a>> \o Tail(todo["env"]), Append(Q, i.m), Flying, resting)
        /\ (\A d \in Sides : AllSettled(Q, Flying, resting, d)) =>
             EnvInv(<<>> \o Tail(todo["env"]), Q, Flying, resting)
    BY <1>1, <1>2, <1>4, <1>8, EnvSends
  <2>5. CASE connected[i.c]
    <3>1. message_queue'["trading"] = Append(Q, i.m)
      BY <1>3, <1>4, <2>1, <2>5 DEF ByChannel
    <3>3. todo'["env"] = <<a>> \o Tail(todo["env"])
      BY <1>3, <1>8, <2>5, Proceeds
    <3>2. FlowInv(message_queue'["trading"], Flying, resting, connected["trading"], authed)
      BY <1>4, <2>1, <2>4, <2>5, <3>1 DEF FlowInv, OfflineInv
    <3> QED
      BY <1>1, <1>4, <1>5, <1>6, <2>2, <2>3, <2>4, <3>1, <3>2, <3>3 DEF FirstConnection
  <2>6. CASE ~connected[i.c]
    <3>1. UNCHANGED message_queue /\ todo'["env"] = <<>> \o Tail(todo["env"])
      BY <1>3, <1>8, <2>6, Proceeds
    <3>2. EnvInv(todo'["env"], Q, Flying, resting)
      BY <1>7, <2>1, <2>4, <2>6, <3>1
    <3> QED
      BY <1>1, <1>4, <1>5, <1>6, <2>2, <2>3, <3>1, <3>2 DEF FirstConnection, FlowInv
  <2> QED
    BY <2>5, <2>6
<1>9. CASE t = "io"
  <2>1. todo'["env"] = todo["env"]
    BY <1>3, <1>9, Proceeds DEF Threads
  <2>2. Orderly(i) /\ IoInv(Tail(todo["io"])) /\ IsSeq(todo["io"])
    BY <1>1, <1>4, <1>9, IoFacts
  <2>3. /\ IoInv(todo'["io"]) /\ Same(Reads(todo["io"]), Reads(todo'["io"]))
    <3>1. PICK s : (s = <<>> \/ s = <<a>>) /\ Proceed(t, s)
      BY <1>3
    <3>2. todo'["io"] = s \o Tail(todo["io"])
      BY <1>9, <3>1, Proceeds
    <3>3. IoInv(s)
      BY <1>2, <3>1, IoShort
    <3>4. ~IsRead(Head(todo["io"]))
      BY <1>1, <1>9 DEF IsRead
    <3>5. Same(Reads(todo["io"]), Reads(s \o Tail(todo["io"])))
      BY <1>1, <1>2, <1>9, <2>2, <3>1, <3>4, ReadsNext, SameItself
    <3> QED
      BY <2>2, <3>2, <3>3, <3>5, IoConcat
  <2>4. LifeInv(pending'["trading"], handlers', todo'["io"], phase'["trading"], connected'["trading"])
    BY <1>1, <2>3, StreamAlone
  <2>5. CASE connected[i.c] /\ i.c = "trading"
    <3>1. message_queue'["trading"] = Append(Q, i.m)
      <4>1. message_queue' = [message_queue EXCEPT !["trading"] = Append(@, i.m)]
        BY <1>3, <2>5
      <4>2. message_queue = [c \in Channels |-> message_queue[c]] /\ "trading" \in Channels
        BY <1>4 DEF ByChannel, Channels
      <4> HIDE DEF i
      <4> QED
        BY <4>1, <4>2
    <3>2. \A d : ~Places(i.m, d)
      BY <1>1, <2>2, <2>5 DEF Orderly, Places
    <3>3. /\ IsSeq(Append(Q, i.m)) /\ SettledInv(Append(Q, i.m), Flying, resting)
          /\ \A d \in Sides : AllSettled(Q, Flying, resting, d) =>
               AllSettled(Append(Q, i.m), Flying, resting, d)
      BY <1>4, <3>2, Pushed
    <3>4. EnvInv(todo["env"], Append(Q, i.m), Flying, resting)
      BY <1>4, <3>3, EnvKept
    <3>5. FlowInv(message_queue'["trading"], Flying, resting, connected["trading"], authed)
      BY <1>4, <2>5, <3>1, <3>3 DEF FlowInv, OfflineInv
    <3> QED
      BY <1>1, <1>5, <1>6, <2>1, <2>3, <2>4, <3>1, <3>4, <3>5 DEF FirstConnection
  <2>6. CASE ~(connected[i.c] /\ i.c = "trading")
    <3>1. message_queue'["trading"] = Q
      BY <1>1, <1>3, <1>4, <2>6 DEF ByChannel, Channels
    <3> QED
      BY <1>1, <1>4, <1>5, <1>6, <2>1, <2>3, <2>4, <3>1 DEF FirstConnection, FlowInv
  <2> QED
    BY <2>5, <2>6
<1> QED
  BY <1>8, <1>9 DEF Threads

\* The front of the queue is taken to be written, when nothing else is.
LEMMA WriteOrders ==
  ASSUME OneWriteInv, OneWriteInv', FirstConnection, NEW t \in Threads, write_next_message(t),
         UNCHANGED <<resets, exchangeVars>>
  PROVE  FirstConnection'
<1> DEFINE Q == message_queue["trading"]
           a == [do |-> "async_write", c |-> "trading", m |-> Head(Q)]
<1>1. /\ todo[t] # <<>> /\ Sound(t, Head(todo[t])) /\ Head(todo[t]).do = "write"
      /\ UNCHANGED <<should_run_, connected, pending, handlers, phase, resting, authed>>
  BY NextIsSound DEF write_next_message, streamVars, exchangeVars, serverVars
<1>2. a.do = "async_write" /\ Sound(t, a)
  BY DEF Sound, Channels
<1>3. /\ IsSeq(Q) /\ SettledInv(Q, Flying, resting)
      /\ OfflineInv(Q, Flying, resting, connected["trading"], authed)
      /\ EnvInv(todo["env"], Q, Flying, resting) /\ IoInv(todo["io"]) /\ ByChannel
  BY DEF FirstConnection, FlowInv
<1>4. PICK s : (s = <<>> \/ s = <<a>>) /\ Proceed(t, s)
  BY DEF write_next_message, TakeNext
<1>5. /\ \A N, F, R : EnvInv(todo["env"], N, F, R) => EnvInv(todo'["env"], N, F, R)
      /\ IoInv(todo'["io"]) /\ Same(Reads(todo["io"]), Reads(todo'["io"]))
  <2> HIDE DEF a
  <2> QED
    BY <1>1, <1>2, <1>3, <1>4, GoesOn DEF Control
<1>6. LifeInv(pending'["trading"], handlers', todo'["io"], phase'["trading"], connected'["trading"])
  BY <1>1, <1>5, StreamAlone
<1>7. CASE MayWrite("trading")
  <2>1. /\ Q # <<>> /\ ~is_writing["trading"] /\ connected["trading"]
        /\ message_queue' = [message_queue EXCEPT !["trading"] = Tail(@)] /\ Proceed(t, <<a>>)
    BY <1>7 DEF MayWrite, write_next_message, TakeNext
  <2>2. Flying = {}
    BY <2>1, OneFlies
  <2>3. ByChannel' /\ message_queue'["trading"] = Tail(Q)
    BY <1>1, <1>3, <2>1 DEF ByChannel, Channels
  <2>4. Flying' = {Head(Q)}
    <3>1. todo'[t] # <<>> /\ Head(todo'[t]) = a
      <4> HIDE DEF a
      <4> QED
        BY <1>1, <1>2, <2>1, LockedProceed
    <3>2. t \in Writing("trading")'
      BY <3>1 DEF Writing, IsNext
    <3>3. Flying' = {Head(todo'[t]).m}
      <4> DEFINE W == Writing("trading")'
                 P == WritesOf(pending'["trading"])
      <4>1. Alone(W) /\ (W # {} => P = {})
        BY DEF OneWriteInv, WriteInv, OnePlace, Channels
      <4>2. Flying' = {Head(todo'[u]).m : u \in W} \cup {o.m : o \in P}
        BY DEF Flying
      <4>3. t \in W
        BY <3>2
      <4> HIDE DEF W, P
      <4>4. W = {t} /\ P = {}
        BY <4>1, <4>3 DEF Alone
      <4> QED
        BY <4>2, <4>4
    <3> QED
      BY <3>1, <3>3
  <2>5. /\ IsSeq(Tail(Q)) /\ SettledInv(Tail(Q), {Head(Q)}, resting)
        /\ \A d : AllSettled(Q, {}, resting, d) => AllSettled(Tail(Q), {Head(Q)}, resting, d)
    BY <1>3, <2>1, <2>2, Popped
  <2>6. EnvInv(todo'["env"], Tail(Q), {Head(Q)}, resting)
    BY <1>3, <1>5, <2>2, <2>5, EnvKept
  <2>7. FlowInv(Tail(Q), {Head(Q)}, resting, connected["trading"], authed)
    BY <1>3, <2>1, <2>5 DEF FlowInv, OfflineInv
  <2> QED
    BY <1>1, <1>5, <1>6, <2>3, <2>4, <2>6, <2>7 DEF FirstConnection
<1>8. CASE ~MayWrite("trading")
  <2>1. Proceed(t, <<>>) /\ UNCHANGED message_queue
    BY <1>8 DEF write_next_message
  <2>2. Flying' = Flying
    <3>1. t \notin Writing("trading")'
      BY <1>1, <2>1, CalmShort, CalmProceed
    <3>2. t \notin Writing("trading")
      BY <1>1 DEF Writing, IsNext
    <3> QED
      BY <1>1, <2>1, <3>1, <3>2, FlyingKept, Proceeds
  <2> QED
    BY <1>1, <1>3, <1>5, <1>6, <2>1, <2>2 DEF FirstConnection, FlowInv, ByChannel
<1> QED
  BY <1>7, <1>8

\* The other connection has its own queue.
LEMMA MarketWriteOrders ==
  ASSUME OneWriteInv, OneWriteInv', FirstConnection, NEW t \in Threads, write_next_market_message(t),
         UNCHANGED <<resets, exchangeVars>>
  PROVE  FirstConnection'
<1> DEFINE a == Call("write_locked", "market")
           b == [do |-> "async_write", c |-> "market", m |-> Head(message_queue["market"])]
<1>1. /\ todo[t] # <<>> /\ Sound(t, Head(todo[t])) /\ Head(todo[t]).do \in {"write", "write_locked"}
      /\ UNCHANGED <<should_run_, connected, pending, handlers, phase, resting, authed>>
  BY NextIsSound DEF write_next_market_message, streamVars, exchangeVars, serverVars
<1>2. t = "io"
  <2>1. CASE IsNext(t, "write") /\ Head(todo[t]).c = "market"
    BY <1>1, <2>1 DEF Sound, IsNext, Threads
  <2>2. CASE IsNext(t, "write_locked")
    BY <2>2 DEF OneWriteInv, LockInv
  <2> QED
    BY <2>1, <2>2 DEF write_next_market_message
<1>3. /\ message_queue'["trading"] = message_queue["trading"] /\ ByChannel'
      /\ \E e : (e = a \/ e = b) /\ (Proceed(t, <<>>) \/ Proceed(t, <<e>>))
  <2>1. ByChannel
    BY DEF FirstConnection
  <2>2. \/ UNCHANGED message_queue /\ (Proceed(t, <<>>) \/ Proceed(t, <<a>>))
        \/ TakeNext(t, "market") \/ (Proceed(t, <<>>) /\ UNCHANGED message_queue)
    BY DEF write_next_market_message
  <2>3. CASE UNCHANGED message_queue /\ (Proceed(t, <<>>) \/ Proceed(t, <<a>>))
    BY <1>1, <2>1, <2>3 DEF ByChannel
  <2>4. CASE TakeNext(t, "market")
    BY <1>1, <2>1, <2>4 DEF ByChannel, TakeNext, Channels
  <2>5. CASE Proceed(t, <<>>) /\ UNCHANGED message_queue
    BY <1>1, <2>1, <2>5 DEF ByChannel
  <2> QED
    BY <2>2, <2>3, <2>4, <2>5
<1>4. PICK e : (e = a \/ e = b) /\ (Proceed(t, <<>>) \/ Proceed(t, <<e>>))
  BY <1>3
<1>5. e.do \in {"write_locked", "async_write"} /\ e.c = "market"
  BY <1>4 DEF Call
<1>6. PICK s : (s = <<>> \/ s = <<e>>) /\ Proceed(t, s)
  BY <1>4
<1>7. /\ EnvInv(todo'["env"], message_queue["trading"], Flying, resting) /\ IoInv(todo'["io"])
      /\ Same(Reads(todo["io"]), Reads(todo'["io"]))
  BY <1>1, <1>2, <1>5, <1>6, GoesOn DEF Control, FirstConnection
<1>8. Flying' = Flying
  <2>1. t \notin Writing("trading")
    BY <1>1 DEF Writing, IsNext
  <2>2. t \notin Writing("trading")'
    <3>1. CASE s = <<>>
      BY <1>1, <1>6, <3>1, CalmShort, CalmProceed
    <3>2. CASE s = <<e>>
      <4>1. Sound(t, e)
        BY <1>2, <1>5 DEF Sound, Channels
      <4>2. Head(todo'[t]) = e
        BY <1>1, <1>6, <3>2, <4>1, LockedProceed
      <4> QED
        BY <1>5, <4>2 DEF Writing
    <3> QED
      BY <1>6, <3>1, <3>2
  <2> QED
    BY <1>1, <1>6, <2>1, <2>2, FlyingKept, Proceeds
<1>9. LifeInv(pending'["trading"], handlers', todo'["io"], phase'["trading"], connected'["trading"])
  BY <1>1, <1>7, StreamAlone
<1> QED
  BY <1>1, <1>3, <1>7, <1>8, <1>9 DEF FirstConnection, FlowInv
-----------------------------------------------------------------------------
(* Operations on the streams *)

HandlersLess(gs) ==
  gs = handlers \/ (handlers # <<>> /\ ~Lively(Head(handlers)) /\ gs = Tail(handlers))

LEMMA LessFacts ==
  ASSUME OneWriteInv, NEW gs, HandlersLess(gs)
  PROVE  /\ IsSeq(gs) /\ Same(Ready(handlers), Ready(gs))
         /\ \A k \in DOMAIN gs : \E j \in DOMAIN handlers : gs[k] = handlers[j]
<1>1. IsSeq(handlers)
  BY DEF OneWriteInv, StreamType, HandlerSeq, IsSeq
<1>2. CASE gs = handlers
  BY <1>1, <1>2, SameItself
<1>3. CASE handlers # <<>> /\ ~Lively(Head(handlers)) /\ gs = Tail(handlers)
  BY <1>1, <1>3, ReadyTail, TailFacts
<1> QED
  BY <1>2, <1>3 DEF HandlersLess

\* Nothing begins or ends on the trading stream.
LEMMA StreamUntouched ==
  ASSUME OneWriteInv, FirstConnection, NEW gs, HandlersLess(gs),
         \/ handlers' = gs
         \/ \E h : h.c # "trading" /\ handlers' = Append(gs, h)
         \/ \E r : IsSeq(r) /\ (\A k \in DOMAIN r : r[k].c # "trading") /\ handlers' = gs \o r,
         Begun(pending'["trading"]) = Begun(pending["trading"]),
         phase'["trading"] = phase["trading"], connected'["trading"] = connected["trading"],
         Same(Reads(todo["io"]), Reads(todo'["io"]))
  PROVE  LifeInv(pending'["trading"], handlers', todo'["io"], phase'["trading"], connected'["trading"])
<1>1. LifeInv(pending["trading"], handlers, todo["io"], phase["trading"], connected["trading"])
  BY DEF FirstConnection
<1>2. /\ IsSeq(gs) /\ Same(Ready(handlers), Ready(gs))
      /\ \A k \in DOMAIN gs : \E j \in DOMAIN handlers : gs[k] = handlers[j]
  BY LessFacts
<1>3. /\ Same(Ready(handlers), Ready(handlers'))
      /\ \A k \in DOMAIN handlers' :
           handlers'[k].c = "trading" => \E j \in DOMAIN handlers : handlers'[k] = handlers[j]
  <2>1. CASE handlers' = gs
    BY <1>2, <2>1
  <2>2. CASE \E h : h.c # "trading" /\ handlers' = Append(gs, h)
    <3>1. PICK h : h.c # "trading" /\ ~Lively(h) /\ handlers' = Append(gs, h)
      BY <2>2 DEF Lively
    <3>2. Ready(handlers') = Ready(gs)
      BY <1>2, <3>1, ReadyAppend
    <3>3. \A k \in DOMAIN handlers' : handlers'[k] = h \/ \E j \in DOMAIN gs : handlers'[k] = gs[j]
      BY <1>2, <3>1, ReadyAppend
    <3> QED
      BY <1>2, <3>1, <3>2, <3>3
  <2>3. CASE \E r : IsSeq(r) /\ (\A k \in DOMAIN r : r[k].c # "trading") /\ handlers' = gs \o r
    <3>1. PICK r : IsSeq(r) /\ (\A k \in DOMAIN r : r[k].c # "trading") /\ handlers' = gs \o r
      BY <2>3
    <3>2. Ready(handlers') = Ready(gs)
      BY <1>2, <3>1, ReadyConcat
    <3>3. \A k \in DOMAIN handlers' :
            handlers'[k].c # "trading" \/ \E j \in DOMAIN gs : handlers'[k] = gs[j]
      BY <1>2, <3>1, ReadyConcat
    <3> QED
      BY <1>2, <3>2, <3>3
  <2> QED
    BY <2>1, <2>2, <2>3
<1>4. LifeInv(pending'["trading"], handlers', todo'["io"], phase["trading"], connected["trading"])
  BY <1>1, <1>3, LifeSame
<1> QED
  BY <1>4

\* An operation of the other stream.
LEMMA BeginsElsewhere ==
  ASSUME OneWriteInv, NEW c \in Channels, c # "trading", NEW o, NEW gs, Begin(c, o, gs)
  PROVE  /\ pending'["trading"] = pending["trading"]
         /\ handlers' = gs \/ \E h : h.c # "trading" /\ handlers' = Append(gs, h)
<1>1. Handler(c, o, FALSE).c # "trading"
  BY DEF Handler
<1> QED
  BY <1>1 DEF Begin, OneWriteInv, StreamType, Channels

\* The messages are as they were.
LEMMA FlowSame ==
  ASSUME FirstConnection, UNCHANGED <<resets, should_run_, resting, authed>>, Flying' = Flying,
         ByChannel', message_queue'["trading"] = message_queue["trading"],
         connected'["trading"] = connected["trading"],
         EnvInv(todo'["env"], message_queue["trading"], Flying, resting), IoInv(todo'["io"]),
         LifeInv(pending'["trading"], handlers', todo'["io"], phase'["trading"], connected'["trading"])
  PROVE  FirstConnection'
BY DEF FirstConnection, FlowInv

LEMMA AsyncWriteOrders ==
  ASSUME OneWriteInv, FirstConnection, NEW t \in Threads, async_write(t), UNCHANGED <<resets, exchangeVars>>
  PROVE  FirstConnection'
<1> DEFINE i == Head(todo[t])
           o == Op("write", i.m)
           a == Call("test", i.c)
<1>1. /\ todo[t] # <<>> /\ Sound(t, i) /\ i.do = "async_write" /\ i.c \in Channels
      /\ UNCHANGED <<should_run_, connected, message_queue, phase, resting, authed>>
      /\ Begin(i.c, o, handlers) /\ Proceed(t, <<>>)
  BY NextIsSound DEF async_write, exchangeVars, serverVars, Sound
<1>2. /\ EnvInv(todo'["env"], message_queue["trading"], Flying, resting) /\ IoInv(todo'["io"])
      /\ Same(Reads(todo["io"]), Reads(todo'["io"]))
  <2>1. a.do \in Control
    BY DEF Call, Control
  <2> HIDE DEF a
  <2> QED
    BY <1>1, <2>1, GoesOn DEF Control, FirstConnection
<1>3. ByChannel'
  BY <1>1 DEF FirstConnection, ByChannel
<1>4. HandlersLess(handlers)
  BY DEF HandlersLess
<1>5. t \notin Writing("trading")'
  BY <1>1, CalmShort, CalmProceed
<1>6. CASE i.c # "trading"
  <2>1. /\ pending'["trading"] = pending["trading"]
        /\ handlers' = handlers \/ \E h : h.c # "trading" /\ handlers' = Append(handlers, h)
    <3> HIDE DEF o, i
    <3> QED
      BY <1>1, <1>6, BeginsElsewhere
  <2>2. LifeInv(pending'["trading"], handlers', todo'["io"], phase'["trading"], connected'["trading"])
    BY <1>1, <1>2, <1>4, <2>1, StreamUntouched
  <2>3. Flying' = Flying
    <3>1. t \notin Writing("trading")
      BY <1>6 DEF Writing
    <3> QED
      BY <1>1, <1>5, <2>1, <3>1, FlyingKept, Proceeds
  <2> QED
    BY <1>1, <1>2, <1>3, <2>2, <2>3, FlowSame
<1>7. CASE i.c = "trading"
  <2>1. t \in Writing("trading")
    BY <1>1, <1>7 DEF Writing, IsNext
  <2>2. Flying = {i.m} /\ Writing("trading") = {t} /\ WritesOf(pending["trading"]) = {}
    BY <2>1, OneFlies
  <2>3. phase["trading"] = "open"
    <3>1. connected["trading"]
      BY <2>2 DEF FirstConnection, FlowInv, OfflineInv
    <3> QED
      BY <3>1, Connected DEF FirstConnection
  <2>4. pending' = [pending EXCEPT !["trading"] = @ \cup {o}] /\ handlers' = handlers
    <3>1. o.op = "write" /\ \A p \in pending["trading"] : p.op # "write"
      BY <2>2 DEF Op, WritesOf
    <3>2. phase["trading"] = ReadyFor(o.op)
      BY <2>3, <3>1 DEF ReadyFor
    <3> HIDE DEF o
    <3> QED
      BY <1>1, <1>7, <3>1, <3>2 DEF Begin
  <2>5. pending'["trading"] = pending["trading"] \cup {o}
    BY <2>4 DEF OneWriteInv, StreamType, Channels
  <2>6. Begun(pending'["trading"]) = Begun(pending["trading"]) /\ WritesOf(pending'["trading"]) = {o}
    BY <2>2, <2>5 DEF Begun, WritesOf, Op
  <2>7. LifeInv(pending'["trading"], handlers', todo'["io"], phase'["trading"], connected'["trading"])
    BY <1>1, <1>2, <1>4, <2>4, <2>6, StreamUntouched
  <2>8. Flying' = Flying
    <3>1. \A u \in Threads : u # t => todo'[u] = todo[u]
      BY <1>1, Proceeds
    <3>2. Writing("trading")' = {}
      BY <1>5, <2>2, <3>1 DEF Writing, IsNext
    <3>3. o.m = i.m
      BY DEF Op
    <3> HIDE DEF o, i
    <3> QED
      BY <2>2, <2>6, <3>2, <3>3 DEF Flying
  <2> QED
    BY <1>1, <1>2, <1>3, <2>7, <2>8, FlowSame
<1> QED
  BY <1>6, <1>7
-----------------------------------------------------------------------------
(* The handlers of the io thread *)

\* A handler leaves instructions for the io thread.
LEMMA Instructs ==
  ASSUME OneWriteInv, FirstConnection, todo["io"] = <<>>, NEW r, Calm("io", r), IoInv(r),
         todo' = [todo EXCEPT !["io"] = r],
         WritesOf(pending'["trading"]) = WritesOf(pending["trading"])
  PROVE  /\ Flying' = Flying /\ todo'["io"] = r /\ IoInv(todo'["io"])
         /\ EnvInv(todo'["env"], message_queue["trading"], Flying, resting)
<1>1. "io" \in Threads /\ "env" \in Threads /\ "env" # "io"
  BY DEF Threads
<1>2. todo'["io"] = r /\ \A u \in Threads : u # "io" => todo'[u] = todo[u]
  BY <1>1 DEF OneWriteInv, TodoInv
<1>3. "io" \notin Writing("trading")'
  BY <1>1, CalmStep
<1>4. "io" \notin Writing("trading")
  BY DEF Writing, IsNext
<1>5. Flying' = Flying
  BY <1>1, <1>2, <1>3, <1>4, FlyingKept
<1> QED
  BY <1>1, <1>2, <1>5 DEF FirstConnection

LEMMA ReadsShort ==
  /\ Reads(<<>>) = {}
  /\ \A a : Reads(<<a>>) = IF IsRead(a) THEN {1} ELSE {}
  /\ \A a, b : ~IsRead(a) => Reads(<<a, b>>) = IF IsRead(b) THEN {2} ELSE {}
<1>1. Reads(<<>>) = {}
  BY ShortSeqs DEF Reads
<1>2. ASSUME NEW a PROVE Reads(<<a>>) = IF IsRead(a) THEN {1} ELSE {}
  BY ShortSeqs DEF Reads
<1>3. ASSUME NEW a, NEW b, ~IsRead(a) PROVE Reads(<<a, b>>) = IF IsRead(b) THEN {2} ELSE {}
  <2>1. DOMAIN <<a, b>> = {1, 2} /\ <<a, b>>[1] = a /\ <<a, b>>[2] = b
    OBVIOUS
  <2> HIDE DEF IsRead
  <2> QED
    BY <1>3, <2>1 DEF Reads
<1> QED
  BY <1>1, <1>2, <1>3

\* A task without a read, and then the next read.
LEMMA ReadsLast ==
  ASSUME NEW s, NEW b, IsSeq(s), Reads(s) = {}
  PROVE  /\ IsRead(b) => Reads(s \o <<b>>) # {} /\ Alone(Reads(s \o <<b>>))
         /\ ~IsRead(b) => Reads(s \o <<b>>) = {}
<1> DEFINE N == s \o <<b>>
           n == Len(s)
<1>1. IsSeq(<<b>>) /\ Len(<<b>>) = 1 /\ DOMAIN <<b>> = {1} /\ <<b>>[1] = b
  BY ShortSeqs
<1>2. /\ n \in Nat /\ DOMAIN s = 1 .. n /\ DOMAIN N = 1 .. n + 1
      /\ \A k \in DOMAIN N : \/ k \in DOMAIN s /\ N[k] = s[k]
                             \/ k - n \in {1} /\ N[k] = b
  BY <1>1, ConcatFacts, SeqFacts
<1> HIDE DEF N, n
<1>3. n + 1 \in DOMAIN N /\ N[n + 1] = b
  BY <1>2
<1>4. \A k \in DOMAIN N : k # n + 1 => ~IsRead(N[k])
  BY <1>2 DEF Reads
<1>5. \A k : k \in Reads(N) <=> k = n + 1 /\ IsRead(b)
  BY <1>3, <1>4 DEF Reads
<1>6. IsRead(b) => Reads(N) # {} /\ Alone(Reads(N))
  BY <1>5 DEF Alone
<1>7. ~IsRead(b) => Reads(N) = {}
  BY <1>5
<1> QED
  BY <1>6, <1>7 DEF N

LEMMA ConnectOrders ==
  ASSUME OneWriteInv, FirstConnection, on_connect, UNCHANGED <<resets, exchangeVars>>
  PROVE  FirstConnection'
<1> DEFINE c == Head(handlers).c
           o == Op("handshake", Nothing)
<1>1. /\ handlers # <<>> /\ Head(handlers).op = "connect" /\ c \in Channels
      /\ UNCHANGED <<should_run_, connected, message_queue, phase, todo, resting, authed>>
      /\ Begin(c, o, Tail(handlers))
  BY TakesHandler DEF on_connect, Handles, exchangeVars, serverVars
<1>2. /\ ByChannel' /\ IoInv(todo'["io"])
      /\ EnvInv(todo'["env"], message_queue["trading"], Flying, resting)
      /\ Same(Reads(todo["io"]), Reads(todo'["io"]))
  BY <1>1, SameItself DEF FirstConnection, ByChannel
<1>3. o.op = "handshake"
  BY DEF Op
<1>4. IsSeq(handlers)
  BY DEF OneWriteInv, StreamType, HandlerSeq, IsSeq
<1> HIDE DEF o
<1>5. CASE c # "trading"
  <2>1. HandlersLess(Tail(handlers))
    BY <1>1, <1>5 DEF HandlersLess, Lively
  <2>2. /\ pending'["trading"] = pending["trading"]
        /\ handlers' = Tail(handlers) \/ \E h : h.c # "trading" /\ handlers' = Append(Tail(handlers), h)
    <3> HIDE DEF c
    <3> QED
      BY <1>1, <1>5, BeginsElsewhere
  <2>3. LifeInv(pending'["trading"], handlers', todo'["io"], phase'["trading"], connected'["trading"])
    BY <1>1, <1>2, <2>1, <2>2, StreamUntouched
  <2>4. Flying' = Flying
    BY <1>1, <2>2, FlyingSame
  <2> QED
    BY <1>1, <1>2, <2>3, <2>4, FlowSame
<1>6. CASE c = "trading"
  <2>1. LifeInv(pending["trading"], handlers, todo["io"], phase["trading"], connected["trading"])
    BY DEF FirstConnection
  <2>2. Lively(Head(handlers))
    BY <1>1, <1>6 DEF Lively
  <2>3. /\ Completed(Head(handlers), phase["trading"], connected["trading"])
        /\ Begun(pending["trading"]) = {} /\ Reads(todo["io"]) = {}
    BY <1>1, <1>4, <1>6, <2>1, <2>2, HeadCompleted
  <2>4. phase["trading"] = "connected" /\ ~connected["trading"]
    BY <1>1, <2>3 DEF Completed
  <2>5. pending' = [pending EXCEPT !["trading"] = @ \cup {o}] /\ handlers' = Tail(handlers)
    <3>1. \A p \in pending["trading"] : p.op # o.op
      BY <1>3, <2>3 DEF Begun
    <3>2. phase["trading"] = ReadyFor(o.op)
      BY <1>3, <2>4 DEF ReadyFor
    <3> QED
      BY <1>1, <1>6, <3>1, <3>2 DEF Begin
  <2>6. pending'["trading"] = pending["trading"] \cup {o}
    BY <2>5 DEF OneWriteInv, StreamType, Channels
  <2>7. Begun(pending'["trading"]) = {o} /\ WritesOf(pending'["trading"]) = WritesOf(pending["trading"])
    BY <1>3, <2>3, <2>6 DEF Begun, WritesOf
  <2>8. Pends(o.op, phase["trading"], connected["trading"]) /\ Alone({o}) /\ Alone(Reads(todo["io"]))
    BY <1>3, <2>3, <2>4 DEF Pends, Alone
  <2>9. LifeInv(pending'["trading"], Tail(handlers), todo["io"], phase["trading"], connected["trading"])
    BY <1>1, <1>4, <2>1, <2>2, <2>3, <2>7, <2>8, LifeHandled
  <2>10. Flying' = Flying
    BY <1>1, <2>7, FlyingSame
  <2> QED
    BY <1>1, <1>2, <2>5, <2>9, <2>10, FlowSame
<1> QED
  BY <1>5, <1>6

LEMMA HandshakeOrders ==
  ASSUME OneWriteInv, FirstConnection, on_handshake, UNCHANGED <<resets, exchangeVars>>
  PROVE  FirstConnection'
<1> DEFINE c == Head(handlers).c
           a == Send(c, Hello(c))
           b == Call("first_read", c)
<1>1. /\ handlers # <<>> /\ Head(handlers).op = "handshake" /\ c \in Channels
      /\ todo["io"] = <<>> /\ handlers' = Tail(handlers)
      /\ UNCHANGED <<should_run_, message_queue, phase, pending, resting, authed>>
      /\ connected' = [connected EXCEPT ![c] = TRUE] /\ todo' = [todo EXCEPT !["io"] = <<a, b>>]
  BY TakesHandler DEF on_handshake, Handles, Running, exchangeVars, serverVars
<1>2. ByChannel
  BY DEF FirstConnection
<1>3. ByChannel'
  BY <1>1, <1>2 DEF ByChannel
<1>4. /\ a.do = "send" /\ a.c = c /\ b.do = "first_read" /\ b.c = c /\ (c = "trading" => a.m.kind = "auth")
  BY DEF Send, Call, Hello
<1>5. IsSeq(handlers)
  BY DEF OneWriteInv, StreamType, HandlerSeq, IsSeq
<1> HIDE DEF a, b
<1>6. Calm("io", <<a, b>>) /\ IoInv(<<a, b>>) /\ ~IsRead(a) /\ (IsRead(b) <=> c = "trading")
  <2>1. Sound("io", a) /\ Sound("io", b) /\ {a.do, b.do} \cap Locked = {}
    BY <1>1, <1>4 DEF Sound, Locked
  <2>2. Orderly(a) /\ Orderly(b) /\ ~IsRead(a) /\ (IsRead(b) <=> c = "trading")
    BY <1>4 DEF Orderly, IsRead
  <2> QED
    BY <2>1, <2>2, CalmPair, IoShort
<1>7. /\ Flying' = Flying /\ todo'["io"] = <<a, b>> /\ IoInv(todo'["io"])
      /\ EnvInv(todo'["env"], message_queue["trading"], Flying, resting)
  BY <1>1, <1>6, Instructs
<1>8. CASE c # "trading"
  <2>1. HandlersLess(Tail(handlers))
    BY <1>1, <1>8 DEF HandlersLess, Lively
  <2>2. connected'["trading"] = connected["trading"]
    BY <1>1, <1>2, <1>8 DEF ByChannel, Channels
  <2>3. Same(Reads(todo["io"]), Reads(todo'["io"]))
    BY <1>1, <1>6, <1>7, <1>8, ReadsShort, SameItself
  <2>4. LifeInv(pending'["trading"], handlers', todo'["io"], phase'["trading"], connected'["trading"])
    BY <1>1, <2>1, <2>2, <2>3, StreamUntouched
  <2> QED
    BY <1>1, <1>3, <1>7, <2>2, <2>4, FlowSame
<1>9. CASE c = "trading"
  <2>1. LifeInv(pending["trading"], handlers, todo["io"], phase["trading"], connected["trading"])
    BY DEF FirstConnection
  <2>2. Lively(Head(handlers))
    BY <1>1, <1>9 DEF Lively
  <2>3. /\ Completed(Head(handlers), phase["trading"], connected["trading"])
        /\ Begun(pending["trading"]) = {}
    BY <1>1, <1>5, <1>9, <2>1, <2>2, HeadCompleted
  <2>4. phase["trading"] = "open" /\ ~connected["trading"] /\ connected'["trading"] = TRUE
    BY <1>1, <1>2, <1>9, <2>3 DEF Completed, ByChannel, Channels
  <2>5. Reads(<<a, b>>) = {2}
    BY <1>6, <1>9, ReadsShort
  <2>6. Alone({2}) /\ Alone({})
    BY DEF Alone
  <2>7. LifeInv(pending["trading"], Tail(handlers), <<a, b>>, phase["trading"], TRUE)
    <3> HIDE DEF c
    <3>1. IsSeq(handlers) /\ handlers # <<>>
      BY <1>1, <1>5
    <3>2. /\ Begun(pending["trading"]) = {} /\ Alone(Begun(pending["trading"]))
          /\ Reads(<<a, b>>) # {} /\ Alone(Reads(<<a, b>>))
      BY <2>3, <2>5, <2>6
    <3>3. /\ \A o \in Begun(pending["trading"]) :
               o \notin Begun(pending["trading"]) => Pends(o.op, phase["trading"], TRUE)
          /\ phase["trading"] = "open" /\ ~connected["trading"]
      BY <2>4
    <3> QED
      BY <2>1, <2>2, <3>1, <3>2, <3>3, LifeHandled
  <2>8. FlowInv(message_queue["trading"], Flying, resting, TRUE, authed)
    BY DEF FirstConnection, FlowInv, OfflineInv
  <2> QED
    BY <1>1, <1>3, <1>7, <2>4, <2>7, <2>8 DEF FirstConnection
<1> QED
  BY <1>8, <1>9
\* The io thread has done its next instruction, which was not to write.
LEMMA IoDone ==
  ASSUME OneWriteInv, FirstConnection, todo["io"] # <<>>, Head(todo["io"]).do # "async_write",
         Proceed("io", <<>>), WritesOf(pending'["trading"]) = WritesOf(pending["trading"])
  PROVE  /\ todo'["io"] = <<>> \o Tail(todo["io"]) /\ Flying' = Flying /\ IoInv(todo'["io"])
         /\ EnvInv(todo'["env"], message_queue["trading"], Flying, resting)
         /\ ~IsRead(Head(todo["io"])) => Same(Reads(todo["io"]), Reads(todo'["io"]))
<1>1. "io" \in Threads /\ "env" \in Threads /\ "env" # "io"
  BY DEF Threads
<1>2. todo'["io"] = <<>> \o Tail(todo["io"]) /\ \A u \in Threads : u # "io" => todo'[u] = todo[u]
  BY <1>1, Proceeds
<1>3. IsSeq(todo["io"]) /\ IoInv(todo'["io"])
  BY <1>2, IoFacts DEF FirstConnection
<1>4. "io" \notin Writing("trading")'
  BY <1>1, CalmShort, CalmProceed
<1>5. "io" \notin Writing("trading")
  BY DEF Writing, IsNext
<1>6. Flying' = Flying
  BY <1>1, <1>2, <1>4, <1>5, FlyingKept
<1>7. EnvInv(todo'["env"], message_queue["trading"], Flying, resting)
  BY <1>1, <1>2 DEF FirstConnection
<1>8. ~IsRead(Head(todo["io"])) => Same(Reads(todo["io"]), Reads(todo'["io"]))
  BY <1>2, <1>3, ReadsNext
<1> QED
  BY <1>2, <1>3, <1>6, <1>7, <1>8

LEMMA ReadOrders ==
  ASSUME OneWriteInv, FirstConnection, do_read, UNCHANGED <<resets, exchangeVars>>
  PROVE  FirstConnection'
<1> DEFINE i == Head(todo["io"])
           o == Op("read", Nothing)
<1>1. should_run_ /\ ByChannel
  BY DEF FirstConnection
<1>2. /\ todo["io"] # <<>> /\ i.do \in {"first_read", "read"} /\ i.c \in Channels
      /\ UNCHANGED <<should_run_, connected, message_queue, phase, resting, authed>>
      /\ Begin(i.c, o, handlers) /\ Proceed("io", <<>>)
  BY <1>1, NextIsSound DEF do_read, exchangeVars, serverVars, Sound, Threads
<1>3. ByChannel'
  BY <1>1, <1>2 DEF ByChannel
<1>4. HandlersLess(handlers) /\ o.op = "read"
  BY DEF HandlersLess, Op
<1> HIDE DEF o
<1>5. CASE i.c # "trading"
  <2>1. /\ pending'["trading"] = pending["trading"]
        /\ handlers' = handlers \/ \E h : h.c # "trading" /\ handlers' = Append(handlers, h)
    <3> HIDE DEF i
    <3> QED
      BY <1>2, <1>5, BeginsElsewhere
  <2>2. ~IsRead(i)
    BY <1>5 DEF IsRead
  <2>3. /\ Flying' = Flying /\ IoInv(todo'["io"])
        /\ EnvInv(todo'["env"], message_queue["trading"], Flying, resting)
        /\ Same(Reads(todo["io"]), Reads(todo'["io"]))
    BY <1>2, <2>1, <2>2, IoDone
  <2>4. LifeInv(pending'["trading"], handlers', todo'["io"], phase'["trading"], connected'["trading"])
    BY <1>2, <1>4, <2>1, <2>3, StreamUntouched
  <2> QED
    BY <1>2, <1>3, <2>3, <2>4, FlowSame
<1>6. CASE i.c = "trading"
  <2>1. LifeInv(pending["trading"], handlers, todo["io"], phase["trading"], connected["trading"])
    BY DEF FirstConnection
  <2>2. IsSeq(todo["io"])
    BY IoFacts DEF FirstConnection
  <2>3. IsRead(i)
    BY <1>2, <1>6 DEF IsRead
  <2>4. Reads(todo["io"]) # {} /\ (Alone(Reads(todo["io"])) => Reads(<<>> \o Tail(todo["io"])) = {})
    BY <1>2, <2>2, <2>3, ReadsNext
  <2>5. /\ Reads(<<>> \o Tail(todo["io"])) = {} /\ Begun(pending["trading"]) = {}
        /\ phase["trading"] = "open"
    BY <2>1, <2>4 DEF LifeInv, OneLife
  <2>6. pending' = [pending EXCEPT !["trading"] = @ \cup {o}] /\ handlers' = handlers
    <3>1. \A p \in pending["trading"] : p.op # o.op
      BY <1>4, <2>5 DEF Begun
    <3>2. phase["trading"] = ReadyFor(o.op)
      BY <1>4, <2>5 DEF ReadyFor
    <3> QED
      BY <1>2, <1>6, <3>1, <3>2 DEF Begin
  <2>7. pending'["trading"] = pending["trading"] \cup {o}
    BY <2>6 DEF OneWriteInv, StreamType, Channels
  <2>8. WritesOf(pending'["trading"]) = WritesOf(pending["trading"])
    BY <1>4, <2>7 DEF WritesOf
  <2>9. /\ Flying' = Flying /\ IoInv(todo'["io"]) /\ todo'["io"] = <<>> \o Tail(todo["io"])
        /\ EnvInv(todo'["env"], message_queue["trading"], Flying, resting)
    BY <1>2, <2>8, IoDone
  <2>10. LifeInv(pending'["trading"], handlers', todo'["io"], phase["trading"], connected["trading"])
    BY <1>4, <2>1, <2>4, <2>5, <2>6, <2>7, <2>9, LifeBegins
  <2> QED
    BY <1>2, <1>3, <2>9, <2>10, FlowSame
<1> QED
  BY <1>5, <1>6

\* Something is read, and the next read comes after what is done with it.
LEMMA OnReadOrders ==
  ASSUME OneWriteInv, FirstConnection, NEW task, Calm("io", task), IoInv(task), Reads(task) = {},
         on_read(task), UNCHANGED <<resets, resting, authed>>
  PROVE  FirstConnection'
<1> DEFINE c == Head(handlers).c
           b == Call("read", c)
           r == task \o <<b>>
<1>1. /\ handlers # <<>> /\ Head(handlers).op = "read" /\ c \in Channels
      /\ todo["io"] = <<>> /\ handlers' = Tail(handlers) /\ todo' = [todo EXCEPT !["io"] = r]
      /\ UNCHANGED <<should_run_, connected, message_queue, phase, pending>>
  BY TakesHandler DEF on_read, Handles, Running
<1>2. ByChannel'
  BY <1>1 DEF FirstConnection, ByChannel
<1>3. b.do = "read" /\ b.c = c
  BY DEF Call
<1> HIDE DEF b
<1>4. IsRead(b) <=> c = "trading"
  BY <1>3 DEF IsRead
<1>5. Calm("io", r) /\ IoInv(r)
  <2>1. Sound("io", b) /\ b.do \notin Locked /\ Orderly(b)
    BY <1>1, <1>3 DEF Sound, Locked, Orderly
  <2> QED
    BY <2>1, CalmShort, CalmConcat, IoShort, IoConcat
<1>6. /\ IsRead(b) => Reads(r) # {} /\ Alone(Reads(r))
      /\ ~IsRead(b) => Reads(r) = {}
  <2>1. IsSeq(task)
    BY IoFacts
  <2> QED
    BY <2>1, ReadsLast
<1> HIDE DEF r
<1>7. /\ Flying' = Flying /\ todo'["io"] = r /\ IoInv(todo'["io"])
      /\ EnvInv(todo'["env"], message_queue["trading"], Flying, resting)
  BY <1>1, <1>5, Instructs
<1>8. CASE c # "trading"
  <2>1. HandlersLess(Tail(handlers))
    BY <1>1, <1>8 DEF HandlersLess, Lively
  <2>2. Same(Reads(todo["io"]), Reads(todo'["io"]))
    BY <1>1, <1>4, <1>6, <1>7, <1>8, ReadsShort, SameItself
  <2>3. LifeInv(pending'["trading"], handlers', todo'["io"], phase'["trading"], connected'["trading"])
    BY <1>1, <2>1, <2>2, StreamUntouched
  <2> QED
    BY <1>1, <1>2, <1>7, <2>3, FlowSame
<1>9. CASE c = "trading"
  <2>1. LifeInv(pending["trading"], handlers, todo["io"], phase["trading"], connected["trading"])
    BY DEF FirstConnection
  <2>2. Lively(Head(handlers)) /\ IsSeq(handlers)
    BY <1>1, <1>9 DEF Lively, OneWriteInv, StreamType, HandlerSeq, IsSeq
  <2>3. /\ Completed(Head(handlers), phase["trading"], connected["trading"])
        /\ Begun(pending["trading"]) = {}
    BY <1>1, <1>9, <2>1, <2>2, HeadCompleted
  <2>4. phase["trading"] = "open" /\ connected["trading"]
    BY <1>1, <2>3 DEF Completed
  <2>5. Reads(r) # {} /\ Alone(Reads(r)) /\ Alone(Begun(pending["trading"]))
    BY <1>4, <1>6, <1>9, <2>3 DEF Alone
  <2>6. LifeInv(pending["trading"], Tail(handlers), r, phase["trading"], connected["trading"])
    <3> HIDE DEF c
    <3> QED
      BY <1>1, <2>1, <2>2, <2>3, <2>4, <2>5, LifeHandled
  <2> QED
    BY <1>1, <1>2, <1>7, <2>6, FlowSame
<1> QED
  BY <1>8, <1>9

LEMMA OnWriteOrders ==
  ASSUME OneWriteInv, FirstConnection, on_write, UNCHANGED <<resets, exchangeVars>>
  PROVE  FirstConnection'
<1> DEFINE a == Call("write", Head(handlers).c)
<1>1. /\ handlers # <<>> /\ Head(handlers).op = "write" /\ Head(handlers).c \in Channels
      /\ todo["io"] = <<>> /\ handlers' = Tail(handlers)
      /\ UNCHANGED <<should_run_, connected, message_queue, phase, pending, resting, authed>>
  BY TakesHandler DEF on_write, Handles, Running, exchangeVars, serverVars
<1>2. a.do = "write" /\ a.c \in Channels
  BY <1>1 DEF Call
<1>3. PICK r : (r = <<>> \/ r = <<a>>) /\ todo' = [todo EXCEPT !["io"] = r]
  BY DEF on_write
<1> HIDE DEF a
<1>4. Sound("io", a) /\ a.do \notin Locked /\ Orderly(a) /\ ~IsRead(a)
  BY <1>2 DEF Sound, Locked, Orderly, IsRead
<1>5. Calm("io", r) /\ IoInv(r) /\ Reads(r) = {}
  BY <1>3, <1>4, CalmShort, IoShort, ReadsShort
<1>6. /\ Flying' = Flying /\ todo'["io"] = r /\ IoInv(todo'["io"])
      /\ EnvInv(todo'["env"], message_queue["trading"], Flying, resting)
  BY <1>1, <1>3, <1>5, Instructs
<1>7. ByChannel'
  BY <1>1 DEF FirstConnection, ByChannel
<1>8. HandlersLess(Tail(handlers))
  BY <1>1 DEF HandlersLess, Lively
<1>9. Same(Reads(todo["io"]), Reads(todo'["io"]))
  BY <1>1, <1>5, <1>6, ReadsShort, SameItself
<1>10. LifeInv(pending'["trading"], handlers', todo'["io"], phase'["trading"], connected'["trading"])
  BY <1>1, <1>8, <1>9, StreamUntouched
<1> QED
  BY <1>1, <1>6, <1>7, <1>10, FlowSame

\* The market connection is set up again.
LEMMA SetUpElsewhere ==
  ASSUME OneWriteInv, FirstConnection, NEW throws, NEW hs, SetUp("market", throws, hs)
  PROVE  /\ pending'["trading"] = pending["trading"] /\ phase'["trading"] = phase["trading"]
         /\ phase' = [c \in Channels |-> phase'[c]]
         /\ \E r : IsSeq(r) /\ (\A k \in DOMAIN r : r[k].c # "trading") /\ handlers' = hs \o r
<1>1. "market" \in Channels /\ "trading" \in Channels /\ ByChannel
  BY DEF Channels, FirstConnection
<1>2. pending'["trading"] = pending["trading"]
  BY <1>1 DEF SetUp, OneWriteInv, StreamType
<1>3. phase'["trading"] = phase["trading"] /\ phase' = [c \in Channels |-> phase'[c]]
  BY <1>1 DEF SetUp, ByChannel
<1>4. PICK aborted \in Aborted("market") : handlers' = hs \o aborted
  BY DEF SetUp
<1>5. IsSeq(aborted)
  BY <1>1, Aborts DEF HandlerSeq, IsSeq
<1>6. \A k \in DOMAIN aborted : aborted[k].c # "trading"
  BY DEF Aborted, Handler
<1> QED
  BY <1>2, <1>3, <1>4, <1>5, <1>6

LEMMA NoFailure ==
  ASSUME OneWriteInv, FirstConnection, handlers # <<>>, ~Head(handlers).ok
  PROVE  Head(handlers).c = "market"
<1>1. Head(handlers).c \in Channels /\ IsSeq(handlers)
  BY TakesHandler DEF OneWriteInv, StreamType, HandlerSeq, IsSeq
<1>2. Head(handlers).c # "trading"
  BY <1>1, HeadCompleted DEF FirstConnection, Completed
<1> QED
  BY <1>1, <1>2 DEF Channels

LEMMA WriteErrorOrders ==
  ASSUME OneWriteInv, FirstConnection, on_write_error, UNCHANGED <<resets, exchangeVars>>
  PROVE  FirstConnection'
<1>1. /\ handlers # <<>> /\ Head(handlers).c = "market"
      /\ UNCHANGED <<should_run_, message_queue, todo, resting, authed>>
      /\ connected' = [connected EXCEPT !["market"] = FALSE]
  BY NoFailure DEF on_write_error, Handles, exchangeVars, serverVars
<1>2. PICK throws \in BOOLEAN : SetUp("market", throws, Tail(handlers))
  BY <1>1 DEF on_write_error
<1>3. /\ pending'["trading"] = pending["trading"] /\ phase'["trading"] = phase["trading"]
      /\ phase' = [c \in Channels |-> phase'[c]]
      /\ \E r : IsSeq(r) /\ (\A k \in DOMAIN r : r[k].c # "trading") /\ handlers' = Tail(handlers) \o r
  BY <1>2, SetUpElsewhere
<1>4. ByChannel' /\ connected'["trading"] = connected["trading"]
  BY <1>1, <1>3 DEF FirstConnection, ByChannel, Channels
<1>5. HandlersLess(Tail(handlers))
  BY <1>1 DEF HandlersLess, Lively
<1>6. LifeInv(pending'["trading"], handlers', todo'["io"], phase'["trading"], connected'["trading"])
  BY <1>1, <1>3, <1>4, <1>5, StreamUntouched, SameItself
<1>7. Flying' = Flying
  BY <1>1, <1>3, FlyingSame
<1>8. EnvInv(todo'["env"], message_queue["trading"], Flying, resting) /\ IoInv(todo'["io"])
  BY <1>1 DEF FirstConnection
<1> QED
  BY <1>1, <1>4, <1>6, <1>7, <1>8, FlowSame

LEMMA ErrorOrders ==
  ASSUME OneWriteInv, FirstConnection, on_error, UNCHANGED <<resets, exchangeVars>>
  PROVE  FirstConnection'
<1> DEFINE a == Call("reconnect", "market")
<1>1. /\ handlers # <<>> /\ Head(handlers).c = "market" /\ todo["io"] = <<>>
      /\ UNCHANGED <<should_run_, message_queue, phase, pending, resting, authed>>
      /\ handlers' = Tail(handlers)
  BY NoFailure DEF on_error, Handles, Running, exchangeVars, serverVars
<1>2. connected' = [connected EXCEPT !["market"] = FALSE] /\ todo' = [todo EXCEPT !["io"] = <<a>>]
  BY <1>1 DEF on_error
<1>3. Sound("io", a) /\ a.do \notin Locked /\ Orderly(a) /\ ~IsRead(a)
  BY DEF Call, Sound, Locked, Orderly, IsRead, Channels
<1> HIDE DEF a
<1>4. Calm("io", <<a>>) /\ IoInv(<<a>>) /\ Reads(<<a>>) = {}
  BY <1>3, CalmShort, IoShort, ReadsShort
<1>5. /\ Flying' = Flying /\ todo'["io"] = <<a>> /\ IoInv(todo'["io"])
      /\ EnvInv(todo'["env"], message_queue["trading"], Flying, resting)
  BY <1>1, <1>2, <1>4, Instructs
<1>6. ByChannel' /\ connected'["trading"] = connected["trading"]
  BY <1>1, <1>2 DEF FirstConnection, ByChannel, Channels
<1>7. HandlersLess(Tail(handlers))
  BY <1>1 DEF HandlersLess, Lively
<1>8. Same(Reads(todo["io"]), Reads(todo'["io"]))
  BY <1>1, <1>4, <1>5, ReadsShort, SameItself
<1>9. LifeInv(pending'["trading"], handlers', todo'["io"], phase'["trading"], connected'["trading"])
  BY <1>1, <1>6, <1>7, <1>8, StreamUntouched
<1> QED
  BY <1>1, <1>5, <1>6, <1>9, FlowSame

LEMMA ReconnectOrders ==
  ASSUME OneWriteInv, FirstConnection, reconnect, UNCHANGED <<resets, exchangeVars>>
  PROVE  FirstConnection'
<1> DEFINE i == Head(todo["io"])
<1>1. /\ todo["io"] # <<>> /\ i.do = "reconnect" /\ i.c \in Channels
      /\ UNCHANGED <<should_run_, connected, message_queue, resting, authed>>
      /\ Proceed("io", <<>>)
  BY NextIsSound DEF reconnect, exchangeVars, serverVars, Sound, Threads
<1>2. Orderly(i)
  BY <1>1, IoFacts DEF FirstConnection
<1>3. i.c = "market" /\ ~IsRead(i)
  BY <1>1, <1>2 DEF Orderly, Channels, IsRead
<1>4. /\ pending'["trading"] = pending["trading"] /\ phase'["trading"] = phase["trading"]
      /\ phase' = [c \in Channels |-> phase'[c]]
      /\ \/ handlers' = handlers
         \/ \E r : IsSeq(r) /\ (\A k \in DOMAIN r : r[k].c # "trading") /\ handlers' = handlers \o r
  <2>1. CASE UNCHANGED streamVars
    BY <2>1 DEF streamVars, FirstConnection, ByChannel
  <2>2. CASE \E throws \in BOOLEAN : SetUp("market", throws, handlers)
    BY <2>2, SetUpElsewhere
  <2> QED
    BY <1>3, <2>1, <2>2 DEF reconnect
<1>5. ByChannel'
  BY <1>1, <1>4 DEF FirstConnection, ByChannel
<1>6. HandlersLess(handlers)
  BY DEF HandlersLess
<1>7. /\ Flying' = Flying /\ IoInv(todo'["io"])
      /\ EnvInv(todo'["env"], message_queue["trading"], Flying, resting)
      /\ Same(Reads(todo["io"]), Reads(todo'["io"]))
  BY <1>1, <1>3, <1>4, IoDone
<1>8. LifeInv(pending'["trading"], handlers', todo'["io"], phase'["trading"], connected'["trading"])
  BY <1>1, <1>4, <1>6, <1>7, StreamUntouched
<1> QED
  BY <1>1, <1>5, <1>7, <1>8, FlowSame

\* There is always something under way, so that the context does not run out.
LEMMA RunAgainOrders ==
  ASSUME FirstConnection, run_again
  PROVE  FALSE
<1>1. handlers = <<>> /\ todo["io"] = <<>> /\ pending["trading"] = {}
  BY DEF run_again, Running, Channels
<1>2. Begun(pending["trading"]) = {} /\ Ready(handlers) = {} /\ Reads(todo["io"]) = {}
  BY <1>1, ShortSeqs DEF Begun, Ready, Reads
<1> QED
  BY <1>2 DEF FirstConnection, LifeInv, OneLife

LEMMA ExitOrders ==
  ASSUME OneWriteInv, FirstConnection, io_exit, UNCHANGED <<resets, exchangeVars>>
  PROVE  FirstConnection'
<1>1. UNCHANGED <<should_run_, connected, message_queue, pending, handlers, phase, todo, resting, authed>>
  BY DEF io_exit, streamVars, exchangeVars, serverVars
<1>2. Flying' = Flying
  BY <1>1, FlyingSame
<1>3. /\ ByChannel' /\ IoInv(todo'["io"])
      /\ EnvInv(todo'["env"], message_queue["trading"], Flying, resting)
      /\ LifeInv(pending'["trading"], handlers', todo'["io"], phase'["trading"], connected'["trading"])
  BY <1>1 DEF FirstConnection, ByChannel
<1> QED
  BY <1>1, <1>2, <1>3, FlowSame

LEMMA IoStepOrders ==
  ASSUME OneWriteInv, OneWriteInv', FirstConnection, IoStep, UNCHANGED <<resets, exchangeVars>>
  PROVE  FirstConnection'
<1>1. "io" \in Threads
  BY DEF Threads
<1>2. CASE Sends("io")
  BY <1>1, <1>2, SendOrders, TestOrders, WriteOrders, MarketWriteOrders, AsyncWriteOrders DEF Sends
<1> QED
  BY <1>2, ConnectOrders, HandshakeOrders, ReadOrders, OnWriteOrders, WriteErrorOrders, ErrorOrders,
     ReconnectOrders, RunAgainOrders, ExitOrders
  DEF IoStep
-----------------------------------------------------------------------------
(* Callbacks and operations *)

LEMMA PutBookOrders ==
  ASSUME OneWriteInv, FirstConnection, put_book, UNCHANGED resets
  PROVE  FirstConnection'
<1>1. /\ todo["io"] # <<>> /\ Head(todo["io"]).do \in {"get_write_slot", "commit_write"}
      /\ UNCHANGED <<should_run_, connected, message_queue, phase, pending, handlers, resting, authed>>
      /\ Proceed("io", <<>>)
  BY DEF put_book, IsNext, streamVars, exchangeVars, serverVars
<1>2. ~IsRead(Head(todo["io"]))
  BY <1>1 DEF IsRead
<1>3. /\ Flying' = Flying /\ IoInv(todo'["io"])
      /\ EnvInv(todo'["env"], message_queue["trading"], Flying, resting)
      /\ Same(Reads(todo["io"]), Reads(todo'["io"]))
  BY <1>1, <1>2, IoDone
<1>4. LifeInv(pending'["trading"], handlers', todo'["io"], phase'["trading"], connected'["trading"])
  BY <1>1, <1>3, StreamAlone
<1>5. ByChannel'
  BY <1>1 DEF FirstConnection, ByChannel
<1> QED
  BY <1>1, <1>3, <1>4, <1>5, FlowSame

LEMMA CallbackOrders ==
  ASSUME OneWriteInv, FirstConnection, Callback, UNCHANGED resets
  PROVE  FirstConnection'
<1>1. CASE handle_auth_reply
  <2> DEFINE a == Send("trading", [kind |-> "subscribe"])
  <2>1. Sound("io", a) /\ a.do \notin Locked /\ Orderly(a) /\ ~IsRead(a)
    BY DEF Sound, Send, Locked, Orderly, IsRead, Channels
  <2>2. on_read(<<a>>) /\ UNCHANGED <<resting, authed>>
    BY <1>1 DEF handle_auth_reply, exchangeVars, serverVars
  <2> HIDE DEF a
  <2>3. Calm("io", <<a>>) /\ IoInv(<<a>>) /\ Reads(<<a>>) = {}
    BY <2>1, CalmShort, IoShort, ReadsShort
  <2> QED
    BY <2>2, <2>3, OnReadOrders
<1>2. CASE handle_order_book_updates
  <2> DEFINE a == Call("get_write_slot", "market")
             b == Call("commit_write", "market")
  <2>1. /\ Sound("io", a) /\ Sound("io", b) /\ {a.do, b.do} \cap Locked = {}
        /\ Orderly(a) /\ Orderly(b) /\ ~IsRead(a) /\ ~IsRead(b)
    BY DEF Sound, Call, Locked, Orderly, IsRead, Channels
  <2>2. on_read(<<a, b>>) /\ UNCHANGED <<resting, authed>>
    BY <1>2 DEF handle_order_book_updates, exchangeVars, serverVars
  <2> HIDE DEF a, b
  <2>3. Calm("io", <<a, b>>) /\ IoInv(<<a, b>>) /\ Reads(<<a, b>>) = {}
    BY <2>1, CalmPair, IoShort, ReadsShort
  <2> QED
    BY <2>2, <2>3, OnReadOrders
<1>3. CASE handle_order_updates \/ handle_private_trade_updates
  <2>1. on_read(<<>>) /\ UNCHANGED <<resting, authed>>
    BY <1>3 DEF handle_order_updates, handle_private_trade_updates, serverVars
  <2>2. Calm("io", <<>>) /\ IoInv(<<>>) /\ Reads(<<>>) = {}
    BY CalmShort, IoShort, ReadsShort
  <2> QED
    BY <2>1, <2>2, OnReadOrders
<1> QED
  BY <1>1, <1>2, <1>3, PutBookOrders DEF Callback

\* The env has done its next instruction.
LEMMA EnvDone ==
  ASSUME OneWriteInv, FirstConnection, todo["env"] # <<>>, Head(todo["env"]).do # "async_write",
         NEW s, Calm("env", s), Proceed("env", s),
         EnvInv(s \o Tail(todo["env"]), message_queue["trading"], Flying, resting),
         UNCHANGED <<resets, should_run_, connected, message_queue, phase, pending, handlers,
                     resting, authed>>
  PROVE  FirstConnection'
<1>1. "io" \in Threads /\ "env" \in Threads /\ "env" # "io"
  BY DEF Threads
<1>2. todo'["env"] = s \o Tail(todo["env"]) /\ \A u \in Threads : u # "env" => todo'[u] = todo[u]
  BY <1>1, Proceeds
<1>3. "env" \notin Writing("trading")'
  BY <1>1, CalmProceed
<1>4. "env" \notin Writing("trading")
  BY DEF Writing, IsNext
<1>5. Flying' = Flying
  BY <1>1, <1>2, <1>3, <1>4, FlyingKept
<1>6. IoInv(todo'["io"]) /\ Same(Reads(todo["io"]), Reads(todo'["io"]))
  BY <1>1, <1>2, SameItself DEF FirstConnection
<1>7. LifeInv(pending'["trading"], handlers', todo'["io"], phase'["trading"], connected'["trading"])
  BY <1>6, StreamAlone
<1>8. ByChannel'
  BY DEF FirstConnection, ByChannel
<1> QED
  BY <1>2, <1>5, <1>6, <1>7, <1>8, FlowSame

\* The client is neither stopped nor started.
LEMMA EnvHead ==
  ASSUME FirstConnection, todo["env"] # <<>>
  PROVE  Head(todo["env"]).do \in PlainDo \cup Control \cup {"send"}
BY DEF FirstConnection, EnvInv, OneLeft, TwoLeft

LEMMA OperationOrders ==
  ASSUME OneWriteInv, FirstConnection, Operation, UNCHANGED resets
  PROVE  FirstConnection'
<1> DEFINE i == Head(todo["env"])
<1>1. /\ todo["env"] # <<>> /\ i.do \in {"quote", "clear", "next_read", "done_read", "fills"}
      /\ UNCHANGED <<should_run_, connected, message_queue, phase, pending, handlers, resting, authed>>
  BY DEF Operation, quote, clear_executions, read_book, getFills, IsNext, streamVars, exchangeVars,
         serverVars
<1>2. i.do \in PlainDo /\ i.do # "async_write"
  BY <1>1, EnvHead DEF PlainDo, Control
<1>3. EnvInv(todo["env"], message_queue["trading"], Flying, resting)
  BY DEF FirstConnection
<1>4. CASE Proceed("env", <<>>)
  BY <1>1, <1>2, <1>3, <1>4, EnvDoes, EnvDone, CalmShort
<1>5. CASE ~Proceed("env", <<>>)
  <2> DEFINE a == Send("trading", [kind |-> "cancel", side |-> i.m.side])
             b == Send("trading", i.m)
  <2>1. Proceed("env", <<a, b>>)
    BY <1>5 DEF Operation, quote, clear_executions, read_book, getFills
  <2>2. /\ a.do = "send" /\ b.do = "send"
        /\ \A d \in Sides : ~Places(a.m, d) /\ (Places(b.m, d) => Clears(a.m, d))
    BY DEF Send, Places, Clears
  <2>3. Sound("env", a) /\ Sound("env", b) /\ {a.do, b.do} \cap Locked = {}
    BY DEF Sound, Send, Locked, Channels
  <2> HIDE DEF a, b
  <2>4. Calm("env", <<a, b>>)
    BY <2>3, CalmPair
  <2>5. EnvInv(<<a, b>> \o Tail(todo["env"]), message_queue["trading"], Flying, resting)
    BY <1>1, <1>2, <1>3, <2>2, EnvDoes
  <2> QED
    BY <1>1, <1>2, <2>1, <2>4, <2>5, EnvDone
<1> QED
  BY <1>4, <1>5

LEMMA EnvStepOrders ==
  ASSUME OneWriteInv, OneWriteInv', FirstConnection, EnvStep, UNCHANGED <<resets, exchangeVars>>
  PROVE  FirstConnection'
<1>1. "env" \in Threads
  BY DEF Threads
<1>2. CASE Sends("env")
  BY <1>1, <1>2, SendOrders, TestOrders, WriteOrders, MarketWriteOrders, AsyncWriteOrders DEF Sends
<1>3. CASE stop_begin \/ ioc_stop \/ join \/ start
  BY <1>3, EnvHead DEF stop_begin, ioc_stop, join, start, IsNext, PlainDo, Control
<1> QED
  BY <1>2, <1>3 DEF EnvStep

LEMMA QuotesArePlain ==
  ASSUME NEW ps
  PROVE  Plain(Quotes(ps))
<1> DEFINE n == Cardinality(Sides)
           ss == SetToSeq(Sides)
           place(k) == Place(ss[k], ps[ss[k]])
           S == {place(k) : k \in 1 .. n}
<1>1. n \in Nat /\ \E f \in [1 .. n -> Sides] : IsInjective(f)
  BY SidesAssumption, FS_CardinalityType DEF ExistsBijection, Bijection, Injection
<1>2. ss \in [1 .. n -> Sides]
  BY <1>1 DEF SetToSeq
<1>3. Quotes(ps) = [k \in 1 .. n |-> place(k)]
  BY <1>2 DEF Quotes
<1>4. Quotes(ps) \in Seq(S)
  BY <1>1, <1>3, SeqDef
<1>5. \A i \in S : i.do \in PlainDo
  BY DEF Place, PlainDo
<1> HIDE DEF S
<1> QED
  BY <1>4, <1>5, IsPlain

\* A step of the env: what it cancels first is not an order.
LEMMA StepOrders ==
  ASSUME OneWriteInv, FirstConnection, Step
  PROVE  FirstConnection'
<1> DEFINE e == Send("trading", [kind |-> "cancel_all"])
<1>1. PICK ps : todo' = [todo EXCEPT !["env"] = <<e>> \o Quotes(ps) \o ReadBook \o ReadBook]
  BY DEF Step, Asks
<1>2. /\ todo["env"] = <<>>
      /\ UNCHANGED <<resets, should_run_, connected, message_queue, phase, pending, handlers, resting, authed>>
  BY DEF Step, Idle, Unasked, streamVars, exchangeVars, serverVars
<1>3. e.do = "send" /\ \A d : ~Places(e.m, d)
  BY DEF Send, Places
<1> HIDE DEF e
<1>4. Plain(ReadBook)
  <2> DEFINE a == Call("next_read", "market")
             b == Call("fills", "market")
             d == Call("done_read", "market")
  <2>1. a.do \in PlainDo /\ b.do \in PlainDo /\ d.do \in PlainDo
    BY DEF Call, PlainDo
  <2>2. ReadBook = <<a, b, d>>
    BY DEF ReadBook
  <2> HIDE DEF a, b, d
  <2>3. <<a, b, d>> \in Seq({a, b, d}) /\ \A i \in {a, b, d} : i.do \in PlainDo
    BY <2>1
  <2>4. PICK S, s : S = {a, b, d} /\ s = <<a, b, d>>
    OBVIOUS
  <2>5. s \in Seq(S) /\ \A i \in S : i.do \in PlainDo
    BY <2>3, <2>4
  <2>6. Plain(s)
    BY <2>5, IsPlain
  <2> QED
    BY <2>2, <2>4, <2>6
<1> DEFINE q == Quotes(ps)
           r == (q \o ReadBook) \o ReadBook
<1>5. Plain(q) /\ Plain(q \o ReadBook) /\ Plain(r)
  BY <1>4, QuotesArePlain, PlainConcat
<1>6. <<e>> \o Quotes(ps) \o ReadBook \o ReadBook = <<e>> \o r
  <2>1. IsSeq(q) /\ IsSeq(q \o ReadBook) /\ IsSeq(ReadBook)
    BY <1>4, <1>5, PlainFacts
  <2>2. ASSUME NEW x, NEW y, IsSeq(x), IsSeq(y) PROVE (<<e>> \o x) \o y = <<e>> \o (x \o y)
    <3>1. PICK S : x \in Seq(S) /\ y \in Seq(S)
      BY <2>2, SameElements
    <3> DEFINE T == S \cup {e}
    <3>2. x \in Seq(T) /\ y \in Seq(T)
      BY <3>1, SeqMonotonic
    <3>3. e \in T
      OBVIOUS
    <3> HIDE DEF T
    <3>4. <<e>> \in Seq(T)
      BY <3>3
    <3> QED
      BY <3>2, <3>4, ConcatAssociative
  <2> HIDE DEF q
  <2>3. (<<e>> \o q) \o ReadBook = <<e>> \o (q \o ReadBook)
    BY <2>1, <2>2
  <2>4. (<<e>> \o (q \o ReadBook)) \o ReadBook = <<e>> \o ((q \o ReadBook) \o ReadBook)
    BY <2>1, <2>2
  <2> QED
    BY <2>3, <2>4 DEF q
<1> HIDE DEF r
<1>7. todo'["env"] = <<e>> \o r /\ \A u \in Threads : u # "env" => todo'[u] = todo[u]
  BY <1>1, <1>6 DEF OneWriteInv, TodoInv, Threads
<1>8. IsSeq(r) /\ <<e>> \o r # <<>> /\ Head(<<e>> \o r) = e /\ Tail(<<e>> \o r) = r
  BY <1>5, PlainFacts, Prefixed
<1>9. EnvInv(todo'["env"], message_queue["trading"], Flying, resting)
  <2>1. OneLeft(e, r, message_queue["trading"], Flying, resting)
    BY <1>3, <1>5 DEF OneLeft, Orders
  <2> QED
    BY <1>7, <1>8, <2>1 DEF EnvInv
<1>10. "env" \in Threads /\ "io" \in Threads /\ "io" # "env"
  BY DEF Threads
<1>11. Flying' = Flying
  <2>1. "env" \notin Writing("trading") /\ "env" \notin Writing("trading")'
    BY <1>2, <1>3, <1>7, <1>8 DEF Writing, IsNext
  <2> QED
    BY <1>2, <1>7, <1>10, <2>1, FlyingKept
<1>12. IoInv(todo'["io"]) /\ Same(Reads(todo["io"]), Reads(todo'["io"])) /\ ByChannel'
  BY <1>2, <1>7, <1>10, SameItself DEF FirstConnection, ByChannel
<1>13. LifeInv(pending'["trading"], handlers', todo'["io"], phase'["trading"], connected'["trading"])
  BY <1>2, <1>12, StreamAlone
<1> QED
  BY <1>2, <1>9, <1>11, <1>12, <1>13, FlowSame
-----------------------------------------------------------------------------
(* The network and the server *)

\* An operation completes on the other connection.
LEMMA CompletesElsewhere ==
  ASSUME OneWriteInv, FirstConnection, NEW c \in Channels, c # "trading", NEW o, NEW h, h.c = c,
         Completes(c, o, h), phase' = phase \/ \E p : phase' = [phase EXCEPT ![c] = p],
         UNCHANGED <<resets, resting, authed>>
  PROVE  FirstConnection'
<1>1. /\ handlers' = Append(handlers, h) /\ UNCHANGED <<should_run_, connected, message_queue, todo>>
      /\ pending'["trading"] = pending["trading"]
  BY DEF Completes, OneWriteInv, StreamType, Channels
<1>2. ByChannel' /\ phase'["trading"] = phase["trading"]
  BY <1>1 DEF FirstConnection, ByChannel, Channels
<1>3. HandlersLess(handlers)
  BY DEF HandlersLess
<1>4. LifeInv(pending'["trading"], handlers', todo'["io"], phase'["trading"], connected'["trading"])
  BY <1>1, <1>2, <1>3, StreamUntouched, SameItself
<1>5. Flying' = Flying
  BY <1>1, FlyingSame
<1>6. EnvInv(todo'["env"], message_queue["trading"], Flying, resting) /\ IoInv(todo'["io"])
  BY <1>1 DEF FirstConnection
<1> QED
  BY <1>1, <1>2, <1>4, <1>5, <1>6, FlowSame

\* One other than a write completes on the trading connection.
LEMMA CompletesHere ==
  ASSUME OneWriteInv, FirstConnection, NEW o, NEW h, NEW q, o.op # "write", Lively(h),
         Completes("trading", o, h), phase' = [phase EXCEPT !["trading"] = q],
         Completed(h, q, connected["trading"]), phase["trading"] # q => ~connected["trading"],
         UNCHANGED <<resets, resting>>, ~authed => ~authed', connected["trading"] => authed' = authed
  PROVE  FirstConnection'
<1>1. /\ o \in pending["trading"] /\ handlers' = Append(handlers, h)
      /\ UNCHANGED <<should_run_, connected, message_queue, todo>>
      /\ pending'["trading"] = pending["trading"] \ {o}
  BY DEF Completes, OneWriteInv, StreamType, Channels
<1>2. ByChannel' /\ phase'["trading"] = q
  BY <1>1 DEF FirstConnection, ByChannel, Channels
<1>3. IsSeq(handlers)
  BY DEF OneWriteInv, StreamType, HandlerSeq, IsSeq
<1>4. o \in Begun(pending["trading"]) /\ WritesOf(pending'["trading"]) = WritesOf(pending["trading"])
  BY <1>1 DEF Begun, WritesOf
<1>5. LifeInv(pending["trading"], handlers, todo["io"], phase["trading"], connected["trading"])
  BY DEF FirstConnection
<1>6. LifeInv(pending["trading"] \ {o}, Append(handlers, h), todo["io"], q, connected["trading"])
  BY <1>3, <1>4, <1>5, LifeCompletes
<1>7. Flying' = Flying
  BY <1>1, <1>4, FlyingSame
<1>8. FlowInv(message_queue["trading"], Flying, resting, connected["trading"], authed')
  BY DEF FirstConnection, FlowInv, OfflineInv
<1>9. EnvInv(todo'["env"], message_queue["trading"], Flying, resting) /\ IoInv(todo'["io"])
  BY <1>1 DEF FirstConnection
<1> QED
  BY <1>1, <1>2, <1>6, <1>7, <1>8, <1>9 DEF FirstConnection

LEMMA NewStepOrders ==
  ASSUME OneWriteInv, FirstConnection, NEW c \in Channels, NewStep(c), UNCHANGED resets
  PROVE  FirstConnection'
<1>1. PICK o \in pending[c] : /\ o.op \in {"connect", "handshake"}
                              /\ phase' = [phase EXCEPT ![c] = After(o.op)]
                              /\ Completes(c, o, Handler(c, o, TRUE))
  BY DEF NewStep, Establish
<1> DEFINE h == Handler(c, o, TRUE)
<1>2. h.c = c /\ h.op = o.op /\ h.ok = TRUE
  BY DEF Handler
<1> HIDE DEF h
<1>3. UNCHANGED resting
  BY DEF NewStep
<1>4. CASE c # "trading"
  <2>1. UNCHANGED authed
    BY <1>4 DEF NewStep
  <2> QED
    BY <1>1, <1>2, <1>3, <1>4, <2>1, CompletesElsewhere DEF h
<1>5. CASE c = "trading"
  <2>1. Lively(h) /\ o.op # "write" /\ ~authed'
    BY <1>1, <1>2, <1>5 DEF Lively, NewStep
  <2>2. o \in Begun(pending["trading"])
    BY <1>1, <1>5, <2>1 DEF Begun
  <2>3. Pends(o.op, phase["trading"], connected["trading"])
    BY <2>2 DEF FirstConnection, LifeInv
  <2>4. ~connected["trading"] /\ Completed(h, After(o.op), connected["trading"])
    BY <1>1, <1>2, <2>3 DEF Pends, Completed, After
  <2> QED
    BY <1>1, <1>3, <1>5, <2>1, <2>4, CompletesHere DEF h
<1> QED
  BY <1>4, <1>5

LEMMA ArriveOrders ==
  ASSUME OneWriteInv, FirstConnection, NEW c \in Channels, Arrive(c), UNCHANGED resets
  PROVE  FirstConnection'
<1> DEFINE o == Op("read", Nothing)
<1>1. PICK m : Read(c, m)
  BY DEF Arrive
<1> DEFINE h == Handler(c, Op("read", m), TRUE)
<1>2. h.c = c /\ h.op = "read" /\ h.ok = TRUE /\ o.op = "read"
  BY DEF Handler, Op
<1>3. phase[c] = "open" /\ Completes(c, o, h) /\ UNCHANGED <<phase, resting, authed>>
  BY <1>1 DEF Read, Arrive
<1> HIDE DEF h, o
<1>4. CASE c # "trading"
  BY <1>2, <1>3, <1>4, CompletesElsewhere
<1>5. CASE c = "trading"
  <2>1. Lively(h)
    BY <1>2, <1>5 DEF Lively
  <2>2. o \in Begun(pending["trading"])
    BY <1>2, <1>3, <1>5 DEF Begun, Completes
  <2>3. Pends(o.op, phase["trading"], connected["trading"])
    BY <2>2 DEF FirstConnection, LifeInv
  <2>4. Completed(h, "open", connected["trading"])
    BY <1>2, <2>3 DEF Pends, Completed
  <2>5. phase' = [phase EXCEPT !["trading"] = "open"]
    BY <1>3, <1>5 DEF FirstConnection, ByChannel
  <2> QED
    BY <1>2, <1>3, <1>5, <2>1, <2>4, <2>5, CompletesHere
<1> QED
  BY <1>4, <1>5

\* What the server makes of a message, when one is being written.
LEMMA Received ==
  ASSUME NEW m, Receive(m), ~authed => resting = {},
         \A s \in Sides : \A p, q \in resting : p.side = s /\ q.side = s => p = q,
         \A s \in Sides : Places(m, s) => Empty(resting, s)
  PROVE  /\ ~authed' => resting' = {}
         /\ \A s \in Sides : LeavesNone({m}, resting, s) => LeavesNone({}, resting', s)
         /\ \A s \in Sides : \A p, q \in resting' : p.side = s /\ q.side = s => p = q
<1>1. \A s, N : LeavesNone({}, N, s) <=> Empty(N, s)
  BY DEF LeavesNone
<1>2. \A s : LeavesNone({m}, resting, s) <=> Clears(m, s) \/ (Empty(resting, s) /\ ~Places(m, s))
  BY DEF LeavesNone
<1>3. CASE ~authed /\ m.kind # "auth"
  <2>1. UNCHANGED <<authed, resting>> /\ resting = {}
    BY <1>3 DEF Receive, serverVars
  <2> QED
    BY <1>1, <1>3, <2>1 DEF Empty
<1>4. CASE m.kind \in {"auth", "subscribe"} /\ (authed \/ m.kind = "auth")
  <2>1. resting' = resting /\ (~authed' => ~authed)
    BY <1>4 DEF Receive
  <2>2. \A s : ~Clears(m, s)
    BY <1>4 DEF Clears
  <2> QED
    BY <1>1, <1>2, <2>1, <2>2
<1>5. CASE m.kind = "cancel_all" /\ authed
  <2>1. resting' = {}
    BY <1>5 DEF Receive, Cancel
  <2> QED
    BY <1>1, <2>1 DEF Empty
<1>6. CASE m.kind = "cancel" /\ authed
  <2>1. resting' = {q \in resting : q.side # m.side} /\ authed' = authed
    BY <1>6 DEF Receive, Cancel
  <2>2. ASSUME NEW s, LeavesNone({m}, resting, s) PROVE Empty(resting', s)
    <3>1. CASE m.side = s
      BY <2>1, <3>1 DEF Empty
    <3>2. CASE m.side # s
      BY <1>2, <1>6, <2>1, <2>2, <3>2 DEF Empty, Clears
    <3> QED
      BY <3>1, <3>2
  <2> QED
    BY <1>1, <1>6, <2>1, <2>2
<1>7. CASE m.kind \notin {"auth", "subscribe", "cancel_all", "cancel"} /\ authed
  <2>1. PICK q : resting' = resting \cup {q} /\ q.side = m.side /\ authed' = authed
    BY <1>7 DEF Receive
  <2>2. \A s : (Places(m, s) <=> m.side = s) /\ ~Clears(m, s)
    BY <1>7 DEF Places, Clears
  <2>3. ASSUME NEW s, LeavesNone({m}, resting, s) PROVE Empty(resting', s)
    BY <1>2, <2>1, <2>2, <2>3 DEF Empty
  <2>4. ASSUME NEW s \in Sides, NEW a \in resting', NEW b \in resting', a.side = s, b.side = s
        PROVE  a = b
    <3>1. CASE m.side = s
      <4>1. Empty(resting, s)
        BY <2>2, <3>1
      <4> QED
        BY <2>1, <2>4, <4>1 DEF Empty
    <3>2. CASE m.side # s
      BY <2>1, <2>4, <3>2
    <3> QED
      BY <3>1, <3>2
  <2> QED
    BY <1>1, <1>7, <2>1, <2>3, <2>4
<1> QED
  BY <1>3, <1>4, <1>5, <1>6, <1>7

LEMMA DeliverOrders ==
  ASSUME OneWriteInv, FirstConnection, NEW c \in Channels, Deliver(c), UNCHANGED resets
  PROVE  FirstConnection'
<1>1. PICK m : /\ Written(c, m)
               /\ IF c = "market" THEN UNCHANGED <<resting, authed>> ELSE Receive(m)
  BY DEF Deliver
<1> DEFINE o == Op("write", m)
           h == Handler(c, o, TRUE)
<1>2. h.c = c /\ h.op = "write" /\ h.ok = TRUE /\ o.op = "write" /\ o.m = m
  BY DEF Handler, Op
<1>3. phase[c] = "open" /\ Completes(c, o, h) /\ UNCHANGED phase
  BY <1>1 DEF Written
<1> HIDE DEF h, o
<1>4. CASE c # "trading"
  BY <1>1, <1>2, <1>3, <1>4, CompletesElsewhere DEF Channels
<1>5. CASE c = "trading"
  <2> DEFINE Q == message_queue["trading"]
             yes == connected["trading"]
  <2>1. /\ o \in pending["trading"] /\ handlers' = Append(handlers, h)
        /\ UNCHANGED <<should_run_, connected, message_queue, todo>>
        /\ pending'["trading"] = pending["trading"] \ {o}
    BY <1>3, <1>5 DEF Completes, OneWriteInv, StreamType, Channels
  <2>2. o \in WritesOf(pending["trading"])
    BY <1>2, <2>1 DEF WritesOf
  <2>3. Flying = {m} /\ Writing("trading") = {} /\ WritesOf(pending["trading"]) = {o}
    BY <1>2, <2>2, OneFlies
  <2>4. /\ LifeInv(pending["trading"], handlers, todo["io"], phase["trading"], yes)
        /\ IsSeq(Q) /\ SettledInv(Q, {m}, resting) /\ OfflineInv(Q, {m}, resting, yes, authed)
        /\ EnvInv(todo["env"], Q, {m}, resting) /\ IoInv(todo["io"]) /\ ByChannel
    BY <2>3 DEF FirstConnection, FlowInv
  <2>5. yes
    BY <2>4 DEF OfflineInv
  <2>6. /\ ~authed' => resting' = {}
        /\ \A s \in Sides : LeavesNone({m}, resting, s) => LeavesNone({}, resting', s)
        /\ \A s \in Sides : \A p, q \in resting' : p.side = s /\ q.side = s => p = q
    <3>1. ~authed => resting = {}
      BY <2>4 DEF OfflineInv
    <3>2. /\ \A s \in Sides : \A p, q \in resting : p.side = s /\ q.side = s => p = q
          /\ \A s \in Sides : Places(m, s) => Empty(resting, s)
      BY <2>4 DEF SettledInv
    <3>3. Receive(m)
      BY <1>1, <1>5
    <3> QED
      BY <3>1, <3>2, <3>3, Received
  <2>7. /\ SettledInv(Q, {}, resting')
        /\ \A s \in Sides : AllSettled(Q, {m}, resting, s) => AllSettled(Q, {}, resting', s)
    <3>1. \A s \in Sides : \A x \in {} : Places(x, s) => Empty(resting', s)
      OBVIOUS
    <3> QED
      BY <2>4, <2>6, <3>1, Landed
  <2>8. Flying' = {}
    <3>1. WritesOf(pending'["trading"]) = {}
      BY <2>1, <2>3 DEF WritesOf
    <3>2. Writing("trading")' = {}
      BY <2>1, <2>3 DEF Writing, IsNext
    <3> HIDE DEF WritesOf, Writing
    <3> QED
      BY <3>1, <3>2 DEF Flying
  <2>9. FlowInv(Q, {}, resting', yes, authed')
    BY <2>4, <2>5, <2>6, <2>7 DEF FlowInv, OfflineInv
  <2>10. EnvInv(todo["env"], Q, {}, resting')
    BY <2>4, <2>7, EnvKept
  <2>11. LifeInv(pending'["trading"], Append(handlers, h), todo["io"], phase["trading"], yes)
    <3>1. IsSeq(handlers) /\ ~Lively(h)
      BY <1>2 DEF OneWriteInv, StreamType, HandlerSeq, IsSeq, Lively
    <3>2. /\ Ready(Append(handlers, h)) = Ready(handlers)
          /\ \A k \in DOMAIN Append(handlers, h) :
               Append(handlers, h)[k] = h \/ \E j \in DOMAIN handlers : Append(handlers, h)[k] = handlers[j]
      BY <3>1, ReadyAppend
    <3>3. Completed(h, phase["trading"], yes)
      BY <1>2, <1>3, <1>5, <2>5 DEF Completed
    <3>4. Begun(pending'["trading"]) = Begun(pending["trading"])
      BY <1>2, <2>1 DEF Begun
    <3>5. LifeInv(pending["trading"], handlers, todo["io"], phase["trading"], yes)
      BY <2>4
    <3>6. /\ Same(Ready(handlers), Ready(Append(handlers, h))) /\ Same(Reads(todo["io"]), Reads(todo["io"]))
          /\ \A k \in DOMAIN Append(handlers, h) : Append(handlers, h)[k].c = "trading" =>
               \/ Completed(Append(handlers, h)[k], phase["trading"], yes)
               \/ \E j \in DOMAIN handlers : Append(handlers, h)[k] = handlers[j]
      BY <3>2, <3>3, SameItself
    <3> QED
      BY <3>4, <3>5, <3>6, LifeSame
  <2>12. ByChannel'
    BY <1>3, <2>1, <2>4 DEF ByChannel
  <2> QED
    BY <1>3, <2>1, <2>4, <2>8, <2>9, <2>10, <2>11, <2>12 DEF FirstConnection
<1> QED
  BY <1>4, <1>5

\* Nothing fails on a trading connection that is not lost.
LEMMA FailsOrders ==
  ASSUME OneWriteInv, FirstConnection, NEW c \in Channels, Fails(c), UNCHANGED <<resets, exchangeVars>>
  PROVE  FirstConnection'
<1>1. PICK o \in pending[c] : Completes(c, o, Handler(c, o, FALSE))
  BY DEF Fails
<1>2. Handler(c, o, FALSE).c = c /\ phase[c] = "lost" /\ UNCHANGED <<phase, resting, authed>>
  BY DEF Handler, Fails, exchangeVars, serverVars
<1>3. c # "trading"
  <2> SUFFICES ASSUME c = "trading" PROVE FALSE
    OBVIOUS
  <2>1. LifeInv(pending["trading"], handlers, todo["io"], phase["trading"], connected["trading"])
    BY DEF FirstConnection
  <2>2. o \notin Begun(pending["trading"])
    BY <1>2, <2>1 DEF LifeInv, Pends
  <2>3. o \in WritesOf(pending["trading"])
    BY <1>1, <2>2 DEF Begun, WritesOf
  <2>4. connected["trading"]
    BY <2>3, OneFlies DEF FirstConnection, FlowInv, OfflineInv
  <2> QED
    BY <1>2, <2>1, <2>4, Connected
<1> QED
  BY <1>1, <1>2, <1>3, CompletesElsewhere

LEMMA NetworkOrders ==
  ASSUME OneWriteInv, FirstConnection, NEW c \in Channels, Network(c), faults \in Nat, faults' = 0
  PROVE  FirstConnection'
<1>1. ~Lose(c)
  BY DEF Lose
<1> QED
  BY <1>1, NewStepOrders, DeliverOrders, ArriveOrders, FailsOrders DEF Network, Disturb, Uncounted

LEMMA FillOrders ==
  ASSUME OneWriteInv, FirstConnection, Fill, UNCHANGED resets
  PROVE  FirstConnection'
<1> DEFINE Q == message_queue["trading"]
<1>1. PICK q \in resting : resting' = resting \ {q}
  BY DEF Fill
<1>2. UNCHANGED <<should_run_, connected, message_queue, phase, pending, handlers, todo, authed>>
  BY DEF Fill, clientVars, streamVars
<1>3. Flying' = Flying
  BY <1>2, FlyingSame
<1>4. IsSeq(Q) /\ SettledInv(Q, Flying, resting) /\ EnvInv(todo["env"], Q, Flying, resting)
  BY DEF FirstConnection, FlowInv
<1>5. /\ SettledInv(Q, Flying, resting')
      /\ \A s \in Sides : AllSettled(Q, Flying, resting, s) => AllSettled(Q, Flying, resting', s)
  <2>1. \A s : Empty(resting, s) => Empty(resting', s)
    BY <1>1 DEF Empty
  <2>2. \A s \in Sides : LeavesNone(Flying, resting, s) => LeavesNone(Flying, resting', s)
    BY <2>1 DEF LeavesNone
  <2>3. /\ \A s \in Sides : \A x, y \in resting' : x.side = s /\ y.side = s => x = y
        /\ \A s \in Sides : \A m \in Flying : Places(m, s) => Empty(resting', s)
    BY <1>1, <1>4, <2>1 DEF SettledInv
  <2> QED
    BY <1>4, <2>2, <2>3, Landed
<1>6. FlowInv(Q, Flying, resting', connected["trading"], authed)
  BY <1>1, <1>5 DEF FirstConnection, FlowInv, OfflineInv
<1>7. EnvInv(todo["env"], Q, Flying, resting')
  BY <1>4, <1>5, EnvKept
<1> QED
  BY <1>2, <1>3, <1>6, <1>7 DEF FirstConnection, ByChannel
-----------------------------------------------------------------------------
(* Before the first connection *)

LEMMA Triple ==
  ASSUME NEW a, NEW b, NEW d
  PROVE  /\ <<a, b, d>> # <<>> /\ Head(<<a, b, d>>) = a /\ <<>> \o Tail(<<a, b, d>>) = <<b, d>>
         /\ <<b, d>> # <<>> /\ Head(<<b, d>>) = b /\ <<>> \o Tail(<<b, d>>) = <<d>>
         /\ <<d>> # <<>> /\ Head(<<d>>) = d /\ <<>> \o Tail(<<d>>) = <<>>
OBVIOUS

\* The env resets, and no other thread and no stream does anything.
LEMMA OnlyReset ==
  ASSUME Before, [Next]_vars
  PROVE  \/ Reset
         \/ (stop_begin \/ start) /\ UNCHANGED exchangeVars /\ Uncounted
         \/ clear_executions /\ Uncounted
         \/ UNCHANGED <<clientVars, exchangeVars, resets>>
<1> DEFINE a == Call("stop", "trading")
           b == Call("clear", "trading")
           d == Call("start", "trading")
<1>1. a.do = "stop" /\ b.do = "clear" /\ d.do = "start"
  BY DEF Call
<1> HIDE DEF a, b, d
<1>2. \A what : IsNext("env", what) => what \in {"stop", "clear", "start"} /\ resets = 1
  BY <1>1, Triple DEF Before, IsNext, a, b, d
<1>3. /\ \A what : ~IsNext("io", what)
      /\ ~Running /\ io # "running"
  BY DEF Before, IsNext, Running
<1>4. \A c \in Channels : pending[c] = {} /\ phase[c] = "none"
  BY DEF Before
<1>5. ~Step
  <2>1. resets = 0 \/ (todo["env"] = <<a, b, d>> \/ todo["env"] = <<b, d>> \/ todo["env"] = <<d>>)
    BY DEF Before, a, b, d
  <2>2. resets = 0 \/ todo["env"] # <<>>
    BY <2>1, Triple
  <2>3. ~(0 > 0)
    OBVIOUS
  <2> QED
    BY <2>2, <2>3 DEF Step, Idle
<1>6. ~Sends("env") /\ ~ioc_stop /\ ~join
  BY <1>2 DEF Sends, send_message, test_writing, write_next_message, write_next_market_message,
              async_write, ioc_stop, join
<1>7. ~quote /\ ~read_book /\ ~getFills
  BY <1>2 DEF quote, read_book, getFills
<1>8. ~Sends("io")
  BY <1>3 DEF Sends, send_message, test_writing, write_next_message, write_next_market_message, async_write
<1>9. /\ ~on_connect /\ ~on_handshake /\ ~do_read /\ ~on_write /\ ~on_write_error /\ ~on_error
      /\ ~reconnect /\ ~run_again /\ ~io_exit
  BY <1>3 DEF on_connect, on_handshake, do_read, on_write, on_write_error, on_error, reconnect,
              run_again, io_exit, Handles
<1>10. ~Callback
  BY <1>3 DEF Callback, handle_auth_reply, handle_order_book_updates, put_book, handle_order_updates,
              handle_private_trade_updates, on_read, Handles
<1>11. ~\E c \in Channels : Network(c)
  BY <1>4 DEF Network, NewStep, Establish, Deliver, Written, Arrive, Read, Completes, Disturb, Lose, Fails
<1>12. ~Fill
  BY DEF Fill, Before
<1>13. CASE UNCHANGED vars
  BY <1>13 DEF vars
<1>14. CASE EnvAct
  BY <1>5, <1>14 DEF EnvAct
<1>15. CASE EnvRuns
  BY <1>6, <1>7, <1>15 DEF EnvRuns, EnvStep, Operation
<1>16. ~IoRuns
  BY <1>8, <1>9, <1>10 DEF IoRuns, IoStep
<1> QED
  BY <1>11, <1>12, <1>13, <1>14, <1>15, <1>16 DEF Next

LEMMA StartOrders ==
  ASSUME OneWriteInv, Before, start, UNCHANGED <<resets, exchangeVars>>
  PROVE  FirstConnection'
<1> DEFINE a == Call("stop", "trading")
           b == Call("clear", "trading")
           d == Call("start", "trading")
<1>1. a.do = "stop" /\ b.do = "clear" /\ d.do = "start"
  BY DEF Call
<1> HIDE DEF a, b, d
<1>2. todo["env"] = <<d>> /\ resets = 1 /\ todo["io"] = <<>>
  BY <1>1, Triple DEF start, IsNext, Before, a, b, d
<1>3. todo'["env"] = <<>> /\ todo'["io"] = <<>>
  BY <1>2, Proceeds, Triple DEF start, Threads
<1>4. /\ should_run_' /\ resets' = 1 /\ handlers' = <<>> /\ resting' = {} /\ ~authed'
      /\ connected' = [c \in Channels |-> FALSE] /\ message_queue' = [c \in Channels |-> <<>>]
      /\ phase' = [c \in Channels |-> "new"] /\ pending' = [c \in Channels |-> {Connect}]
  BY <1>2 DEF start, Before, exchangeVars, serverVars
<1>5. ByChannel'
  BY <1>4 DEF ByChannel
<1>6. /\ ~connected'["trading"] /\ message_queue'["trading"] = <<>> /\ phase'["trading"] = "new"
      /\ pending'["trading"] = {Connect} /\ connected'["trading"] = FALSE
  BY <1>4 DEF Channels
<1>7. LifeInv(pending'["trading"], handlers', todo'["io"], phase'["trading"], connected'["trading"])
  BY <1>3, <1>4, <1>6, LifeStarts
<1>8. Flying' = {}
  <2>1. Writing("trading")' = {}
    BY <1>3 DEF Writing, IsNext, Threads
  <2>2. WritesOf(pending'["trading"]) = {}
    BY <1>6 DEF WritesOf, Connect, Op
  <2> HIDE DEF Writing, WritesOf
  <2> QED
    BY <2>1, <2>2 DEF Flying
<1>9. FlowInv(message_queue'["trading"], Flying', resting', connected'["trading"], authed')
  BY <1>4, <1>6, <1>8, NothingFlies DEF FlowInv, OfflineInv
<1>10. EnvInv(todo'["env"], message_queue'["trading"], Flying', resting') /\ IoInv(todo'["io"])
  BY <1>3, IoShort DEF EnvInv
<1> QED
  BY <1>4, <1>5, <1>7, <1>9, <1>10 DEF FirstConnection

LEMMA BeforeOrders ==
  ASSUME OneWriteInv, Before, [Next]_vars, resets' <= 1
  PROVE  Before' \/ FirstConnection'
<1> DEFINE a == Call("stop", "trading")
           b == Call("clear", "trading")
           d == Call("start", "trading")
<1>1. a.do = "stop" /\ b.do = "clear" /\ d.do = "start"
  BY DEF Call
<1> HIDE DEF a, b, d
<1>2. CASE Reset
  <2>1. /\ resets' = 1 /\ todo'["env"] = <<a, b, d>> /\ todo'["io"] = todo["io"]
    BY <1>2 DEF Before, Reset, Asks, OneWriteInv, TodoInv, Threads, a, b, d
  <2> QED
    BY <1>2, <2>1 DEF Before, Reset, Unasked, streamVars, exchangeVars, serverVars, a, b, d
<1>3. CASE stop_begin /\ UNCHANGED exchangeVars /\ Uncounted
  <2>1. /\ Proceed("env", <<>>)
        /\ UNCHANGED <<should_run_, io, handlers, connected, message_queue, phase, pending, resting, authed, resets>>
    BY <1>3 DEF stop_begin, Before, streamVars, exchangeVars, serverVars, Uncounted
  <2>2. todo["env"] = <<a, b, d>> /\ resets = 1
    BY <1>1, <1>3, Triple DEF stop_begin, IsNext, Before, a, b, d
  <2>3. todo'["env"] = <<>> \o Tail(todo["env"]) /\ todo'["io"] = todo["io"]
    BY <2>1, Proceeds DEF Threads
  <2>4. todo'["env"] = <<b, d>>
    BY <2>2, <2>3, Triple
  <2> QED
    BY <2>1, <2>2, <2>3, <2>4 DEF Before, b, d
<1>4. CASE clear_executions /\ Uncounted
  <2>1. /\ Proceed("env", <<>>)
        /\ UNCHANGED <<should_run_, io, handlers, connected, message_queue, phase, pending, resting, authed, resets>>
    BY <1>4 DEF clear_executions, streamVars, serverVars, Uncounted
  <2>2. todo["env"] = <<b, d>> /\ resets = 1
    BY <1>1, <1>4, Triple DEF clear_executions, IsNext, Before, a, b, d
  <2>3. todo'["env"] = <<>> \o Tail(todo["env"]) /\ todo'["io"] = todo["io"]
    BY <2>1, Proceeds DEF Threads
  <2>4. todo'["env"] = <<d>>
    BY <2>2, <2>3, Triple
  <2> QED
    BY <2>1, <2>2, <2>3, <2>4 DEF Before, d
<1>5. CASE start /\ UNCHANGED exchangeVars /\ Uncounted
  BY <1>5, StartOrders DEF Uncounted
<1>6. CASE UNCHANGED <<clientVars, exchangeVars, resets>>
  BY <1>6 DEF Before, clientVars, streamVars, exchangeVars, serverVars
<1> QED
  BY <1>2, <1>3, <1>4, <1>5, <1>6, OnlyReset
-----------------------------------------------------------------------------
(* One order of a side: theorems *)

LEMMA FirstConnectionGoesOn ==
  ASSUME OneWriteInv, OneWriteInv', FirstConnection, [Next]_vars,
         resets' <= 1, faults \in Nat, faults' = 0
  PROVE  FirstConnection'
<1>1. CASE EnvAct
  <2>1. ~Reset
    BY DEF Reset, FirstConnection
  <2> QED
    BY <1>1, <2>1, StepOrders DEF EnvAct
<1>2. CASE EnvRuns
  BY <1>2, EnvStepOrders, OperationOrders DEF EnvRuns, Uncounted
<1>3. CASE IoRuns
  BY <1>3, IoStepOrders, CallbackOrders DEF IoRuns, Uncounted
<1>4. CASE \E c \in Channels : Network(c)
  BY <1>4, NetworkOrders
<1>5. CASE Fill /\ Uncounted
  BY <1>5, FillOrders DEF Uncounted
<1>6. CASE UNCHANGED vars
  <2>1. UNCHANGED <<resets, should_run_, connected, message_queue, phase, pending, handlers, todo, resting, authed>>
    BY <1>6 DEF vars, clientVars, streamVars, exchangeVars, serverVars
  <2>2. Flying' = Flying
    BY <2>1, FlyingSame
  <2> QED
    BY <2>1, <2>2 DEF FirstConnection, ByChannel
<1> QED
  BY <1>1, <1>2, <1>3, <1>4, <1>5, <1>6 DEF Next

\* Connections are counted, and so are the faults.
LEMMA Counted ==
  ASSUME resets \in Nat, faults \in Nat, [Next]_vars
  PROVE  resets' \in Nat /\ faults' \in Nat /\ resets <= resets' /\ faults <= faults'
<1>1. CASE EnvAct
  BY <1>1 DEF EnvAct, Reset, Step, Unasked
<1>2. CASE EnvRuns
  BY <1>2 DEF EnvRuns, Uncounted, EnvStep, Sends, send_message, test_writing, write_next_message,
     write_next_market_message, async_write, stop_begin, ioc_stop, join, start, Operation, quote,
     clear_executions, read_book, getFills
<1>3. CASE IoRuns
  <2>1. UNCHANGED resets
    BY <1>3 DEF IoRuns, Uncounted
  <2>2. ASSUME NEW c, NEW throws, NEW hs, SetUp(c, throws, hs)
        PROVE  faults' \in Nat /\ faults <= faults'
    <3>1. faults' = faults + (IF throws THEN 1 ELSE 0)
      BY <2>2 DEF SetUp
    <3>2. faults' = faults \/ faults' = faults + 1
      BY <3>1
    <3> QED
      BY <3>2
  <2>3. CASE on_write_error
    BY <2>1, <2>2, <2>3 DEF on_write_error
  <2>4. CASE reconnect
    <3>1. UNCHANGED faults \/ \E c, throws, hs : SetUp(c, throws, hs)
      BY <2>4 DEF reconnect
    <3> QED
      BY <2>1, <2>2, <3>1
  <2>5. CASE Sends("io") \/ put_book
    BY <2>1, <2>5 DEF Sends, send_message, test_writing, write_next_message, write_next_market_message,
       async_write, put_book
  <2>6. CASE on_connect \/ on_handshake \/ do_read
    <3>1. on_connect => UNCHANGED faults
      BY DEF on_connect
    <3>2. on_handshake => UNCHANGED faults
      BY DEF on_handshake
    <3>3. do_read => UNCHANGED faults
      BY DEF do_read
    <3> QED
      BY <2>1, <2>6, <3>1, <3>2, <3>3
  <2>7. CASE on_write \/ on_error \/ io_exit
    <3>1. on_write => UNCHANGED faults
      BY DEF on_write
    <3>2. on_error => UNCHANGED faults
      BY DEF on_error
    <3>3. io_exit => UNCHANGED faults
      BY DEF io_exit
    <3> QED
      BY <2>1, <2>7, <3>1, <3>2, <3>3
  <2>8. CASE Callback /\ ~put_book
    <3>1. \E task : on_read(task)
      BY <2>8 DEF Callback, handle_auth_reply, handle_order_book_updates, handle_order_updates,
         handle_private_trade_updates
    <3>2. UNCHANGED faults
      BY <3>1 DEF on_read
    <3> QED
      BY <2>1, <3>2
  <2>9. CASE run_again
    <3>1. PICK throwing \in {{}} \cup {{c} : c \in Channels} :
            faults' = faults + Cardinality(throwing)
      BY <2>9 DEF run_again
    <3>2. IsFiniteSet(throwing)
      BY <3>1, FS_EmptySet, FS_Singleton
    <3>3. Cardinality(throwing) \in Nat
      BY <3>2, FS_CardinalityType
    <3> QED
      BY <2>1, <3>1, <3>3
  <2> QED
    BY <1>3, <2>3, <2>4, <2>5, <2>6, <2>7, <2>8, <2>9 DEF IoRuns, IoStep
<1>4. CASE \E c \in Channels : Network(c)
  <2>1. UNCHANGED resets
    BY <1>4 DEF Network, Uncounted
  <2>2. PICK c \in Channels : Network(c)
    BY <1>4
  <2>3. CASE NewStep(c) \/ Deliver(c) \/ Arrive(c) \/ Fails(c)
    <3>1. UNCHANGED faults
      BY <2>3 DEF NewStep, Establish, Deliver, Written, Arrive, Read, Fails
    <3> QED
      BY <2>1, <3>1
  <2>4. CASE Lose(c)
    <3>1. faults' = faults + 1
      BY <2>4 DEF Lose
    <3> QED
      BY <2>1, <3>1
  <2> QED
    BY <2>2, <2>3, <2>4 DEF Network, Disturb
<1>5. CASE Fill /\ Uncounted
  BY <1>5 DEF Fill, Uncounted, clientVars
<1>6. CASE UNCHANGED vars
  BY <1>6 DEF vars, clientVars
<1> QED
  BY <1>1, <1>2, <1>3, <1>4, <1>5, <1>6 DEF Next

LEMMA InitOneOrder ==
  Init => OneOrderInv
BY DEF Init, InitClient, InitExchange, OneOrderInv, Before, Threads

LEMMA StepOneOrder ==
  ASSUME OneWriteInv, OneWriteInv', OneOrderInv, [Next]_vars
  PROVE  OneOrderInv'
<1>1. resets' \in Nat /\ faults' \in Nat /\ resets <= resets' /\ faults <= faults'
  BY Counted DEF OneOrderInv
<1>2. ASSUME resets' <= 1, faults' = 0 PROVE Before' \/ FirstConnection'
  <2>1. resets <= 1 /\ faults = 0 /\ resets \in Nat /\ faults \in Nat
    BY <1>1, <1>2 DEF OneOrderInv
  <2>2. Before \/ FirstConnection
    BY <2>1 DEF OneOrderInv
  <2> QED
    BY <1>2, <2>1, <2>2, BeforeOrders, FirstConnectionGoesOn
<1> QED
  BY <1>1, <1>2 DEF OneOrderInv

LEMMA OneOrderFromInvariant ==
  OneOrderInv => OneOrderPerSide
<1> SUFFICES ASSUME OneOrderInv, Undisturbed, NEW s \in Sides
             PROVE  Cardinality({q \in resting : q.side = s}) <= 1
  BY DEF OneOrderPerSide
<1> DEFINE S == {q \in resting : q.side = s}
<1>1. Alone(S)
  BY DEF OneOrderInv, Undisturbed, Before, FirstConnection, FlowInv, SettledInv, Alone
<1> HIDE DEF S
<1>2. Cardinality(S) <= 1
  BY <1>1, AloneCounts
<1> QED
  BY <1>2 DEF S

LEMMA StepBoth ==
  OneWriteInv /\ OneOrderInv /\ [Next]_vars => (OneWriteInv /\ OneOrderInv)'
BY StepOneWrite, StepOneOrder

\* Through the first connection the messages are settled and the trading stream
\* lives, next to the invariant of the writes.
THEOREM OneOrderInvariance == Spec => [](OneWriteInv /\ OneOrderInv)
BY InitOneWrite, InitOneOrder, StepBoth, PTL DEF Spec

\* Of the quotes of a side, each is at the server after the one before it was
\* cancelled there, for any scenario and any sides and prices, as long as the
\* first connection stands.
THEOREM OneOrderCorrect == Spec => []OneOrderPerSide
BY OneOrderInvariance, OneOrderFromInvariant, PTL
=============================================================================
