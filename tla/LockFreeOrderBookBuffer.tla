----------------------- MODULE LockFreeOrderBookBuffer -----------------------
(***************************************************************************)
(* rltrader/orderbook_buffer.h: a ring of order books between one writer,  *)
(* the thread of the websockets, and one reader, the thread that runs the  *)
(* env.  A slot is free when its sequence number is its index and full     *)
(* when it is its index plus the size; who finds the slot in the other     *)
(* state spins.  The two stores of a commit are one step: the index that   *)
(* the second one advances is read by no other thread.                     *)
(*                                                                         *)
(* Books are numbered in the order in which they are written.              *)
(***************************************************************************)
EXTENDS Integers

CONSTANT BUFFER_SIZE

ASSUME BufferAssumption == BUFFER_SIZE \in Nat \ {0}

Slots == 0 .. BUFFER_SIZE - 1
NoSlot == -1

VARIABLES sequence, write_index, read_index,
          book,       \* book[i]: the number of the book in slot i
          writing,    \* the slot that the writer is filling, or NoSlot
          reading,    \* the slot that the reader has, or NoSlot
          written,    \* history: books committed by the writer
          consumed    \* history: books committed by the reader

bufferVars == <<sequence, write_index, read_index, book, writing, reading, written, consumed>>

InitBuffer ==
  /\ sequence = [i \in Slots |-> i]
  /\ write_index = 0 /\ read_index = 0
  /\ book = [i \in Slots |-> 0]
  /\ writing = NoSlot /\ reading = NoSlot
  /\ written = 0 /\ consumed = 0

\* Mutant (see the README): the writer does not look at the slot.
AnySlot(i) == TRUE

Free(i) == sequence[i] = i
Full(i) == sequence[i] = i + BUFFER_SIZE

\* get_write_slot, and the writer's first store into the slot.
get_write_slot ==
  /\ writing = NoSlot
  /\ Free(write_index)
  /\ writing' = write_index
  /\ book' = [book EXCEPT ![write_index] = written + 1]
  /\ UNCHANGED <<sequence, write_index, read_index, reading, written, consumed>>

commit_write ==
  /\ writing # NoSlot
  /\ sequence' = [sequence EXCEPT ![writing] = writing + BUFFER_SIZE]
  /\ write_index' = (writing + 1) % BUFFER_SIZE
  /\ writing' = NoSlot
  /\ written' = written + 1
  /\ UNCHANGED <<read_index, book, reading, consumed>>

get_read_slot ==
  /\ reading = NoSlot
  /\ Full(read_index)
  /\ reading' = read_index
  /\ UNCHANGED <<sequence, write_index, read_index, book, writing, written, consumed>>

commit_read ==
  /\ reading # NoSlot
  /\ sequence' = [sequence EXCEPT ![reading] = reading]
  /\ read_index' = (reading + 1) % BUFFER_SIZE
  /\ reading' = NoSlot
  /\ consumed' = consumed + 1
  /\ UNCHANGED <<write_index, book, writing, written>>

BufferNext == get_write_slot \/ commit_write \/ get_read_slot \/ commit_read

BufferSpec == InitBuffer /\ [][BufferNext]_bufferVars

-----------------------------------------------------------------------------
\* The reader gets every book once, in the order of the writes, and while it
\* has the slot the writer is not in it; so it is with any number of laps of
\* either index around the ring (lines 53-103).
BooksInOrder ==
  /\ reading # NoSlot => book[reading] = consumed + 1 /\ consumed < written
  /\ reading # NoSlot => writing # reading
  /\ written - consumed \in 0 .. BUFFER_SIZE
=============================================================================
