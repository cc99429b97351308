-------------------------------- MODULE Stock --------------------------------
(***************************************************************************)
(* What the circular buffer promises the state buffer queue: a stock of at *)
(* most size_ ready elements.  A Put adds one and waits while the stock is *)
(* full, a Get takes one and waits while it is empty.                      *)
(***************************************************************************)
EXTENDS Naturals

CONSTANT size_

VARIABLE stock  \* how many elements are ready

StockInit == stock = 0

Put ==
  /\ stock < size_
  /\ stock' = stock + 1

Get ==
  /\ stock > 0
  /\ stock' = stock - 1

StockSpec == StockInit /\ [][Put \/ Get]_stock
=============================================================================
