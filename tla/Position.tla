------------------------------ MODULE Position ------------------------------
(***************************************************************************)
(* rltrader/position.cc with normal_instrument.cc: what a fill does to the *)
(* position.  Prices are integers, multiples of a unit so fine that the    *)
(* averages of the bounded instances are integers too.                     *)
(***************************************************************************)
EXTENDS Integers

CONSTANT makerFee   \* of an amount of one at a price of one; a rebate if negative

ASSUME FeeAssumption == makerFee \in Int

\* balance is counted from the initial balance.
FlatPosition ==
  [averagePrice |-> 0, netAmount |-> 0, balance |-> 0, totalFee |-> 0,
   buy_amount |-> 0, average_buy_price |-> 0, sell_amount |-> 0, average_sell_price |-> 0]

abs(x) == IF x < 0 THEN -x ELSE x
sign(side) == IF side = "BUY" THEN 1 ELSE -1

\* NormalInstrument::pnl.  The smallest price is the tick size.
pnl(qty, entryPrice, exitPrice) ==
  IF entryPrice = 0 THEN 0 ELSE qty * (exitPrice - entryPrice)

\* NormalInstrument::fees of a maker order.
fees(order) == order.amount * makerFee * order.price

\* trade_info: the average price of an amount to which an order adds.
averaged(average, amount, order) ==
  (average * amount + order.price * order.amount) \div (amount + order.amount)

\* Mutant (see the README): a partial close realizes the whole position.
ClosesAll(net, amount) == net

\* What part of the position a fill of the other side closes.
closedPart(net, amount) ==
  IF amount >= abs(net) THEN net ELSE IF net > 0 THEN amount ELSE -amount

\* The average price after the fill.
averageAfter(pos, order) ==
  LET net == pos.netAmount
  IN  IF net = 0 THEN order.price
      ELSE IF net * sign(order.side) > 0
      THEN (order.amount * order.price + abs(net) * pos.averagePrice) \div (order.amount + abs(net))
      ELSE IF order.amount < abs(net) THEN pos.averagePrice
      ELSE IF order.amount = abs(net) THEN 0 ELSE order.price

\* The amount and the average of the side that the order is on.
tradesAfter(pos, order) ==
  IF order.side = "BUY"
  THEN [pos EXCEPT !.buy_amount = pos.buy_amount + order.amount,
                   !.average_buy_price = averaged(pos.average_buy_price, pos.buy_amount, order)]
  ELSE [pos EXCEPT !.sell_amount = pos.sell_amount + order.amount,
                   !.average_sell_price = averaged(pos.average_sell_price, pos.sell_amount, order)]

onFill(pos, order) ==
  LET net == pos.netAmount
      closed == IF net * sign(order.side) < 0 THEN closedPart(net, order.amount) ELSE 0
  IN  [tradesAfter(pos, order) EXCEPT
         !.averagePrice = averageAfter(pos, order),
         !.netAmount = net + order.amount * sign(order.side),
         !.totalFee = pos.totalFee + fees(order),
         !.balance = pos.balance + pnl(closed, pos.averagePrice, order.price)]
=============================================================================
