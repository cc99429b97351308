----------------------------- MODULE SimExchange -----------------------------
(***************************************************************************)
(* rltrader/sim_exchange.cc: an exchange simulated on recorded order       *)
(* books.  Orders and cancels wait in timed_buffer for their delay; quotes *)
(* that the market crosses are filled, and the fill is put back into       *)
(* timed_buffer, under the old time stamp of the order, to be reported.    *)
(*                                                                         *)
(* A row of the market is its id, which is its time, and the best prices.  *)
(* Order ids are numbers, which are ordered like the strings they stand    *)
(* for up to 9.  Nothing in the program calls market() or amends an order, *)
(* so no order is a taker.                                                 *)
(***************************************************************************)
EXTENDS CsvReader

CONSTANTS delay,   \* of orders and cancels
          Bids,    \* best bid prices
          Tick,    \* between the levels of the book, and between best bid and ask
          IdGaps   \* time between rows

ASSUME ExchangeAssumption ==
  /\ delay \in Nat \ {0} /\ Tick \in Nat \ {0}
  /\ Bids \subseteq Nat /\ IdGaps \subseteq Nat

VARIABLES bid_quotes, ask_quotes,  \* order id -> order
          executions,
          timed_buffer,            \* time -> orders
          market                   \* the data of the current row

bookVars == <<bid_quotes, ask_quotes, executions, timed_buffer>>
exchangeVars == <<readerVars, bookVars, market>>

Markets(id) == {[id |-> id, bid |-> b, ask |-> b + Tick] : b \in Bids}

NoOrders == [o \in {} |-> <<>>]

ClearBook ==
  /\ bid_quotes' = NoOrders /\ ask_quotes' = NoOrders
  /\ executions' = <<>> /\ timed_buffer' = NoOrders

ResetExchange == ResetReader /\ ClearBook /\ market' \in Markets(0)

\* The books and the buffer are maps, which keep their keys in order.
ById(orders) == [o \in {q.orderId : q \in orders} |-> CHOOSE q \in orders : q.orderId = o]
InOrder(orders) ==
  LET ids == Sorted({q.orderId : q \in orders})
  IN  [k \in DOMAIN ids |-> ById(orders)[ids[k]]]

\* addToBuffer of each bid and then of each ask.
AddAll(buffer, bids, asks) ==
  [t \in DOMAIN buffer \cup {q.microSecond : q \in bids \cup asks} |->
     (IF t \in DOMAIN buffer THEN buffer[t] ELSE <<>>)
       \o InOrder({q \in bids : q.microSecond = t}) \o InOrder({q \in asks : q.microSecond = t})]

-----------------------------------------------------------------------------
(* Quotes and cancels *)

NewOrder(o, side, price, amount) ==
  [orderId |-> o, side |-> side, price |-> price, amount |-> amount, state |-> "NEW",
   microSecond |-> market.id]

\* Mutant (see the README): quotes that the exchange acknowledged are kept.
UnackedOnly(quotes) == {q \in Range(quotes) : q.state = "NEW"}

\* cancel: a quote stays in the book until its cancel is processed.
Cancellable(quotes) == {q \in Range(quotes) : q.state # "CANCELLED"}
Cancelled(q) == [q EXCEPT !.state = "CANCELLED", !.microSecond = market.id]
cancel(quotes) ==
  [o \in DOMAIN quotes |->
     IF quotes[o] \in Cancellable(quotes) THEN Cancelled(quotes[o]) ELSE quotes[o]]
cancels(quotes) == {Cancelled(q) : q \in Cancellable(quotes)}

\* cancelOrders, followed by a quote of each of the new orders.
CancelAndQuote(bids, asks) ==
  /\ bid_quotes' = cancel(bid_quotes) /\ ask_quotes' = cancel(ask_quotes)
  /\ timed_buffer' = AddAll(AddAll(timed_buffer, cancels(bid_quotes), cancels(ask_quotes)),
                            bids, asks)
  /\ UNCHANGED <<readerVars, executions, market>>

-----------------------------------------------------------------------------
(* next_read *)

\* Mutants (see the README): no delay; fills stay in the book.
DueTooEarly(t, obs) == t <= obs.id
ForgetsFills(quotes, orders) == quotes

IsDue(t, obs) == obs.id >= t + delay

\* The quotes that are left when some orders are gone, and those with others.
Without(quotes, orders) == Restrict(quotes, {o \in DOMAIN quotes : \A q \in orders : q.orderId # o})
With(quotes, orders) ==
  [o \in DOMAIN quotes \cup DOMAIN ById(orders) |->
     IF o \in DOMAIN ById(orders) THEN ById(orders)[o] ELSE quotes[o]]

\* An order that would cross the market when it arrives is dropped.
Accepted(order, obs) ==
  /\ order.state = "NEW"
  /\ IF order.side = "BUY" THEN order.price < obs.ask ELSE order.price > obs.bid

report(fills, order) == IF order.state = "FILLED" THEN Append(fills, order) ELSE fills

\* processPending and execute on the new row.
Execute(obs) ==
  LET due  == {t \in DOMAIN timed_buffer : IsDue(t, obs)}
      now  == UNION {Range(timed_buffer[t]) : t \in due}
      gone == {q \in now : q.state = "CANCELLED"}
      acked(side) == {[q EXCEPT !.state = "NEW_ACK"] :
                        q \in {r \in now : r.side = side /\ Accepted(r, obs)}}
      bids == With(Without(bid_quotes, gone), acked("BUY"))
      asks == With(Without(ask_quotes, gone), acked("SELL"))
      fill(q) == [q EXCEPT !.state = "FILLED"]
      bids_filled == {fill(q) : q \in {r \in Range(bids) : r.price > obs.bid}}
      asks_filled == {fill(q) : q \in {r \in Range(asks) : r.price < obs.ask}}
  IN  /\ executions' = FoldLeft(LAMBDA fills, t : FoldLeft(report, fills, timed_buffer[t]),
                                executions, Sorted(due))
      /\ timed_buffer' = AddAll(Restrict(timed_buffer, DOMAIN timed_buffer \ due),
                                bids_filled, asks_filled)
      /\ bid_quotes' = Without(bids, bids_filled)
      /\ ask_quotes' = Without(asks, asks_filled)

next_read ==
  /\ NextRow
  /\ IF HasNext THEN \E gap \in IdGaps : market' \in Markets(market.id + gap) /\ Execute(market')
                ELSE UNCHANGED <<bookVars, market>>

\* getFills, whose result is executions.
getFills ==
  /\ executions' = <<>>
  /\ UNCHANGED <<readerVars, bid_quotes, ask_quotes, timed_buffer, market>>
=============================================================================
