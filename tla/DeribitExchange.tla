--------------------------- MODULE DeribitExchange ---------------------------
(***************************************************************************)
(* rltrader/deribit_exchange.cc: the exchange as the env sees it, on top   *)
(* of the client and of the ring of books.  Its callbacks run on the io    *)
(* thread, its other operations on the thread of the env.                  *)
(*                                                                         *)
(* The server is modelled from how the client uses it: it carries out      *)
(* private requests after the authentication and ignores them before,      *)
(* numbers the orders it accepts, and notifies the subscriber of every     *)
(* change of an order and of every fill.  A trade notification has one     *)
(* fill, which is all that its callback looks at.                          *)
(***************************************************************************)
EXTENDS DeribitClient, LockFreeOrderBookBuffer

CONSTANTS Sides,      \* sides that are quoted
          Prices

ASSUME SidesAssumption == IsFiniteSet(Sides)

VARIABLES last,        \* last[s]: the members bid and ask
          executions,  \* numbers of the fills that wait for getFills
          authed, subscribed, resting, inbox,  \* the server
          orders, fills,  \* history: orders and fills of the server
          returned        \* history: the last fill that getFills returned

serverVars == <<authed, subscribed, resting, inbox, orders, fills>>
exchangeVars == <<last, executions, returned, serverVars>>

Cancelled == [state |-> "CANCELLED", price |-> 0]

InitExchange ==
  /\ last = [s \in Sides |-> Cancelled]
  /\ executions = <<>> /\ returned = 0
  /\ authed = FALSE /\ subscribed = {}
  /\ resting = {} /\ inbox = <<>>
  /\ orders = 0 /\ fills = 0

-----------------------------------------------------------------------------
(* Callbacks *)

handle_auth_reply ==
  /\ handlers # <<>> /\ Head(handlers).m.kind = "authed"
  /\ on_read(<<Send("trading", [kind |-> "subscribe"])>>)
  /\ UNCHANGED <<exchangeVars, bufferVars>>

handle_order_book_updates ==
  /\ handlers # <<>> /\ Head(handlers).m.kind = "book"
  /\ on_read(<<Call("get_write_slot", "market"), Call("commit_write", "market")>>)
  /\ UNCHANGED <<exchangeVars, bufferVars>>

put_book ==
  /\ \/ IsNext("io", "get_write_slot") /\ get_write_slot
     \/ IsNext("io", "commit_write") /\ commit_write
  /\ Proceed("io", <<>>)
  /\ UNCHANGED <<exchangeVars, should_run_, connected, is_writing, message_queue, streamVars, io,
                 stopped, faults>>

handle_order_updates ==
  /\ handlers # <<>> /\ Head(handlers).m.kind = "order"
  /\ LET m == Head(handlers).m IN
       last' = [last EXCEPT ![m.side] =
                  [state |-> IF m.open THEN "NEW_ACK" ELSE "CANCELLED", price |-> m.price]]
  /\ on_read(<<>>)
  /\ UNCHANGED <<executions, returned, serverVars, bufferVars>>

handle_private_trade_updates ==
  /\ handlers # <<>> /\ Head(handlers).m.kind = "trade"
  /\ executions' = Append(executions, Head(handlers).m.fill)
  /\ on_read(<<>>)
  /\ UNCHANGED <<last, returned, serverVars, bufferVars>>

Callback ==
  \/ handle_auth_reply \/ handle_order_book_updates \/ put_book
  \/ handle_order_updates \/ handle_private_trade_updates

-----------------------------------------------------------------------------
(* Operations of the env *)

\* What the last update says of this side's quote: open at this price.
AlreadyQuoted(s, price) == last[s] = [state |-> "NEW_ACK", price |-> price]

\* quote: nothing if it is there already, and else in place of the old one.
quote ==
  /\ IsNext("env", "quote")
  /\ LET i == Head(todo["env"]) IN
       Proceed("env", IF AlreadyQuoted(i.m.side, i.m.price) THEN <<>>
                      ELSE <<Send("trading", [kind |-> "cancel", side |-> i.m.side]),
                             Send("trading", i.m)>>)
  /\ UNCHANGED <<exchangeVars, bufferVars, should_run_, connected, is_writing, message_queue,
                 streamVars, io, stopped, faults>>

\* reset, between stop and start of the client.
clear_executions ==
  /\ IsNext("env", "clear")
  /\ executions' = <<>>
  /\ Proceed("env", <<>>)
  /\ UNCHANGED <<last, returned, serverVars, bufferVars, should_run_, connected, is_writing,
                 message_queue, streamVars, io, stopped, faults>>

\* next_read and done_read.
read_book ==
  /\ \/ IsNext("env", "next_read") /\ get_read_slot
     \/ IsNext("env", "done_read") /\ commit_read
  /\ Proceed("env", <<>>)
  /\ UNCHANGED <<exchangeVars, should_run_, connected, is_writing, message_queue, streamVars, io,
                 stopped, faults>>

getFills ==
  /\ IsNext("env", "fills")
  /\ executions' = <<>>
  /\ returned' = IF executions = <<>> THEN returned ELSE Last(executions)
  /\ Proceed("env", <<>>)
  /\ UNCHANGED <<last, serverVars, bufferVars, should_run_, connected, is_writing, message_queue,
                 streamVars, io, stopped, faults>>

Operation == quote \/ clear_executions \/ read_book \/ getFills

-----------------------------------------------------------------------------
(* The server *)

Update(q, open) == [kind |-> "order", side |-> q.side, price |-> q.price, open |-> open]

\* Notifications of a sequence of updates, for a subscriber.
Notify(ms) == inbox' = IF "trading" \in subscribed THEN inbox \o ms ELSE inbox

Cancel(qs) ==
  /\ resting' = resting \ qs
  /\ Notify([k \in 1 .. Cardinality(qs) |-> Update(SetToSeq(qs)[k], FALSE)])
  /\ UNCHANGED <<authed, subscribed, orders, fills>>

\* What the server does with a message on the trading connection.
Receive(m) ==
  IF ~authed /\ m.kind # "auth" THEN UNCHANGED serverVars
  ELSE CASE m.kind = "auth" ->
              /\ authed' = TRUE /\ inbox' = Append(inbox, [kind |-> "authed"])
              /\ UNCHANGED <<subscribed, resting, orders, fills>>
         [] m.kind = "subscribe" ->
              /\ subscribed' = subscribed \cup {"trading"}
              /\ UNCHANGED <<authed, resting, inbox, orders, fills>>
         [] m.kind = "cancel_all" -> Cancel(resting)
         [] m.kind = "cancel" -> Cancel({q \in resting : q.side = m.side})
         [] OTHER ->
              /\ orders' = orders + 1
              /\ resting' = resting \cup {[side |-> m.side, price |-> m.price, n |-> orders + 1]}
              /\ Notify(<<Update(m, TRUE)>>)
              /\ UNCHANGED <<authed, subscribed, fills>>

Deliver(c) ==
  /\ \E m \in {o.m : o \in {p \in pending[c] : p.op = "write"}} :
       /\ Written(c, m)
       /\ IF c = "market"
          THEN subscribed' = subscribed \cup {c} /\ UNCHANGED <<authed, resting, inbox, orders, fills>>
          ELSE Receive(m)
  /\ UNCHANGED <<last, executions, returned, bufferVars>>

\* A new connection is not authenticated and subscribes to nothing.
NewStep(c) ==
  /\ Establish(c)
  /\ IF c = "trading" THEN authed' = FALSE /\ inbox' = <<>> ELSE UNCHANGED <<authed, inbox>>
  /\ subscribed' = subscribed \ {c}
  /\ UNCHANGED <<resting, orders, fills, last, executions, returned, bufferVars>>

\* The next notification, or the next book.
Arrive(c) ==
  /\ IF c = "trading"
     THEN /\ inbox # <<>> /\ Read(c, Head(inbox))
          /\ inbox' = Tail(inbox)
     ELSE /\ c \in subscribed /\ written < bound.books
          /\ Read(c, [kind |-> "book"]) /\ UNCHANGED inbox
  /\ UNCHANGED <<authed, subscribed, resting, orders, fills, last, executions, returned, bufferVars>>

\* An order of the env is filled.
Fill ==
  /\ fills < bound.fills
  /\ \E q \in resting :
       /\ resting' = resting \ {q}
       /\ fills' = fills + 1
       /\ Notify(<<[kind |-> "trade", fill |-> fills + 1], Update(q, FALSE)>>)
  /\ UNCHANGED <<authed, subscribed, orders, last, executions, returned, bufferVars, clientVars>>

Disturb(c) == (Lose(c) \/ Fails(c)) /\ UNCHANGED <<exchangeVars, bufferVars>>
=============================================================================
