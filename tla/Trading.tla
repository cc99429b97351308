------------------------------- MODULE Trading -------------------------------
(***************************************************************************)
(* The trading environment on the simulated exchange: RlTraderEnv with     *)
(* env_adaptor.cc and strategy.cc.  A step cancels the quotes, places one  *)
(* new quote on each side and reads two rows of the market; after each row *)
(* the fills that the exchange reports go into the position, and the book  *)
(* into the signals.  At the end of a step WriteState gives the row of the *)
(* env its reward.  Everything runs on the worker thread of the env.       *)
(*                                                                         *)
(* An action is a pair of spreads.  The amounts, which are a share of the  *)
(* balance in lots at the best price of each side, are left open; so is    *)
(* the leverage that skews the spreads, but for its sign, which is that of *)
(* the position while the account is worth something.  Of the signals it   *)
(* matters which books they compare, and of the info what the reward is    *)
(* made of: the fees, and how far the market is from the average price of  *)
(* the trades.  Both are counted in units of 1 / Precision.                *)
(***************************************************************************)
EXTENDS SimExchange, Position, TemporalTable

CONSTANTS Spreads,   \* levels a quote may be away from the best price
          Amounts,   \* trade amounts; 0 is less than the minimal amount
          Leverages, \* whole parts of the leverage
          Precision, \* of ratios of prices
          MaxOrders  \* bound on order_id

ASSUME TradingAssumption ==
  /\ Spreads \subseteq Nat /\ Amounts \subseteq Nat /\ MaxOrders \in 0 .. 9
  /\ Leverages \subseteq Nat /\ Precision \in Nat \ {0}
  /\ ZeroRow \notin WellFormed

VARIABLES position, order_id,
          book,      \* bid_prices and ask_prices of the adaptor
          isDone,
          market_builder,  \* the table of earlier books
          ofi,       \* ofi[lag]: the book the flow at that lag was computed from
          info,      \* the info of the adaptor
          previous_fees, previous_buy_sell_diff,
          pc, reads, \* where the step is; the loop counter ii of EnvAdaptor::next
          cash,      \* history: money received less money paid in fills
          applied,   \* history: orders whose fill is in the position
          quotedAt,  \* history: time of the last quote
          seen,      \* history: the rows of the episode, as far as they were read
          rewards    \* history: the sum of the rewards of its steps

envVars == <<book, isDone, pc, reads>>
signalVars == <<market_builder, ofi, seen>>
rewardVars == <<info, previous_fees, previous_buy_sell_diff, rewards>>
strategyVars == <<position, order_id, cash, applied, quotedAt>>
vars == <<exchangeVars, strategyVars, signalVars, rewardVars, envVars>>

\* 1, 9, 19 and 29
Lags == 1 .. NUM_ROWS - 1
NoSignals == [lag \in Lags |-> ZeroRow]

\* What is missing in an empty map is zero.
NoInfo == [fees |-> 0, buy_sell_diff |-> 0]

\* Init is a new env: the exchange has read its first row, isDone is set so
\* that the first step is a reset, and the prices of the adaptor are zero.
Init ==
  /\ \E start_line \in 0 .. start_read :
       LET last == lastLine(start_line, 0)
       IN  /\ line = last /\ rows = rowsRead(start_line, last) /\ num_reads = last - start_line
           /\ more_data = (last \in FillsBatch(start_line))
  /\ current = 1
  /\ bid_quotes = NoOrders /\ ask_quotes = NoOrders
  /\ executions = <<>> /\ timed_buffer = NoOrders
  /\ market \in Markets(0)
  /\ position = FlatPosition /\ order_id = 0
  /\ book = [bid |-> 0, ask |-> 0]
  /\ market_builder = NewTable /\ ofi = NoSignals /\ seen = <<>>
  /\ info = NoInfo /\ previous_fees = 0 /\ previous_buy_sell_diff = 0 /\ rewards = 0
  /\ isDone = TRUE /\ pc = "idle" /\ reads = 0
  /\ cash = 0 /\ applied = {} /\ quotedAt = 0

\* Mutant (see the README): the info stays in the adaptor.
CopiesInfo(now) == now

\* The sign of the leverage, which is 0 unless there is an average price.
leverageSign(pos) ==
  IF pos.averagePrice = 0 \/ pos.netAmount = 0 THEN 0 ELSE IF pos.netAmount > 0 THEN 1 ELSE -1

\* How far the middle of the prices is above the average price of the buys if the
\* position is long, or below that of the sells if it is short, as a part of it.
buy_sell_diff(pos, prices) ==
  LET both == prices.bid + prices.ask
      part(x) == (Precision * x) \div both
  IN  IF leverageSign(pos) > 0 THEN part(both - 2 * pos.average_buy_price)
      ELSE IF leverageSign(pos) < 0 THEN part(2 * pos.average_sell_price - both)
      ELSE 0

computeInfo(pos, prices) ==
  [fees |-> pos.totalFee, buy_sell_diff |-> buy_sell_diff(pos, prices)]

\* getInfo moves the info out of the adaptor.
infoAfter(now) == NoInfo

\* WriteState when the info of the adaptor says `now': the reward, and what is
\* kept for the next one.  (`+ pnl + upnl', line 200, comes after a semicolon:
\* it is a statement without effect.)
reward(now) ==
  (previous_fees - now.fees) + (now.buy_sell_diff - previous_buy_sell_diff)
WriteState(now) ==
  /\ previous_fees' = now.fees
  /\ previous_buy_sell_diff' = now.buy_sell_diff
  /\ info' = infoAfter(now)

\* Reset: the adaptor, the strategy and the exchange; the prices stay.  No
\* agent counts the reward of the row it writes.
Reset ==
  /\ pc = "idle"
  /\ ResetExchange
  /\ position' = FlatPosition /\ order_id' = 0
  /\ isDone' = FALSE
  /\ market_builder' = NewTable /\ ofi' = NoSignals
  /\ WriteState(info)
  /\ cash' = 0 /\ applied' = {} /\ quotedAt' = 0 /\ seen' = <<>> /\ rewards' = 0
  /\ UNCHANGED <<book, pc, reads>>

-----------------------------------------------------------------------------
(* Step *)

\* The whole part of the leverage.
Skews == {0} \cup {leverageSign(position) * l : l \in Leverages}

AtLeast0(x) == IF x > 0 THEN x ELSE 0

\* The price so many levels down the book, which is empty at first.
BidLevel(k) == IF book.bid = 0 THEN 0 ELSE book.bid - k * Tick
AskLevel(k) == IF book.ask = 0 THEN 0 ELSE book.ask + k * Tick

\* Levels of the book.
Depth == 20

\* sendGrid with one level: the quote, unless it is too far away or too small.
Grid(o, side, level, price, amount) ==
  IF level >= Depth \/ amount = 0 THEN {} ELSE {NewOrder(o, side, price, amount)}

\* Strategy::quote.
Step ==
  /\ pc = "idle" /\ ~isDone
  /\ order_id + 2 <= MaxOrders
  /\ \E buy_spread, sell_spread \in Spreads, buy_amount, sell_amount \in Amounts, skew \in Skews :
       LET buy_level == AtLeast0(buy_spread + skew)
           sell_level == AtLeast0(sell_spread - skew)
           bids == Grid(order_id + 1, "BUY", buy_level, BidLevel(buy_level), buy_amount)
           asks == Grid(order_id + Cardinality(bids) + 1, "SELL", sell_level,
                        AskLevel(sell_level), sell_amount)
       IN  /\ CancelAndQuote(bids, asks)
           /\ order_id' = order_id + Cardinality(bids \cup asks)
  /\ quotedAt' = market.id
  /\ pc' = "read" /\ reads' = 0
  /\ UNCHANGED <<position, cash, applied, book, isDone, signalVars, rewardVars>>

\* EnvAdaptor::next: the next row, or the end of the episode ...
Read ==
  /\ pc = "read"
  /\ next_read
  /\ pc' = IF HasNext THEN "fills" ELSE "idle"
  /\ isDone' = ~HasNext
  /\ IF HasNext THEN UNCHANGED rewardVars
                ELSE WriteState(info) /\ rewards' = rewards + reward(info)
  /\ UNCHANGED <<strategyVars, signalVars, book, reads>>

\* MarketSignalBuilder::add_book: the signals first, then the row.
add_book(row) ==
  /\ ofi' = [lag \in Lags |-> laggedBook(market_builder, lag)]
  /\ market_builder' = addRow(market_builder, row)
  /\ seen' = Append(seen, row)

\* ... and, after a row, Strategy::next, computeState and the copy of the
\* prices.
Fills ==
  /\ pc = "fills"
  /\ position' = FoldLeft(onFill, position, executions)
  /\ cash' = FoldLeft(LAMBDA c, q : c - sign(q.side) * q.amount * q.price, cash, executions)
  /\ applied' = applied \cup {q.orderId : q \in Range(executions)}
  /\ getFills
  /\ add_book(currentRow)
  /\ book' = [bid |-> market.bid, ask |-> market.ask]
  /\ reads' = reads + 1
  /\ pc' = IF reads + 1 < 2 THEN "read" ELSE "idle"
  /\ LET now == computeInfo(position', market)
     IN  IF reads + 1 < 2
         THEN info' = now /\ UNCHANGED <<previous_fees, previous_buy_sell_diff, rewards>>
         ELSE WriteState(now) /\ rewards' = rewards + reward(now)
  /\ UNCHANGED <<order_id, quotedAt, isDone>>

Next == Reset \/ Step \/ Read \/ Fills

Spec == Init /\ [][Next]_vars

-----------------------------------------------------------------------------
(* Properties *)

Waiting == UNION {Range(timed_buffer[t]) : t \in DOMAIN timed_buffer}
Resting == Range(bid_quotes) \cup Range(ask_quotes)
IsOf(q, o, st) == q.orderId = o /\ q.state \in st
Count(s, o, st) == Cardinality({k \in DOMAIN s : IsOf(s[k], o, st)})
WaitingCount(o, st) ==
  Cardinality(UNION {{<<t, k>> : k \in {j \in DOMAIN timed_buffer[t] : IsOf(timed_buffer[t][j], o, st)}} :
                       t \in DOMAIN timed_buffer})

\* An order is in one place at a time: on its way to the exchange, in the
\* book, filled and on its way back, reported, or in the position.  None is
\* filled twice, although a cancel and a fill of it may be on their way at
\* once (cancel, processPending and execute, lines 137-278).
OneFate ==
  \A o \in 1 .. order_id :
    /\ WaitingCount(o, {"NEW", "FILLED"}) + Cardinality({q \in Resting : q.orderId = o})
         + Count(executions, o, {"FILLED"}) + (IF o \in applied THEN 1 ELSE 0) <= 1
    /\ WaitingCount(o, {"CANCELLED"}) <= 1

IsOverdue(q) == market.id >= q.microSecond + delay

\* Orders rest no sooner than their delay, and no longer than the delay of
\* their cancel, which is on its way; a resting quote never crosses the book
\* (lines 158-216 and 251-266).
DelaysHold ==
  /\ \A q \in Waiting : q.state # "FILLED" => ~IsOverdue(q)
  /\ \A q \in Resting :
       IF q.state = "CANCELLED" THEN q \in Waiting /\ ~IsOverdue(q)
       ELSE q.state = "NEW_ACK" /\ IsOverdue(q)
  /\ \A q \in Range(bid_quotes) : q.price <= market.bid
  /\ \A q \in Range(ask_quotes) : q.price >= market.ask

\* Of the quotes of earlier steps only those rest uncancelled that were still
\* on their way when the last step cancelled what it found in the book
\* (Strategy::quote, line 44; cancelOrders, lines 137-147 and 231-234).
OnlyLateQuotesSurvive ==
  \A q \in Resting :
    q.state = "NEW_ACK" /\ q.microSecond < quotedAt => q.microSecond + delay > quotedAt

\* However fills open, add to, close and flip the position, realized profit
\* and the value of the inventory at any price come to the money paid and
\* received, and so do the averages of trade_info (position.cc, lines 55-106).
EquityIsCash ==
  /\ position.balance - position.netAmount * position.averagePrice = cash
  /\ position.netAmount = position.buy_amount - position.sell_amount
  /\ position.sell_amount * position.average_sell_price
       - position.buy_amount * position.average_buy_price = cash

\* The rewards of an episode add up to the rebates of its fills and the distance
\* of the market from the average price of the trades at its end; they leave
\* nothing out between, and have nothing of an earlier episode.  But when the
\* episode ends at the first of the two reads of a step, the info was moved out
\* by the step before, and the last reward takes back all of them
\* (rltrader_litepool.h, lines 177-215; env_adaptor.cc, lines 62-64).
RewardsAddUp ==
  pc = "idle" =>
    rewards = (IF isDone /\ reads = 0 THEN 0
               ELSE buy_sell_diff(position, book) - position.totalFee)

\* The table gives the books of this episode, the lag counted from the last
\* one, and zeros where the episode is younger than the lag; a signal compares
\* a book only with earlier ones of its episode (circ_table.h, lines 14-32;
\* EnvAdaptor::reset, lines 52-53).
SignalsOfEpisode ==
  /\ \A lag \in 0 .. NUM_ROWS - 1 :
       get(market_builder, lag) =
         (IF lag < Len(seen) THEN seen[Len(seen) - lag] ELSE ZeroRow)
  /\ \A lag \in Lags :
       ofi[lag] # ZeroRow => \E k \in 1 .. Len(seen) - 1 : ofi[lag] = seen[k]

\* Refuted: what market_signal_builder.h says of volume_ofi_signal_6, "3 sec
\* level 1", which is computed with the last lag of a table that gets a book
\* every 100 msec: once the table is full it compares a book with the one that
\* was read NUM_ROWS books before it (market_signal_builder.cc, lines 118-142).
LastLagIsOldest ==
  Len(seen) > NUM_ROWS => ofi[NUM_ROWS - 1] = seen[Len(seen) - NUM_ROWS]

\* An episode sees the rows of its file one after the other, across batches,
\* and ends when there is none left or max_read was exceeded (csv_reader.cc,
\* lines 13-27 and 64-137).
ReadsEveryRow ==
  [][Read => IF isDone' THEN RowsBetween(currentRow, Lines) = {} \/ num_reads' > max_read
             ELSE currentRow' \in RowsBetween(currentRow, Lines)
                  /\ RowsBetween(currentRow, currentRow' - 1) = {}]_vars
=============================================================================
