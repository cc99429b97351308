# Verification of litepool

litepool runs many reinforcement-learning environments on a pool of threads. Clients send
actions for some environments and receive the results in batches, either all environments in
lock step (sync mode) or whichever finish first (async mode). The repository adds one real
environment, a market-making simulator and its live counterpart on the Deribit exchange.

This directory holds TLA+ models of that program, TLC configurations that check them on small
instances, and TLAPS proofs for every instance. Names of variables and operations are those of
the code; paths below are relative to `src/litepool/`.

## 1. The system

| Component | State | Operations | Talks to |
|---|---|---|---|
| `core/action_buffer_queue.h` ActionBufferQueue | ring `queue_`, cursors `alloc_ptr_`, `done_ptr_`, semaphores `sem_`, `sem_enqueue_`, `sem_dequeue_` | EnqueueBulk, Dequeue | filled by clients, emptied by workers |
| `core/circular_buffer.h` CircularBuffer | ring `buffer_`, cursors `head_`, `tail_`, semaphores `sem_get_`, `sem_put_` | Put, Get | the stock of the state buffer queue |
| `core/state_buffer.h` StateBuffer | `alloc_count_`, packed `offsets_`, `done_count_`, `sem_`, the arrays | Allocate, done_write, Wait | written by workers, read by the client |
| `core/state_buffer_queue.h` StateBufferQueue | ring of StateBuffers, tickets `alloc_count_`, blocks `done_ptr_`, stock, creating threads, `quit_` | Allocate, Wait, destructor | between envs and Recv |
| `core/async_litepool.h` AsyncLitePool | `stepping_env_num_`, `stop_`, workers, the two queues, the envs | Send, Reset, Recv, worker loop, destructor | clients, envs |
| `core/env.h` Env | `action_batch_`, `current_step_`, `order_`, the slice, IsDone | SetAction, EnvStep (Reset or Step), Allocate | run by a worker |
| `core/py_litepool.h`, `array.h`, `dict.h`, `spec.h`, ... | none of their own | conversions | |
| `dummy/` | a counter for each env | Reset, Step | test environment |
| `rltrader/sim_exchange.*`, `csv_reader.*` | quotes, pending orders with delays, fills, the market row read | quote, market, cancel, next_read, reset | strategy |
| `rltrader/strategy.*`, `position.*`, `*_instrument.*`, `env_adaptor.*`, `rltrader_litepool.h` | inventory, averages, balance, fees, the grid of quotes, info and reward | quote, next, reset, onFill | exchange, pool |
| `rltrader/orderbook_buffer.h` | ring of order books, sequence number of each slot | get_write_slot, commit_write, get_read_slot, commit_read | io thread, thread of the env |
| `rltrader/deribit_client.*` | two websocket streams, `should_run_`, and for each connection a queue of messages, a flag of writing and one of being connected | start, stop, place, cancel, handlers of completions | io thread, thread of the env |
| `rltrader/deribit_exchange.*`, `deribit_rest.*` | the last acknowledged order of each side, executions, the ring of books | reset, quote, cancelOrders, next_read, done_read, getFills, callbacks | client, strategy |
| `rltrader/*_signal_builder.*`, `circ_table.h`, `fixed_vector.h` | tables of earlier books | add_book, get | env adaptor |
| `python/`, trainers | configuration | send, recv with retries, reset, step | pool |

What is hard about it:

* **Concurrency without locks in the core.** Enqueuers, dequeuers, envs and the receiver meet in
  rings guarded only by counters. The action ring is never tested for room; the buffers of
  results are freed by the receiver while other envs hold tickets into the ring; a short batch
  moves the ticket counter by hand. Correctness rests on an invariant the client maintains (an
  env has at most one action outstanding) and on arithmetic between cursors.
* **Two modes in one code path.** In sync mode rows are chosen by the caller and batches may be
  short; in async mode rows are first come first served and batches are exact.
* **Shutdown.** Two destructors stop two kinds of threads by sending each of them something.
* **Trading.** Orders take effect after a delay and a cancel can lose against a fill. Totals of
  an episode become rewards by differences, so what belongs to which episode matters.
* **The live exchange.** The thread of the env and the io thread both write to the same streams,
  under a flag that one of them reads without its lock; connections are lost and replaced while
  operations are under way on them; a reset stops and restarts the io thread at any moment.

The list of hazards, each at its line and with the property that would catch it, is in
`PROJECT.json`.

## 2. Modules

    ActionFIFO          abstract: a FIFO of batches          <- ActionBufferQueue implements it
    Stock               abstract: a bounded stock            <- CircularBuffer(Use) implements it
    BatchQueue          abstract: batches in ticket order    <- StateBufferQueue implements it

    StateBufferOps      the atomic operations on one buffer
      StateBuffer       one buffer under concurrent use
        PlayerBatch     the players of a batch and back to their envs
      StateBufferQueue  the ring of buffers, composed with Stock
    AsyncLitePool       the pool, composed with ActionFIFO and BatchQueue

    CsvReader           the rows of the recorded market
      SimExchange       the simulated exchange on top of it
    Position            what a fill does (operators only)
    TemporalTable       the tables of earlier books (operators only)
    Trading             one trading env: composes SimExchange, Position, TemporalTable

    DeribitClient       two connections, served by one thread and used by another
    LockFreeOrderBookBuffer    the ring of order books
      DeribitExchange   the exchange on both, with the server behind it
        LiveTrading     the env that uses it, and the network

    SortedSets          the sorted sequence of a set, for CsvReader and PlayerBatch
    CommonFacts, ActionBufferQueueProofs, CircularBufferProofs,
    StateBufferProofs, StateBufferQueueProofs, AsyncLitePoolProofs,
    TradingProofs, LiveTradingProofs (with the ring of order books)   proofs
    MC*                 instances for TLC

The pool uses ActionFIFO and BatchQueue and the state buffer queue uses Stock, that is, what their
parts promise and not their details; a run shows for each of the three that the detailed module
implements the abstract one, and TLAPS proves it for every instance. The live system is small
enough to be composed in full.

### ActionBufferQueue

Every atomic operation and every slot access of `EnqueueBulk` (59-69) and `Dequeue` (71-80) is
an action: LockEnqueue, Claim, Write (one slot), Signal, UnlockEnqueue; WaitSem, LockDequeue,
Fetch, Read, UnlockDequeue. `Finish` stands for what follows outside: the worker steps the env
and the client receives the result. `Call` is the caller's side with its discipline: a batch of
distinct envs without an outstanding action. A slice is identified by its env id. `sent` records
the claimed slices in order; only properties read it. The spin on the semaphore is a guard.

### CircularBuffer, CircularBufferUse, Stock

Put is PutWait, PutClaim, PutStore, PutSignal; Get is GetWait, GetClaim, GetMove, GetSignal. The
value a Put stores is the number of its position, so that a wrong element shows.
CircularBufferUse lets each thread put or get again and again.

### StateBufferOps, StateBuffer

A buffer is a record. The packed 64-bit `offsets_` is its two halves; they are advanced in one
step. The arrays are who has written each row and each player row. In `StateBuffer` each call of
Allocate is a process (TakeQuota, TakeOffsets, Fill, CallDone, then Signal or Compare) and one
waiter collects the batch. `stepping` envs take part (calls with an order are in
StateBufferQueue); with fewer than `batch_` the waiter adds the rest as `additional_done_count`,
as `AsyncLitePool::Recv` does. The validation of that argument (139-141) never fires in this use:
`TypeOK` of AsyncLitePool bounds it by `batch_`.

PlayerBatch follows the numbers of the players further: `Env::Allocate` writes the env into the
row of each player, the caller answers under the same numbers, and `ParseAction` (env.h:112-160)
picks the rows of its env, as a slice when they are continuous and as a copy when not.

### StateBufferQueue, BatchQueue

Envs with an action are producers: ticket, quota, offsets, fill, done, signal; at most
`num_threads` of them are under way at a time. `Done` is the addition to `done_count_`; the
comparison with `batch_` after it, which is another access to the buffer, is Signal for the one
that completes the batch and `Compare` for any other: its thread stays in `late` until then, while
its env may be returned and sent again. A late thread reads a member that no operation writes;
what it finds in a freed buffer is undefined, and taken to be what was there. The receiver runs
Wait (141-152) step by step: a buffer from the stock, the block, the additional count, the wait,
the move of `alloc_count_`, the swap. The locals of a call are reset when it returns. Creating
threads put buffers until they read `quit_`; the destructor sets it, gets one buffer for each
creating thread and joins them. In sync mode a numbered set of actions is sent and a Wait for all
of them follows; in async mode an env gets a new action any time after its result was returned.

### AsyncLitePool

Clients: Send (SetAction and the slices), CountStepping, Enqueue; Reset likewise with
`force_reset`; Recv (the read of `stepping_env_num_`), Wait, ReturnBatch. Workers: Dequeue, the
test of `stop_`, IsDone, EnvStep (PreProcess, Reset or Step with its Allocate), PostProcess. The
destructor: Destroy, ClearWorkers, Join. Whether a step ends the episode is the env's choice, up
to the bound MaxEpisode. A row of the result records whether the env was reset, the action it
used, its step counter and its done flag; it is cleared when the batch is returned. `asked` and
`seen` are the client's memory: what it asked last and what it saw last; the properties compare
them with the rows.

The discipline assumed of clients: an env gets a new action only after its last answer; it is
reset before its first action; one thread at a time receives; in sync mode one Recv follows each
Send or Reset. `step` and `reset` of `python/litepool.py` and the loop of
`dummy/dummy_litepool_test.cc` keep it; the pool itself enforces none of it.

### CsvReader, SimExchange, Position, Trading

One env of `rltrader` with the simulated exchange; everything runs on the worker that runs the
env, so the difficulty is in the order of events, not in threads. CsvReader keeps the batch in
memory, the iterator and the count of lines; a row is the number of its line. SimExchange keeps
`bid_quotes`, `ask_quotes`, `timed_buffer` and `executions` as the code does; `next_read` is one
action with its processPending and execute. A quote may be in the book and its cancel in
`timed_buffer` at once, and when it fills it goes back into `timed_buffer` under the time stamp
it has then, the one of the order or the one of the cancel.

Trading is RlTraderEnv, EnvAdaptor and Strategy: `Reset`; `Step` (cancelOrders and at most one
quote on each side, at the prices of the last row the adaptor copied); then twice `Read`
(next_read) and `Fills` (getFills, onFill for each, computeInfo, the copy of the prices). A read
without a row ends the episode, also between the two reads; a step also writes the reward and
adds the book to the table of TemporalTable. The row's data is its id and its best bid, with a
fixed spread and levels `Tick` apart. What the code computes from the balance is left open: the
amounts, of each side by itself, and how far the leverage skews the quotes (`Leverages`); the
sign of the leverage is that of the position, as it is while the account is worth something. A
quote that is `Depth` levels away is not sent, nor one below the minimal amount.

The reward is what `WriteState` computes (rltrader/rltrader_litepool.h:198-210): the difference
of fees and that of `buy_sell_diff`, which is how far the middle of the prices is from the
average price of the buys of a long position or of the sells of a short one, as a part of the
middle. Line 200 reads `(previous_fees - info["fees"]); + pnl + upnl;`: what follows the
semicolon is a statement without effect, so the two differences of profits computed above it are
in no reward. Ratios and fees are counted in units of 1 / `Precision`. `cash` (money received
less paid), `applied`, `quotedAt`, `seen` and the sum of the rewards are history.

### LockFreeOrderBookBuffer, DeribitClient, DeribitExchange, LiveTrading

Two threads: the env's, which runs `Strategy::reset`, `quote`, `next` and through them the
exchange and `start`, `stop` and the sending of the client; and the io thread, which runs the
handlers of completions and the callbacks. `todo[t]` is the sequence of instructions that thread
`t` has yet to carry out. An operation puts its calls there, and each atomic step of sending a
message is an instruction of its own: the push under the lock, the test of the flag without the
lock, the test with it, and `async_write` after the lock was released. Thus the two threads
interleave between any two of them.

Boost.Asio and Beast are external and modelled from how they are used: `pending[c]` are the
operations under way on the stream of connection `c`, `handlers` the queue of completions, run
one at a time while the context is not stopped. A new stream aborts what is pending on the old
one. `Establish`, `Written`, `Read`, `Lose` and `Fails` are the network. Resolving, the TCP
connect, TLS and the websocket handshake are two phases. The server (`Receive`, `Fill`,
`Arrive`) is external too: it ignores requests before the authentication, numbers orders, and
notifies a subscriber. The market callback's two ring operations are instructions of the io
thread, so it can be caught in `get_write_slot`, where the code spins.

A behaviour is bounded by its scenario, chosen in the initial state: which connections the
network lets through, and how many losses, streams, resets, steps, books and fills it has.

## 3. Runs

Mutants: a definition marked as a mutant is the body of a mapped definition with a plausible
bug. No specification uses it. For every property of a passing run `PROJECT.json` names a mutant
which, in place of the original, makes TLC find that property violated.

| Run | Instance | What it shows |
|---|---|---|
| action_queue | 2 clients, 2 workers, 2 envs, 5 positions (the ring has 4) | FIFO and exactly once, no slot read while written, never more than half full; implements ActionFIFO; every action is dequeued |
| stock | 3 slots, 10 puts | first in, first out; implements Stock; everything put is taken |
| stock_creators | 2 putters, 6 slots | **violated**: Get returns an empty element |
| buffer | batch 3, up to 2 players, 4 calls, full and short batches | slices disjoint, batch whole, no writer left; actions of players reach their env |
| batches_async | batch 2, 3 envs, ring of 6, 7 blocks | tickets hit live buffers after the ring wraps, no exception, results kept; implements BatchQueue |
| batches_sync | batch 2 = envs, ring of 6, 7 blocks, 1 creating thread, destructor | short and full batches; rows in the order of the actions (implements BatchQueue); Wait returns; the destructor returns if the stock holds enough, wherever the creating thread is |
| freed_buffer | batch 2, 2 threads | **violated**: whoever reads a buffer reads one that was not freed |
| pool | 2 envs, batch sizes 1 and 2 (2 is sync mode), 2 workers, 2 clients, 2 actions, destructor | no env run twice at once, nothing lost, answers match, the count of stepping envs is exact; a sync Recv returns; every action is answered; every worker exits |
| trading | 9 lines, batches of 3, 4 start lines, 3 market prices, delay 3, lots of 1 and 2, quotes skewed by 1 or 20 levels, a maker fee, a table of 3 rows, up to 7 orders, any number of episodes | no order lost or filled twice, delays hold, which quotes survive a cancel, equity is cash, rewards add up to the rebates and the distance from the average trade, signals compare books of one episode, every row is read |
| lagged_books | as trading, 9 lines, lots of 1, up to 8 orders | **violated**: the longest lag compares with the oldest book |
| live | a ring of 2 books, one side at 2 prices, 6 scenarios | books once and in order, one write at a time on a stream, one order on a side, no message forgotten, stop returns |
| live_restart | two resets, a reachable trading connection, no fault | **violated**: a client that was started again authenticates itself |

The six scenarios of `live`: two quotes of a side on two healthy connections; more books than
the ring holds with a reset at any moment; a trading connection lost in the middle of an order
and its fill; a market connection lost, then a reset; a trading connection lost around a reset;
and a network that makes no connection, while look-ups throw as long as the scenario has faults
left: when one stream is replaced and when both are set up again. Each leaves out what the
others vary: all at once is beyond TLC.

`batch_` is a parameter of the constructor and a variable of AsyncLitePool and BatchQueue that
the initial state chooses and no step changes, so one run covers async and sync pools.
StateBufferQueue implements BatchQueue with the value of its constant.

Bounds. `MaxAlloc`, `MaxPuts` and `MaxWaits` bound cursors that only grow; each is chosen so
that the ring it belongs to wraps at least once, which is where positions of different laps can
meet. Slots are reused only modulo the ring, so further laps repeat the same relations; for the
two inner rings the proofs cover every number of laps. Batches of 2 and 3 give a batch with a
first, a middle and a last member and short batches. Two workers and two clients are enough for
every pair of operations to overlap. `MaxEpisode` = 1 gives a first step, a last step and a
reset after it. `num_threads` = 2 lets a thread be late with its comparison while another goes
on.

In `trading` an episode has five to eight rows, the first of which Reset takes. Its four start
lines end an episode past `max_read` with a batch of two rows or of one, at the end of the file
after a whole batch, and within a batch, between two steps and between the two reads of a step.
With delay 3 the orders of a step arrive in the next one. The step after the arrival cancels
them at the earliest, at id 4, which takes effect at id 7, in the last read of the longest
episode; until then they may fill, and the fill becomes due together with the cancel. Orders
that arrive after the step that would have cancelled them stay for the next. A skew of 20 levels
is `Depth`, so that one side of a step has no quote, which also leaves order ids for a fourth
step; a skew of 1 moves it off the best price. Two lots let fills open, add to, partly close and
flip the position. Prices are multiples of a number that makes every average an integer, else
EquityIsCash would fail. A table of 3 rows wraps in an episode of five. In
`live` two books wrap the ring, `streams` is large enough for both connections to be made, lost
and made again in the scenarios that do so, and one side shows what two would, as sides share
nothing but the connection; the proof about the ring is for any size and any scenario. Deadlock
is not checked where the system may stop: at a bound, when no client calls, or after the
destructor.

Fairness. Weak fairness of the steps of a thread inside a call says that the scheduler runs every
runnable thread, also one that is late with its comparison; a wait on a semaphore is such a step,
enabled while the count is positive, and the semaphores wake a waiter when they are signalled. No
fairness forces a client to call, except in `UserSpec` of AsyncLitePool, which describes clients
that go on sending and receiving. In LiveTrading the two threads are weakly fair inside what they
have begun, the env may stop between calls, and on a reachable connection that is not lost the
network completes connects and writes and delivers what the server sent; it need not lose
anything. The getter of CircularBufferUse keeps coming back because EverythingTaken is about such
a getter.

### Findings

* `stock_creators`. From 128 processors on there are two or more creating threads (line 86). Put
  claims its position before it fills it, so the signal of a later Put can release a Get on a
  position that is still empty. Wait then swaps a null pointer into the ring and, one lap later,
  Allocate dereferences it.
* `freed_buffer`. `Done` (core/state_buffer.h:126-131) adds to `done_count_` and then reads
  `batch_` of the same buffer. Once an env is counted, the rest of its batch may complete it:
  Wait returns and frees the buffer (core/state_buffer_queue.h:150-152) while the thread is still
  between the two. Nothing is written late (WritesLiveBuffer, NoWriterLeft), but the comparison
  reads a freed object; were `batch_` something else there, a second signal could follow.
* `live_restart`. `stop` (rltrader/deribit_client.cc:60-99) sends a cancel and stops the context
  at once. The handler that would clear `is_trading_writing_` (543) is then never run, and
  neither `stop` nor `start` clears the flag. The next connection opens and queues its
  authentication (487) behind a write that no longer exists: every reset of the live env after
  the first can leave it without orders and fills.
* `lagged_books`. `compute_lagged_ofi` (rltrader/market_signal_builder.cc:137-141) passes a row
  to `TemporalTable::get` (circ_table.h:28-31), which takes a lag and converts it to a row
  again. What it compares the book with is the row whose number is the lag, whatever the age of
  that book.

Two more places where the code waits for ever are hypotheses of properties that hold:

* StockedDestructorReturns asks for a stock with one buffer for each creating thread.
  `~StateBufferQueue` (core/state_buffer_queue.h:100-109) takes that many, so that a thread
  blocked in Put goes on, and joins. If the stock is empty and a creating thread is between Put
  (90) and `if (quit_)` (92), it exits without another Put and the destructor's Get never
  returns. Only a pool destroyed right after buffers were consumed is exposed.
* StopReturns excepts an io thread that waits in `get_write_slot` for room in a full ring
  (rltrader/orderbook_buffer.h:53-70), where it looks at no flag. When the env has read no book
  for the ten seconds in which the ring of 100 fills up, `DeribitExchange::reset`
  (deribit_exchange.cc:22-28) stops the client first, which joins that thread
  (deribit_client.cc:83-85). The only reader of the ring is the caller of reset: the reset
  deadlocks.

## 4. Proofs

TLAPS checks these for all values of the constants, from the assumptions named in the modules.

**ActionBufferQueue** (ActionBufferQueueProofs): type correctness, FIFODelivery,
TokensMatchSlices, HalfFull, NoSlotRace. None is inductive. FIFODelivery needs to know that a
slot keeps its slice until it is read (ContentInv), that in turn that no position alive is a
full ring away from another (the bound), and the bound that the envs of the live positions are
distinct and held by nobody else (HolderInv): the ring is safe because envs are counted, not
because anyone looks at its size. The other conjuncts say that each semaphore admits one thread
(LockInv), that the batch being written is the end of `sent` (ClaimInv), and where a reader's
position is (ReaderInv). The argument: distinct envs in live positions give at most NumEnvs
positions, hence less than the ring; positions less than a ring apart have different slots
(CommonFacts!SlotsDiffer); so a Write changes no live slot. One lemma for each action, one
step for each conjunct.

**CircularBuffer** (CircularBufferProofs), assuming one thread on each side (OneOfEach, which the
finding `stock_creators` shows to be necessary): type correctness, GetsInOrder,
StoresIntoFreeSlot, and ImplementsStock. The invariant counts every slot once (CursorInv) and says
that exactly the positions between the getter and the putter have their element in their slot
(SlotInv).

ImplementsFIFO says that the ring does what ActionFIFO promises. Its state is a function of the
ring's: the batch being written, what is queued and what was taken are at every moment three
consecutive stretches of `sent` (Window), a claim lengthens the first, the signal moves it into
the second, and a fetch moves one position into the third.

**StateBuffer** (StateBufferProofs), for any size of the batch, number of players and number of
calls: type correctness, SlicesDisjoint, NoWriterLeft, BatchComplete and PlayersFollowEnvs. Each
atomic counter is the number of calls that have passed it (CountInv), so it can be read as the
position of a call among the others. The slices handed out tile both arrays in the same order
(SliceInv); what a call wrote in its slice stays (RowInv); and the one signal of the batch is
given when everything is counted and is with one thread (SignalInv), whoever completes the count,
a call or the waiter that adds the missing ones. PlayersFollowEnvs is about what the env does with
a whole batch: the player rows that carry the number of an env are, in order, those of its slice
(PlayerRowsOfEnv); under the rotation by which the caller may send them back each is in one place
still; and if ParseAction finds them continuous, they are an interval because a sorted sequence of
distinct rows whose ends are as far apart as it is long has no gap.

**StateBufferQueue** (StateBufferQueueProofs), for any number of envs, threads and batch size,
sync and async: WritesLiveBuffer, NeverThrows and ResultKept. The model takes what Stock promises
for granted, that a Get returns a buffer. CircularBuffer is shown to keep that promise with one
creating thread, and the finding `stock_creators` is that it does not with two. So the results are
about pools with one creating thread, that is on hosts of up to 127 processors, although the
proofs do not use their number. WritesLiveBuffer is about an env until it is counted as done, and
says nothing of the comparison after that, for which the finding `freed_buffer` shows the
opposite. The tickets in use are consecutive and start at the block that is swapped next
(TicketInv), because a short batch moves the counter by as much as was missing and only after its
wait. As there are at most as many tickets as envs, all of them lie within half of the ring, and
the block of a ticket has a buffer that no swap and no wrap can take from it. For each block
within a ring of the next swap (LiveBlocks) the counters of its buffer count exactly its envs
(CountInv, SignalInv), each of which has a row of its own (SliceInv) that keeps its result
(RowInv); buffers ahead of all tickets are thus new ones. In sync mode the orders of the actions
are the rows (SyncInv).

ImplementsBatchQueue maps this to a queue of reservations in the order of tickets. The k-th
reservation is the env with the k-th ticket after the blocks that were collected; that there is
exactly one such env, for each k up to their number, is InTicketOrder, which follows from the
invariant by counting. TakeTicket is Reserve, Done is Finish, the read of the arrays and the swap
are the two halves of a Wait, and all other steps stutter.

**AsyncLitePool** (AsyncLitePoolProofs), for any number of clients, workers and envs, sync and
async, destructor included: type correctness, OneWorkerPerEnv, AnswersMatch, NothingLost and
SteppingCount. An env with an action outstanding is in one of five places: in the hands of a
client, in the queue, with a worker, in a row, or in a returned batch. The invariant says that no
env is in two of them (DisjointInv) or twice in one (OnceInv) and that each outstanding env is in
one unless the pool is being destroyed (WholeInv); the others say what is known of it there:
that its slice carries what the client asked (AskInv), that until its step it is as the client
saw it last and from then on its row has the answer (AnswerInv), and that the slices without an
env come from the destructor (SliceInv).

**Trading** (TradingProofs), for any file, batch of rows, delay, set of prices and quotes, and
size of the table: ReadsEveryRow, DelaysHold, OnlyLateQuotesSurvive, OneFate, SignalsOfEpisode,
RewardsAddUp and, while averages are integers, EquityIsCash.

* Rows: the batch in memory is the sorted rows of a stretch of the file that ends where the
  reader stands (ReaderInv). So the next row is the next of the batch or, at its end, the first
  of the next stretch, which is empty only if the file is.
* Orders: a buffer keeps orders under their own times (IsBuffer), so what is due is decided by
  the order and not by where it waits. LateInv closes OnlyLateQuotesSurvive under steps: a quote
  still on its way, placed before the last cancel, was not due at it.
* Fates: FateInv, on top of the other invariant, says where an order is by its id: each place has
  an id once (PlacesInv), new and filled orders on their way are neither in the book nor reported
  nor in the position, and these three exclude each other (OnePlaceInv). A cancel on its way is
  beside these: its order has arrived, and if it still rests it is marked (CancelInv), so it is
  not cancelled again; and it may be filled first. A row of the market moves many orders at once
  (ExecuteMoves): some arrive, are dropped or go into the book, some of these and of those in the
  book go back into `timed_buffer` as fills, and fills that were waiting are reported, none of
  them twice (ExecuteReportsFresh).
* Signals: the table holds the last NUM_ROWS books of the episode around its end, so that each
  new row moves every lag by one (AddRow), the end of the table included.
* Rewards: the rewards so far are always `previous_buy_sell_diff` less `previous_fees`, as each
  reward is a difference of the two (RewardInv). Between two steps these are what the info said
  at the last one, and so the fees and the distance of the position at the last prices, or
  nothing before the first step and at an end where the info had been moved out.
* Position: EquityIsCash has a hypothesis, that the divisions of the fills leave no remainder
  (ExactFills). The code divides doubles and rounds; the model divides integers, and a remainder
  would be money lost. It can not be dropped: a fill with a remainder breaks the equation. TLC
  finds that it holds in every state of the instance of `trading`, whose prices are multiples of
  5040. Given it, OnFillAccounts goes through what a fill may be: it opens the position, adds to
  it, takes a part, closes it, or closes and reverses it. In each it moves as much in the position
  as outside. This needs that an open position has a price above zero, since `pnl` takes a price
  of zero for no position; hence the second part of the invariant (PriceInv), that a fill has such
  a price: a bid is above the best bid when it is filled, and an ask was when it arrived.
  FillsAccount takes the fills of a row together, of which FirstFills gives the position before
  each.
* What the fold of a sequence of fills returns needs that the fold exists. The prover has no
  induction over sequences; FoldExists gets by with the least member of a set of numbers for
  which it fails; FoldStays and FoldHolds, and their uses for positions (OnFillFold) and reports
  (ReportsFold, ReportFoldFresh) and money (CashSteps), follow.

Four definitions were restated for these proofs: the sorted set of CsvReader and PlayerBatch is a
function (SortedSets) and not an operator of the community modules, SimExchange adds sets of
orders to its buffer and not one order after the other, OneFate counts a set of places and not
with a fold, and PlayersFollowEnvs compares sequences of rows. TLC finds the same reachable
states before and after.

**LockFreeOrderBookBuffer** (first part of LiveTradingProofs), for any size and any number of laps:
BooksInOrder. The code has no count of books, only a sequence number in each slot. The invariant
(RingInv) ties each slot to positions: the unread books `consumed + 1 .. written` are in the
slots from `read_index` on and each has its number in its slot, the free positions from
`write_index` on have free slots, and the two ranges together go round the ring once. A step
moves the end of one range; CommonFacts says that the index one further is the slot of the
next position (NextSlot), also across the end of the ring (NextLap), and that no other position
of the lap shares it.

**LiveTrading** (LiveTradingProofs): every step of the live system, whatever the threads, the
network and the server do, is a step of the ring or leaves it alone (ImplementsRing), as the io
thread is its only writer and the env its only reader, also across restarts. So BooksInOrder
holds of the live system for every scenario (LiveBooksInOrder), of which the run checks six.

OneWriteCorrect shows OneWriteAtATime, again for every scenario, and for any finite set of sides.
The property counts the places a write of a stream can be in. The invariant (OnePlace) says that
they exclude each other: the next instruction of a thread, the operations pending on the stream,
the handlers that are ready; and that the flag is up while there is one. Most steps bring no
write anywhere (NoNewWriter, NoNewWrite, Harmless); a few move it from one place to the next.
Two more conjuncts carry the case of the market connection, whose flag is tested before its lock
is taken (LockInv): only the io thread writes there (TodoInv: the env's instructions name the
trading connection), and nobody is between the test and the write unless it is the next thing it
does.

OneOrderCorrect shows OneOrderPerSide: while the first connection stands, a side has one order at
the server, for every scenario and any sides and prices. The property is not inductive, as what
arrives at the server was decided when the env sent it. Messages keep their order from the queue
over the one write to the server, so the invariant looks along this line. An order in it is
settled (Settled): before it comes a cancel of its side with no other order of the side between
them, or no order of the side is before it at all, and none rests. An order is sent only when it
would be settled at the end of the queue (EnvInv): the env has at most a cancel and an order left
to send, and the io thread sends no order. A message that is queued, taken to be written or
carried out leaves the others settled (Pushed, Popped, Landed), and by the invariant of the
writes at most one is between the queue and the server (OneFlies).

All this needs that no message is lost on the way, so that the trading stream is never replaced.
OneLife says that of connect, handshake and read it has one in all that is pending, completed or
about to be begun, and LifeInv that each is begun and completes in the phase it is for; so none of
them fails without a fault, nor does a write, as the stream is open while messages are under way,
and the context never runs out of work. Before the first start nothing happens but the reset
itself (Before). After a fault, or a second start, the invariant claims nothing, as the property
does: a cancel may be lost with its connection. TLC checked OneOrderInv on the instance of `live`
and on a larger one, with two sides and three steps, before it was proved.

Only model-checked: all liveness, as fairness and ENABLED are outside the prover. Every safety
property of a passing run is a theorem.

## 5. Not modelled

* The typed arrays, dictionaries and specs, the Python binding, adapters and scripts: conversions
  and configuration without state. The retry of `recv` in `python/litepool.py` happens only when
  nothing was sent.
* Exceptions thrown by an environment, timing statistics, CPU affinity.
* In the trading env: the balance-dependent size and skew of quotes (left open), an account worth
  nothing (whose leverage has the other sign), drawdown and observations (floating-point formulas
  without control; `computeState` gives `std::copy_n` its source and destination the wrong way
  round, env_adaptor.cc:104-106, so the observations stay zero, which concerns no property here),
  `InverseInstrument` (its profit is a ratio of prices, which integers cannot follow), `market()`
  and amended orders (unused).
* In the live exchange: `DeribitREST` and `fetchPosition`, a look-up that throws out of `start`,
  deeper levels of a book, notifications with several fills. `front()` of an empty queue, which
  `write_next_market_message` can reach, is undefined and taken to end the process.
* Memory order: atomic operations are sequentially consistent in the pool (default arguments)
  and in the models. The ring of books uses acquire and release on the sequence number that both
  ends meet in, which orders the book it guards and is all the proof uses. Plain data of the
  pool is ordered by the semaphores, which NoSlotRace, NoWriterLeft and SlicesDisjoint check.
  The flags of DeribitClient are `std::atomic<bool>` (rltrader/deribit_client.h:110-133), also
  where they are read without the lock; the queue that `write_next_market_message` looks at
  outside its lock is not, and is modelled as read at once.

More than half of the lines of the repository's source are a vendored test framework
(`rltrader/doctest.h`) and the tests (`rltrader/testcases.cc`); the rest of what is not mapped is
conversions, configuration and formulas as above.

## 6. Plan

Done: the pool with its queues, the simulated and the live trading env; proofs of their safety
properties and of the three refinements. Next: `fetchPosition` between the restart of the client
and the first fills.
