----------------------------- MODULE LiveTrading -----------------------------
(***************************************************************************)
(* The trading environment on the live exchange: what the thread of an env *)
(* asks of DeribitExchange (strategy.cc and env_adaptor.cc), with the io   *)
(* thread, the network and the server.                                     *)
(***************************************************************************)
EXTENDS DeribitExchange

VARIABLES resets, steps

vars == <<clientVars, bufferVars, exchangeVars, resets, steps, bound>>

Uncounted == UNCHANGED <<resets, steps, bound>>

Init == InitClient /\ InitBuffer /\ InitExchange /\ resets = 0 /\ steps = 0

Idle == todo["env"] = <<>>
Asks(s) == todo' = [todo EXCEPT !["env"] = s]
Unasked ==
  UNCHANGED <<should_run_, connected, is_writing, message_queue, streamVars, io, stopped, faults,
              bufferVars, exchangeVars>>

\* Strategy::reset.
Reset ==
  /\ Idle /\ resets < bound.resets
  /\ Asks(<<Call("stop", "trading"), Call("clear", "trading"), Call("start", "trading")>>)
  /\ resets' = resets + 1
  /\ UNCHANGED <<steps, bound>>
  /\ Unasked

Place(s, price) == [do |-> "quote", c |-> "trading", m |-> [kind |-> "place", side |-> s, price |-> price]]
Quotes(ps) == LET ss == SetToSeq(Sides) IN [k \in DOMAIN ss |-> Place(ss[k], ps[ss[k]])]
ReadBook == <<Call("next_read", "market"), Call("fills", "market"), Call("done_read", "market")>>

\* Strategy::quote cancels everything before it quotes; EnvAdaptor::next reads
\* two books.
Step ==
  /\ Idle /\ resets > 0 /\ steps < bound.steps
  /\ \E ps \in [Sides -> Prices] :
       Asks(<<Send("trading", [kind |-> "cancel_all"])>> \o Quotes(ps) \o ReadBook \o ReadBook)
  /\ steps' = steps + 1
  /\ UNCHANGED <<resets, bound>>
  /\ Unasked

EnvAct == Reset \/ Step

EnvRuns ==
  /\ \/ EnvStep /\ UNCHANGED <<bufferVars, exchangeVars>>
     \/ Operation
  /\ Uncounted

IoRuns ==
  /\ \/ IoStep /\ UNCHANGED <<bufferVars, exchangeVars>>
     \/ Callback
  /\ Uncounted

Network(c) == (NewStep(c) \/ Deliver(c) \/ Arrive(c) \/ Disturb(c)) /\ Uncounted

Next ==
  \/ EnvAct \/ EnvRuns \/ IoRuns
  \/ \E c \in Channels : Network(c)
  \/ Fill /\ Uncounted

Spec == Init /\ [][Next]_vars

\* Both threads go on with what they have begun, and what is under way on a
\* connection that the network lets through completes.
Fairness ==
  /\ WF_vars(EnvRuns) /\ WF_vars(IoRuns)
  /\ \A c \in Channels :
       /\ WF_vars(NewStep(c) /\ Uncounted)
       /\ WF_vars(Deliver(c) /\ Uncounted)
       /\ WF_vars(Arrive(c) /\ Uncounted)

FairSpec == Spec /\ Fairness
-----------------------------------------------------------------------------
(* Properties *)

Writing(c) ==
  {t \in Threads : IsNext(t, "async_write") /\ Head(todo[t]).c = c}
Writes(c) ==
  Cardinality(Writing(c)) + Cardinality({o \in pending[c] : o.op = "write"})
    + Cardinality({k \in DOMAIN handlers : handlers[k].c = c /\ handlers[k].op = "write"})

\* Both threads send, and a stream takes one write at a time: between the
\* locked test of the flag and the end of the handler of the write there is no
\* second one, also when the stream is replaced meanwhile (lines 481-557).
OneWriteAtATime == \A c \in Channels : Writes(c) <= IF is_writing[c] THEN 1 ELSE 0

\* The first connection, as long as it is not lost.
Undisturbed == resets = 1 /\ faults = 0

\* The io thread is in get_write_slot and the ring is full.
IoWaits == IsNext("io", "get_write_slot") /\ ~Free(write_index)

\* A new quote takes the place of the old one: whatever was asked for at what
\* moment, an order of a side reaches the server after the cancel of the one
\* before it (deribit_exchange.cc:129-146, deribit_client.cc:481-557).
OneOrderPerSide ==
  Undisturbed => \A s \in Sides : Cardinality({q \in resting : q.side = s}) <= 1

\* No message is forgotten in the queue, though its sender saw a write under
\* way and left it to the handler (send_trading_message and the handler of
\* write_next_trading_message), unless the io thread waits for the env to read.
QueuedIsWritten ==
  \A c \in Channels :
    Undisturbed /\ message_queue[c] # <<>>
      ~> \/ message_queue[c] = <<>> /\ ~is_writing[c]
         \/ ~Undisturbed \/ ~should_run_ \/ IoWaits

\* stop returns, whatever is under way (lines 60-99), unless the io thread waits
\* in get_write_slot for room in the ring.  Then it does not: the env, which
\* would have to read, waits for that thread in join (line 84).
StopReturns == IsNext("env", "stop") /\ should_run_ ~> io \in {"none", "crashed"} \/ IoWaits

\* Refuted.  A client that was started again authenticates itself, if the
\* network does its part ("Start/Stop the client", deribit_client.h:50).
StartedClientTalks ==
  io = "running" /\ resets = bound.resets /\ "trading" \in bound.reachable /\ faults = 0
    ~> faults > 0 \/ ~should_run_ \/ (phase["trading"] = "open" /\ authed)
=============================================================================
