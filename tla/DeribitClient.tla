---------------------------- MODULE DeribitClient ----------------------------
(***************************************************************************)
(* rltrader/deribit_client.cc: two websocket connections to the exchange,  *)
(* one for books and one for orders, served by one thread, "io".  The      *)
(* thread of the env, "env", starts and stops the client and sends orders. *)
(*                                                                         *)
(* Boost.Asio and Beast are modelled from how they are used: an operation  *)
(* started on a stream is pending until the network completes it, then its *)
(* handler is queued, and the io thread runs the handlers one by one.      *)
(* Replacing a stream aborts what is pending on it, and an operation that  *)
(* the stream is not ready for completes with an error.                    *)
(*                                                                         *)
(* todo[t] is what thread t has yet to do, a sequence of instructions; the *)
(* steps of sending a message are instructions of their own, because the   *)
(* two threads interleave between them.                                    *)
(***************************************************************************)
EXTENDS Integers, Sequences, FiniteSets, SequencesExt

Channels == {"market", "trading"}
Threads == {"env", "io"}

\* What bounds a behaviour: the connections that the network lets through,
\* the connections lost and look-ups failed, the streams created, how often
\* the env resets and steps, and the books and fills of the server.
Scenario ==
  [reachable : SUBSET Channels, faults : Nat, streams : Nat, resets : Nat, steps : Nat,
   books : Nat, fills : Nat]

CONSTANT Scenarios

ASSUME ClientAssumption == Scenarios \subseteq Scenario

VARIABLES should_run_, connected, is_writing, message_queue,  \* by channel
          phase,       \* phase[c]: how far the stream of c has come
          pending,     \* pending[c]: the operations under way on the stream of c
          handlers,    \* completion handlers that are ready, in order
          io,          \* io thread: "none", "running", "exited" or "crashed"
          stopped,     \* ioc_->stop() was called
          todo,
          bound,       \* the scenario of the behaviour
          faults, streams

streamVars == <<phase, pending, handlers, streams>>
clientVars ==
  <<should_run_, connected, is_writing, message_queue, streamVars, io, stopped, todo, faults>>

InitClient ==
  /\ bound \in Scenarios
  /\ should_run_ = FALSE
  /\ connected = [c \in Channels |-> FALSE]
  /\ is_writing = [c \in Channels |-> FALSE]
  /\ message_queue = [c \in Channels |-> <<>>]
  /\ phase = [c \in Channels |-> "none"]
  /\ pending = [c \in Channels |-> {}]
  /\ handlers = <<>>
  /\ io = "none" /\ stopped = FALSE
  /\ todo = [t \in Threads |-> <<>>]
  /\ faults = 0 /\ streams = 0

\* Operations on a stream; m is what a write writes and a read has read.
Nothing == [kind |-> "nothing"]
Op(what, m) == [op |-> what, m |-> m]
Connect == Op("connect", Nothing)
Handler(c, o, ok) == [c |-> c, op |-> o.op, m |-> o.m, ok |-> ok]

\* Instructions.
Call(what, c) == [do |-> what, c |-> c, m |-> Nothing]
Send(c, m) == [do |-> "send", c |-> c, m |-> m]

-----------------------------------------------------------------------------
(* Threads and streams *)

IsNext(t, what) == todo[t] # <<>> /\ Head(todo[t]).do = what

\* Thread t has done its next instruction, and does those of s before the rest.
Proceed(t, s) == todo' = [todo EXCEPT ![t] = s \o Tail(@)]

\* The phase in which a stream is ready for an operation, and the one after.
\* The TLS and the websocket handshake, each started by the handler of the
\* step before it, are one step here.
ReadyFor(op) ==
  CASE op = "connect" -> "new" [] op = "handshake" -> "connected" [] OTHER -> "open"
After(op) == IF op = "connect" THEN "connected" ELSE "open"

\* An operation is started on the stream of c; hs are the handlers ready.
Begin(c, o, hs) ==
  IF phase[c] = ReadyFor(o.op) /\ \A p \in pending[c] : p.op # o.op
  THEN pending' = [pending EXCEPT ![c] = @ \cup {o}] /\ handlers' = hs
  ELSE handlers' = Append(hs, Handler(c, o, FALSE)) /\ UNCHANGED pending

Aborted(c) == {[k \in DOMAIN ops |-> Handler(c, ops[k], FALSE)] : ops \in SetToSeqs(pending[c])}

\* setup_market_connection or setup_trading_connection: a new stream, which
\* connects at once, unless the look-up of the host throws.  What is pending
\* on the stream it replaces is aborted.
SetUp(c, throws, hs) ==
  /\ streams < bound.streams
  /\ throws => faults < bound.faults
  /\ streams' = streams + 1
  /\ faults' = faults + (IF throws THEN 1 ELSE 0)
  /\ phase' = [phase EXCEPT ![c] = "new"]
  /\ pending' = [pending EXCEPT ![c] = IF throws THEN {} ELSE {Connect}]
  /\ \E aborted \in Aborted(c) : handlers' = hs \o aborted

-----------------------------------------------------------------------------
(* Sending, from either thread *)

\* place_order, the cancels, subscribe_* and authenticate, up to the push of
\* send_*_message.  Without a connection the message is dropped.  The payload
\* is a temporary that is gone when async_write returns; a client stream has
\* masked it into its own buffer by then, if it is short as these are.
send_message(t) ==
  /\ IsNext(t, "send")
  /\ LET i == Head(todo[t]) IN
       IF connected[i.c]
       THEN /\ message_queue' = [message_queue EXCEPT ![i.c] = Append(@, i.m)]
            /\ Proceed(t, <<Call("test", i.c)>>)
       ELSE Proceed(t, <<>>) /\ UNCHANGED message_queue
  /\ UNCHANGED <<should_run_, connected, is_writing, streamVars, io, stopped, faults>>

\* The test of is_writing outside the lock.
test_writing(t) ==
  /\ IsNext(t, "test")
  /\ LET c == Head(todo[t]).c IN
       Proceed(t, IF is_writing[c] THEN <<>> ELSE <<Call("write", c)>>)
  /\ UNCHANGED <<should_run_, connected, is_writing, message_queue, streamVars, io, stopped, faults>>

TakeNext(t, c) ==
  /\ is_writing' = [is_writing EXCEPT ![c] = TRUE]
  /\ message_queue' = [message_queue EXCEPT ![c] = Tail(@)]
  /\ Proceed(t, <<[do |-> "async_write", c |-> c, m |-> Head(message_queue[c])]>>)

\* Mutants (see the README): the flag is not tested again under the lock, and
\* the handler does not go on with what was queued meanwhile.
TestsOutside(c) == message_queue[c] # <<>> /\ phase[c] # "none" /\ connected[c]
NothingMore(c) == FALSE

MoreToWrite(c) == message_queue[c] # <<>>
MayWrite(c) == message_queue[c] # <<>> /\ ~is_writing[c] /\ phase[c] # "none" /\ connected[c]

\* write_next_trading_message while the lock is held ...
write_next_message(t) ==
  /\ IsNext(t, "write") /\ Head(todo[t]).c = "trading"
  /\ IF MayWrite("trading") THEN TakeNext(t, "trading")
     ELSE Proceed(t, <<>>) /\ UNCHANGED <<is_writing, message_queue>>
  /\ UNCHANGED <<should_run_, connected, streamVars, io, stopped, faults>>

\* ... and write_next_market_message, which looks at the queue and at the flag
\* before it takes the lock.  stop may clear the queue in between: to take the
\* front of an empty queue is undefined, and taken to end the process.
write_next_market_message(t) ==
  /\ \/ /\ IsNext(t, "write") /\ Head(todo[t]).c = "market"
        /\ Proceed(t, IF message_queue["market"] # <<>> /\ ~is_writing["market"]
                      THEN <<Call("write_locked", "market")>> ELSE <<>>)
        /\ UNCHANGED <<is_writing, message_queue, io>>
     \/ /\ IsNext(t, "write_locked")
        /\ IF phase["market"] = "none" \/ ~connected["market"]
           THEN Proceed(t, <<>>) /\ UNCHANGED <<is_writing, message_queue, io>>
           ELSE IF message_queue["market"] # <<>> THEN TakeNext(t, "market") /\ UNCHANGED io
           ELSE Proceed(t, <<>>) /\ io' = "crashed" /\ UNCHANGED <<is_writing, message_queue>>
  /\ UNCHANGED <<should_run_, connected, streamVars, stopped, faults>>

\* After the lock was released: on the stream that is there by then.
async_write(t) ==
  /\ IsNext(t, "async_write")
  /\ Begin(Head(todo[t]).c, Op("write", Head(todo[t]).m), handlers)
  /\ Proceed(t, <<>>)
  /\ UNCHANGED <<should_run_, connected, is_writing, message_queue, phase, streams, io, stopped,
                 faults>>

Sends(t) ==
  \/ send_message(t) \/ test_writing(t)
  \/ write_next_message(t) \/ write_next_market_message(t) \/ async_write(t)

-----------------------------------------------------------------------------
(* The io thread *)

Running == io = "running" /\ ~stopped /\ todo["io"] = <<>>

\* run_io_context runs the next handler.
Handles(op, ok) ==
  /\ Running /\ handlers # <<>>
  /\ Head(handlers).op = op /\ Head(handlers).ok = ok

\* What is sent first on a new connection.
Hello(c) == [kind |-> IF c = "market" THEN "subscribe" ELSE "auth"]

\* The handlers of do_*_connect: each starts the next step.
on_connect ==
  /\ Handles("connect", TRUE)
  /\ Begin(Head(handlers).c, Op("handshake", Nothing), Tail(handlers))
  /\ UNCHANGED <<should_run_, connected, is_writing, message_queue, phase, streams, io, stopped,
                 todo, faults>>

on_handshake ==
  /\ Handles("handshake", TRUE)
  /\ LET c == Head(handlers).c IN
       /\ connected' = [connected EXCEPT ![c] = TRUE]
       /\ todo' = [todo EXCEPT !["io"] = <<Send(c, Hello(c)), Call("first_read", c)>>]
  /\ handlers' = Tail(handlers)
  /\ UNCHANGED <<should_run_, is_writing, message_queue, phase, pending, streams, io, stopped, faults>>

\* do_*_read, again after each message as long as the client is to run.
do_read ==
  /\ IsNext("io", "first_read") \/ IsNext("io", "read")
  /\ IF should_run_ \/ IsNext("io", "first_read")
     THEN Begin(Head(todo["io"]).c, Op("read", Nothing), handlers)
     ELSE UNCHANGED <<pending, handlers>>
  /\ Proceed("io", <<>>)
  /\ UNCHANGED <<should_run_, connected, is_writing, message_queue, phase, streams, io, stopped,
                 faults>>

\* The handler of a read: what it does with the message is in task.
on_read(task) ==
  /\ Handles("read", TRUE)
  /\ todo' = [todo EXCEPT !["io"] = task \o <<Call("read", Head(handlers).c)>>]
  /\ handlers' = Tail(handlers)
  /\ UNCHANGED <<should_run_, connected, is_writing, message_queue, phase, pending, streams, io,
                 stopped, faults>>

on_write ==
  /\ Handles("write", TRUE)
  /\ LET c == Head(handlers).c IN
       /\ is_writing' = [is_writing EXCEPT ![c] = FALSE]
       /\ todo' = [todo EXCEPT !["io"] = IF MoreToWrite(c) THEN <<Call("write", c)>> ELSE <<>>]
  /\ handlers' = Tail(handlers)
  /\ UNCHANGED <<should_run_, connected, message_queue, phase, pending, streams, io, stopped, faults>>

\* The error of a write sets the connection up again at once ...
on_write_error ==
  /\ Handles("write", FALSE)
  /\ LET c == Head(handlers).c IN
       /\ is_writing' = [is_writing EXCEPT ![c] = FALSE]
       /\ connected' = [connected EXCEPT ![c] = FALSE]
       /\ \E throws \in BOOLEAN : SetUp(c, throws, Tail(handlers))
  /\ UNCHANGED <<should_run_, message_queue, io, stopped, todo>>

\* ... any other one after a second, in which the thread sleeps (handle_error).
on_error ==
  /\ \E op \in {"connect", "handshake", "read"} : Handles(op, FALSE)
  /\ streams < bound.streams
  /\ LET c == Head(handlers).c IN
       /\ connected' = [connected EXCEPT ![c] = FALSE]
       /\ todo' = [todo EXCEPT !["io"] = <<Call("reconnect", c)>>]
  /\ handlers' = Tail(handlers)
  /\ UNCHANGED <<should_run_, is_writing, message_queue, phase, pending, streams, io, stopped, faults>>

reconnect ==
  /\ IsNext("io", "reconnect")
  /\ LET c == Head(todo["io"]).c IN
       IF connected[c] THEN UNCHANGED <<streamVars, faults>>
       ELSE \E throws \in BOOLEAN : SetUp(c, throws, handlers)
  /\ Proceed("io", <<>>)
  /\ UNCHANGED <<should_run_, connected, is_writing, message_queue, io, stopped>>

\* ioc_->run() returns when nothing is pending on any stream: restart, and
\* setup_connections, market first.  A look-up that throws ends it, and with
\* the one for books the stream for orders is left as it is.
run_again ==
  /\ Running /\ should_run_ /\ handlers = <<>>
  /\ \A c \in Channels : pending[c] = {}
  /\ \E c \in Channels : ~connected[c]
  /\ streams + 1 < bound.streams
  /\ \E throwing \in {{}} \cup {{c} : c \in Channels} :
       LET made == IF throwing = {"market"} THEN {"market"} ELSE Channels IN
       /\ throwing # {} => faults < bound.faults
       /\ faults' = faults + Cardinality(throwing)
       /\ streams' = streams + Cardinality(made)
       /\ phase' = [c \in Channels |-> IF c \in made THEN "new" ELSE phase[c]]
       /\ pending' = [c \in Channels |-> IF c \in made \ throwing THEN {Connect} ELSE {}]
  /\ UNCHANGED <<should_run_, connected, is_writing, message_queue, handlers, io, stopped, todo>>

\* The loop of run_io_context ends.
io_exit ==
  /\ io = "running" /\ todo["io"] = <<>>
  /\ stopped
  /\ io' = "exited"
  /\ UNCHANGED <<should_run_, connected, is_writing, message_queue, streamVars, stopped, todo, faults>>

-----------------------------------------------------------------------------
(* start and stop *)

\* should_run_, and the queues are cleared.
stop_begin ==
  /\ IsNext("env", "stop")
  /\ IF should_run_
     THEN /\ should_run_' = FALSE
          /\ message_queue' = [c \in Channels |-> <<>>]
          /\ Proceed("env", <<Send("trading", [kind |-> "cancel_all"]), Call("ioc_stop", "trading"),
                              Call("join", "trading")>>)
     ELSE Proceed("env", <<>>) /\ UNCHANGED <<should_run_, message_queue>>
  /\ UNCHANGED <<connected, is_writing, streamVars, io, stopped, faults>>

\* Mutant (see the README): the io thread is left to find out by itself.
LeavesContext == FALSE
StopsContext == TRUE

ioc_stop ==
  /\ IsNext("env", "ioc_stop")
  /\ stopped' = StopsContext
  /\ Proceed("env", <<>>)
  /\ UNCHANGED <<should_run_, connected, is_writing, message_queue, streamVars, io, faults>>

\* The join, and the reset of the streams and of the context, with which the
\* handlers that have not run are gone.
join ==
  /\ IsNext("env", "join")
  /\ io = "exited"
  /\ io' = "none" /\ stopped' = FALSE
  /\ phase' = [c \in Channels |-> "none"]
  /\ pending' = [c \in Channels |-> {}]
  /\ handlers' = <<>>
  /\ Proceed("env", <<>>)
  /\ UNCHANGED <<should_run_, connected, is_writing, message_queue, streams, faults>>

start ==
  /\ IsNext("env", "start")
  /\ should_run_' = TRUE
  /\ streams + 1 < bound.streams
  /\ streams' = streams + 2
  /\ phase' = [c \in Channels |-> "new"]
  /\ pending' = [c \in Channels |-> {Connect}]
  /\ io' = "running"
  /\ Proceed("env", <<>>)
  /\ UNCHANGED <<connected, is_writing, message_queue, handlers, stopped, faults>>

IoStep ==
  \/ Sends("io")
  \/ on_connect \/ on_handshake \/ do_read
  \/ on_write \/ on_write_error \/ on_error \/ reconnect
  \/ run_again \/ io_exit

EnvStep == Sends("env") \/ stop_begin \/ ioc_stop \/ join \/ start

-----------------------------------------------------------------------------
(* The network *)

Completes(c, o, result) ==
  /\ o \in pending[c]
  /\ pending' = [pending EXCEPT ![c] = @ \ {o}]
  /\ handlers' = Append(handlers, result)
  /\ UNCHANGED <<should_run_, connected, is_writing, message_queue, streams, io, stopped, todo>>

\* A step of the connection is made.
Establish(c) ==
  /\ c \in bound.reachable /\ phase[c] # "lost"
  /\ \E o \in pending[c] :
       /\ o.op \in {"connect", "handshake"}
       /\ phase' = [phase EXCEPT ![c] = After(o.op)]
       /\ Completes(c, o, Handler(c, o, TRUE))
  /\ UNCHANGED faults

\* A message has been written, or one has been read.
Written(c, m) ==
  phase[c] = "open" /\ Completes(c, Op("write", m), Handler(c, Op("write", m), TRUE))
  /\ UNCHANGED <<phase, faults>>
Read(c, m) ==
  phase[c] = "open" /\ Completes(c, Op("read", Nothing), Handler(c, Op("read", m), TRUE))
  /\ UNCHANGED <<phase, faults>>

\* The connection is lost; what is pending on it fails.
Lose(c) ==
  /\ phase[c] \notin {"none", "lost"}
  /\ faults < bound.faults
  /\ faults' = faults + 1
  /\ phase' = [phase EXCEPT ![c] = "lost"]
  /\ UNCHANGED <<should_run_, connected, is_writing, message_queue, pending, handlers, streams, io,
                 stopped, todo>>

Fails(c) ==
  /\ phase[c] = "lost"
  /\ \E o \in pending[c] : Completes(c, o, Handler(c, o, FALSE))
  /\ UNCHANGED <<phase, faults>>
=============================================================================
