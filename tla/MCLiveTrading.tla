---------------------------- MODULE MCLiveTrading ----------------------------
EXTENDS LiveTrading

Case(reachable, nfaults, nstreams, nresets, nsteps, nbooks, nfills) ==
  [reachable |-> reachable, faults |-> nfaults, streams |-> nstreams, resets |-> nresets,
   steps |-> nsteps, books |-> nbooks, fills |-> nfills]

\* Two quotes of a side on both connections, which stay up.
Quoting == Case(Channels, 0, 2, 1, 2, 2, 0)
\* More books than the ring holds, and a reset at any moment.
Reading == Case({"market"}, 0, 4, 2, 2, 6, 0)
\* A connection is lost in the middle of a write, and then the client reset.
OrdersLost == Case({"trading"}, 1, 5, 1, 1, 0, 1)
BooksLost == Case({"market"}, 1, 6, 2, 1, 3, 0)
Restarting == Case({"trading"}, 1, 6, 2, 0, 0, 0)
\* No connection comes about, and look-ups throw, when a stream is replaced and
\* when both are set up again.
Unreachable == Case({}, 5, 6, 1, 0, 0, 0)
MCScenarios == {Quoting, Reading, OrdersLost, BooksLost, Restarting, Unreachable}
RestartScenarios == {Case({"trading"}, 0, 4, 2, 0, 0, 0)}
=============================================================================
