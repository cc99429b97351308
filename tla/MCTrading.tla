------------------------------ MODULE MCTrading ------------------------------
EXTENDS Trading

\* Multiples of 5040, so that average prices are integers.  With a spread of
\* 10080 a rise or a fall between neighbours fills quotes as they arrive, and
\* from the lowest to the highest it drops them.
MCBids == {10080, 15120, 25200}

\* A rebate, as by default.
MCFee == -1
=============================================================================
