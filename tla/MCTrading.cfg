\* From lines 0, 1, 2, 3 an episode ends past max_read after a batch of two rows
\* or of one, at the end of the file after a whole batch, and within a batch.  It
\* has up to four steps: orders of a step arrive in the next one, the step after
\* that sends their cancels (id 4), and the fourth sees them processed (id 7).
CONSTANTS
  Lines = 9
  Malformed = {8}
  BatchLines = 3
  start_read = 3
  max_read = 7
  delay = 3
  Bids <- MCBids
  Tick = 10080
  IdGaps = {1}
  Spreads = {0}
  Amounts = {1, 2}
  Leverages = {1, 20}
  Precision = 12
  MaxOrders = 7
  makerFee <- MCFee
  NUM_ROWS = 3
  ZeroRow = 0
SPECIFICATION Spec
INVARIANT OneFate
INVARIANT DelaysHold
INVARIANT OnlyLateQuotesSurvive
INVARIANT EquityIsCash
INVARIANT RewardsAddUp
INVARIANT SignalsOfEpisode
PROPERTY ReadsEveryRow
\* The env may stop after its last order.
CHECK_DEADLOCK FALSE
