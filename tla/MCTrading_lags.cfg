CONSTANTS
  Lines = 9
  Malformed = {4}
  BatchLines = 3
  start_read = 3
  max_read = 6
  delay = 3
  Bids <- MCBids
  Tick = 10080
  IdGaps = {1}
  Spreads = {0}
  Amounts = {1}
  Leverages = {1}
  Precision = 12
  MaxOrders = 8
  makerFee <- MCFee
  NUM_ROWS = 3
  ZeroRow = 0
SPECIFICATION Spec
INVARIANT LastLagIsOldest
\* The env may stop after its last order.
CHECK_DEADLOCK FALSE
