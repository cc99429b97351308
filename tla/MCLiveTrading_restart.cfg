CONSTANTS
  BUFFER_SIZE = 2
  Scenarios <- RestartScenarios
  Sides = {"BUY"}
  Prices = {1, 2}
SPECIFICATION FairSpec
CHECK_DEADLOCK FALSE
PROPERTY StartedClientTalks
