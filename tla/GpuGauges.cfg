SPECIFICATION FairGaugesSpec
CONSTANTS
  MaxCalls = 1
  MaxQueued = 52
  BatchSizes = {1, 52}
INVARIANTS GaugesInRange
PROPERTIES GaugesFollowLoad LoadIsReported
