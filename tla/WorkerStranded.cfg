SPECIFICATION FairSpec
CONSTANTS
  h1 = h1
  l1 = l1
  l2 = l2
  l3 = l3
  Requests = {h1, l1}
  Priority <- PriorityOf
  Timestamp <- TimestampOf
  MaxBatchSize = 1
  NotifyCap = 1
  MaxWaitMs = 50
  HighDepth = 1
  LowDepth = 1
PROPERTIES QueueIsPickedUp
