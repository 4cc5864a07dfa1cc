SPECIFICATION FairSpec
CONSTANTS
  h1 = h1
  l1 = l1
  l2 = l2
  l3 = l3
  Requests = {h1, l1, l2}
  Priority <- PriorityOf
  Timestamp <- TimestampOf
  MaxBatchSize = 2
  NotifyCap = 2
  MaxWaitMs = 50
  HighDepth = 1
  LowDepth = 1
INVARIANTS NoRequestLost SendNeverBlocks AnswerIsOwn NoLostWakeup ShutdownDrains
PROPERTIES ImplementsService QueueIsPickedUp UrgentIsServed ShutdownCompletes
