SPECIFICATION BoundedSpec
CONSTANTS
  w1 = w1
  w2 = w2
  c1 = c1
  c2 = c2
  None = None
  Workers = {w1, w2}
  Clients = {c1, c2}
  MaxAttempts = 2
  FailLimit = 1
  MaxBatchSize = 2
  MaxCrashes = 1
  MaxRetries = 1
SYMMETRY Identical
INVARIANTS RoutedIsExecuted OrphansAreSilent
PROPERTIES ImplementsPromise
