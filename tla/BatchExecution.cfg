SPECIFICATION BatchSpec
CONSTANTS
  MaxBatchSize = 2
  Latencies = {1, 4, 13}
  MaxBatches = 3
  Payloads <- FewPayloads
  Pixels = 2
  Spoiled <- HasNine
INVARIANTS ScrapeHasCause AverageInRange RuntimeIsComplete BatchesReleaseAll
PROPERTIES ImplementsExecutor
