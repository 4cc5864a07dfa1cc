SPECIFICATION LoadSpec
CONSTANTS
  k1 = k1
  k2 = k2
  Clients = {k1, k2}
  Calls <- CallsOfClients
INVARIANTS CutOffHasCause ReportAddsUp CountsAreAnswers
PROPERTIES ShutdownEnds LoadTestEnds
