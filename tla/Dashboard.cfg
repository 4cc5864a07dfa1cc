SPECIFICATION SlowPeersSpec
CONSTANTS
  c1 = c1
  c2 = c2
  w1 = w1
  w2 = w2
  Conns = {c1, c2}
  Workers = {w1, w2}
  MaxCalls = 1
INVARIANTS ClientsAreLive SnapshotsOverlap
PROPERTIES PushReachesReaders GoneAreForgotten
