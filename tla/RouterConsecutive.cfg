SPECIFICATION HistorySpec
CONSTANTS
  w1 = w1
  w2 = w2
  c1 = c1
  c2 = c2
  None = None
  Workers = {w1, w2}
  Clients = {c1, c2}
  MaxAttempts = 3
  FailLimit = 3
PROPERTIES ConsecutiveFailures
