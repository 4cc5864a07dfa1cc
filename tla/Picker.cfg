SPECIFICATION Spec
CONSTANTS
  w1 = w1
  w2 = w2
  w3 = w3
  w4 = w4
  None = None
  Workers = {w1, w2, w3, w4}
  Metrics <- Unequal
  MaxTop = 3
SYMMETRY Identical
INVARIANTS BestAreOffered TopShareCalls
