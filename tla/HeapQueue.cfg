SPECIFICATION Spec
CONSTANTS
  a1 = a1
  a2 = a2
  a3 = a3
  b1 = b1
  b2 = b2
  b3 = b3
  Requests = {a1, a2, a3, b1, b2, b3}
  Priority <- PriorityOf
  Timestamp <- TimestampOf
  Limits = {1, 2, 4}
INVARIANTS HeapIsSound
PROPERTIES ImplementsRequestQueue
