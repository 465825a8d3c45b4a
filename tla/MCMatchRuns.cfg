SPECIFICATION Spec
CONSTANTS
  i1 = i1
  i2 = i2
  b1 = b1
  b2 = b2
  w1 = w1
  w2 = w2
  None = None
  Intakes = {i1, i2}
  Buyers = {b1}
  Workers = {w1, w2}
  Classes = {"retryable", "permanent"}
  Selections <- OneOrBoth
  MaxRequests = 3
SYMMETRY Symmetric
INVARIANTS
  ReceiptsAreExact
CHECK_DEADLOCK FALSE
