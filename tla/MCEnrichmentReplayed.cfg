SPECIFICATION Spec
CONSTANTS
  r1 = r1
  r2 = r2
  f1 = f1
  f2 = f2
  w1 = w1
  w2 = w2
  Runs = {r1}
  Fields = {f1}
  Workers = {w1, w2}
  Empty = Empty
  User = User
  None = None
  MaxRequests = 3
  MaxAttempt = 3
INVARIANT
  NeverReplayed
CHECK_DEADLOCK FALSE
