SPECIFICATION FairSpec
CONSTANTS
  r1 = r1
  r2 = r2
  f1 = f1
  f2 = f2
  w1 = w1
  w2 = w2
  Runs = {r1, r2}
  Fields = {f1, f2}
  Workers = {w1, w2}
  Empty = Empty
  User = User
  None = None
  MaxRequests = 3
  MaxAttempt = 3
PROPERTIES
  MergeOnly
  RequestsEnd
CHECK_DEADLOCK FALSE
