SPECIFICATION PayoutSpec
CONSTANTS
  p1 = p1
  p2 = p2
  t1 = t1
  t2 = t2
  s1 = s1
  s2 = s2
  None = None
  PayoutSlots <- MCPayoutSlots
  Closings <- MCClosings
  Commission <- MCCommission
  Session <- MCSession
  MaxRequests = 6
SYMMETRY Symmetry
INVARIANTS PaidOnce
CHECK_DEADLOCK FALSE
