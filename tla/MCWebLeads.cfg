SPECIFICATION FairSpec
CONSTANTS
  HotMin = 3
  ReusableMin = 2
  ColdMax = 2
  PalletLbs = 3
  k1 = k1
  d1 = d1
  d2 = d2
  d3 = d3
  p1 = p1
  p2 = p2
  w1 = w1
  w2 = w2
  Keys = {k1}
  Deliveries = {d1, d2, d3}
  Workers = {w1, w2}
  KeyOf <- MCKeyOf
  Submission <- MCSubmission
  NoSubmission = NoSubmission
  Unseen = Unseen
  Findings <- MCFindings
  MaxFaults = 1
  MaxEdits = 2
  Ops <- MCOps
INVARIANTS
  OneConversion
  ApprovalIsCurrent
  ConvertedIsHandedOff
PROPERTIES
  EveryDeliveryAnswered
  AdmitsOnce
CHECK_DEADLOCK FALSE
