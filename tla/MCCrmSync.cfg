SPECIFICATION FairSpec
CONSTANTS
  a = a
  b = b
  k = k
  Contacts = {a, b}
  Calls = {k}
  ContactOf <- MCContactOf
  LegacyLeads <- MCLegacy
  Lookback = 3
  ApiLookback = 3
  CallDays = 1
  BackfillFloor = 0
  Overlap = 0
  Skew = 0
  PageSize = 1
  MaxTime = 4
  MaxFaults = 1
  MaxEdits = 1
  Ops <- MCHourly
INVARIANTS
  NoDuplicateLead
  ContactsAcknowledged
  CallsAcknowledged
  UserArchiveStands
PROPERTIES
  SuccessIsComplete
  CatchesUp
  RunsEnd
