SPECIFICATION Spec
CONSTANTS
  a = a
  b = b
  k = k
  Contacts = {a, b}
  Calls = {k}
  ContactOf <- MCContactOf
  LegacyLeads <- MCLegacy
  Lookback = 1
  ApiLookback = 2
  CallDays = 1
  BackfillFloor <- MCUnset
  Overlap = 1
  Skew = 1
  PageSize = 1
  MaxTime = 5
  MaxFaults = 1
  MaxEdits = 0
  Ops <- MCImport
PROPERTIES
  CensusIsProven
  NoSeam
