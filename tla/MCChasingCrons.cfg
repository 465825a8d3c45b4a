SPECIFICATION FairSpec
CONSTANTS
  w1 = w1
  w2 = w2
  None = None
  Items = {1, 2}
  Workers = {w1, w2}
  Crons <- AllCrons
  Limits = {1, 2}
  MaxFaults = 1
PROPERTIES
  NoticesAreDue
  EveryoneReached
