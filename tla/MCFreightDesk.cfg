SPECIFICATION DeskSpec
CONSTANTS
  SalWindow = 2
  CandidateLimit = 3
  ResultLimit = 2
  Grain = 1
  c1 = c1
  c2 = c2
  s1 = s1
  s2 = s2
  None = None
  NoRate = NoRate
  Typed = Typed
  History = History
  Context <- MCContext
  Quote <- MCQuote
  Session <- MCSession
SYMMETRY Sessions
INVARIANTS RunsOnConfirmedLane LiveQuoteIsResolved EpisodesEndWell
PROPERTIES RateIsStable
CHECK_DEADLOCK FALSE
