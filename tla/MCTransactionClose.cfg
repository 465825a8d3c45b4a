SPECIFICATION Spec
CONSTANTS
  t1 = t1
  s1 = s1
  s2 = s2
  NoSession = NoSession
  Rate = 1
  Unit = 4
  None = None
  Tx <- MCTx
  Move <- MCMove
  Session <- MCSession
  Margins <- MCMargins
  Ops <- MCOps
SYMMETRY Sessions
PROPERTIES CloseIsJustified ClosedLinksFrozen CommissionFrozen 
