SPECIFICATION OfficeSpec
CONSTANTS
  x1 = x1
  x2 = x2
  s1 = s1
  s2 = s2
  t1 = t1
  q1 = q1
  o1 = o1
  o2 = o2
  Doc <- MCDoc
  Tag <- MCTag
  LastDay = 2
  Batch = 2
  None = None
  Session <- MCSession
  MaxRequests = 5
  Claims <- MCClaims
  Txs <- MCTxs
  Kinds = {"buyer_claim", "freight_chargeback"}
  Amounts <- MCAmounts
  Balances <- MCBalances
  Intakes <- MCIntakes
  Buyers <- MCBuyers
  OfferSlots <- MCOfferSlots
  Prices = {1, 2}
  MaxMatches = 2
  Importers <- MCImporters
  LastUnit = 2
  LastLine = 1
  BatchSize = 2
  MaxImports = 3
  MaxErrors = 2
  PayoutSlots <- MCPayoutSlots
  Closings <- MCClosings
  Commission <- MCCommission
  Hauls <- MCHauls
  Entries <- MCEntries
  Costs = {0, 1}
  Trades <- MCTrades
  Beginning = {"supplier_ready", "in_progress"}
  TradeRequests = 3
SYMMETRY Symmetry
INVARIANTS StatusFollowsDocuments RecoveriesExact ImportedOnce WholeUnits LedgerIsChain
PROPERTIES WithinBudget MidnightExact LiveMargin AcceptedStands PaymentsStand EndsStand
CHECK_DEADLOCK FALSE
