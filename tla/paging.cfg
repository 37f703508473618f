CONSTANTS
  EventIds <- MCEventIds
  Txns <- MCTxns
  Merchants <- MCMerchants
  Names <- MCNames
  Currencies <- MCCurrencies
  NULL = NULL
  DayLength = 2
  Clients = {c1}
  Batches <- MCBatches
  Walks <- MCWalks
  TextOrder <- MCTextOrder
  MaxCommits = 3
  Hours = {2, 3, 4}
SPECIFICATION Spec
CHECK_DEADLOCK FALSE
INVARIANTS
  QuietWalkIsExact
  AgeingHidesNothing
  NothingPassedOver
