CONSTANTS
  EventIds <- MCEventIds
  Txns <- MCTxns
  Merchants <- MCMerchants
  Names <- MCNames
  Currencies <- MCCurrencies
  NULL = NULL
  Workers = {w1, w2}
  MaxBatch = 2
  Batches <- DocBatches
  MaxSends = 2
  MaxCrashes = 0
SPECIFICATION Spec
CHECK_DEADLOCK FALSE
INVARIANT LatestNameWins
