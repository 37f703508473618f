CONSTANTS
  EventIds <- MCEventIds
  Txns <- MCTxns
  Merchants <- MCMerchants
  Names <- MCNames
  Currencies <- MCCurrencies
  NULL = NULL
  Workers = {w1, w2}
  MaxBatch = 2
  Batches <- MCBatches
  MaxSends = 3
  MaxCrashes = 1
SPECIFICATION Spec
CHECK_DEADLOCK FALSE
INVARIANTS
  TypeOK
  ProjectionReflectsLog
  KeysNeverBite
  RepliesTruthful
  ErrorMeansNothingStored
PROPERTIES
  StatusNeverRegresses
  ImplementsEventLog
  CommitsAreBatches
  NoRequestHangs
