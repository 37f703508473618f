CONSTANTS
  EventIds <- MCEventIds
  Txns <- MCTxns
  Merchants <- MCMerchants
  Names <- MCNames
  Currencies <- MCCurrencies
  NULL = NULL
  Workers = {w1, w2, w3}
  Batches <- MCBatches
  MaxSends = 4
SPECIFICATION Spec
CHECK_DEADLOCK FALSE
INVARIANTS
  ConstraintsNeverBite
  DirtyReadsExplained
  FailuresLeaveNothing
PROPERTY SharedImplementsEventLog
