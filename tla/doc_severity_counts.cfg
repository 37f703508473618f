CONSTANTS
  EventIds <- MCEventIds
  Txns <- MCTxns
  Merchants <- MCMerchants
  Names <- MCNames
  Currencies <- MCCurrencies
  NULL = NULL
  DayLength = 2
  Clients = {c1}
  Batches <- MCBatches
  Cutoffs <- MCCutoffs
  Filters <- OneFilter
  GroupBys <- MCGroupBys
  TypeSets <- MCTypeSets
  Severities = {NULL, 3}
  Cuts <- MCCuts
  MaxCommits = 2
  MaxReads = 1
SPECIFICATION Spec
CHECK_DEADLOCK FALSE
INVARIANT CountsDescribeItems
