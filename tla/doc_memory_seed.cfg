CONSTANTS
  EventIds <- MCEventIds
  Txns <- MCTxns
  Merchants <- MCMerchants
  Names <- MCNames
  Currencies <- MCCurrencies
  NULL = NULL
  SeedFile <- MCSeedFile
  Posts <- MCPosts
  InMemory = TRUE
  SeedOnStartup = TRUE
  ServerChunk = 2
  CliChunks = {1, 3}
  MaxCrashes = 1
  MaxClis = 0
  MaxPosts = 1
SPECIFICATION Spec
CHECK_DEADLOCK FALSE
INVARIANT ServingIsExplorable
