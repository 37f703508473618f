CONSTANTS
  EventIds <- MCEventIds
  Txns <- MCTxns
  Merchants <- MCMerchants
  Names <- MCNames
  Currencies <- MCCurrencies
  NULL = NULL
  SeedFile <- MCSeedFile
  Posts <- MCPosts
  InMemory = FALSE
  SeedOnStartup = TRUE
  ServerChunk = 2
  CliChunks = {1, 3}
  MaxCrashes = 2
  MaxClis = 2
  MaxPosts = 1
SPECIFICATION Spec
CHECK_DEADLOCK FALSE
INVARIANTS
  SeedStoredInOrder
  SeedingIsIdempotent
  BootsReplayNothing
PROPERTY
  ServiceComesUp
