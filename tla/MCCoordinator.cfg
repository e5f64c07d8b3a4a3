SPECIFICATION FairSpec
CONSTANTS
  a = a
  b = b
  h1 = h1
  h2 = h2
  All = All
  Shard <- TwoShards
  Host <- TwoHosts
  Serves <- Configured
  kHostErrorsLimit = 1
INVARIANT AnswersComplete
PROPERTY EvictionNeedsFailure
PROPERTY EvictedShardIsListed
PROPERTY ImplementsRegistry
PROPERTY RequestEnds
PROPERTY DeadIsEvicted
