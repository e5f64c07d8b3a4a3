SPECIFICATION PlacementSpec
CONSTANTS
  a = a
  b = b
  Nothing = Nothing
  Shard <- TwoShards
  EtcdFaults = TRUE
  Unit = 4
  Time <- Times
  MaxResponses = 3
  MaxChanges = 3
SYMMETRY Symmetry
INVARIANT ChosenIsFastest
INVARIANT TimeWithinAnswers
