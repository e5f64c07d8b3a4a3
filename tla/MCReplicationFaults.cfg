SPECIFICATION RFairSpec
CONSTANTS
  d1 = d1
  d2 = d2
  s1 = s1
  s2 = s2
  Doc <- OneDoc
  Searcher <- TwoSearchers
  SizeMod = 64
  Threshold = 1
  MergeAmount = 6
  EnableMerge = TRUE
  Overwrite = TRUE
  MaxBatch = 1
  MaxAdds = 2
  Faults = TRUE
  MaxStarts = 2
  MaxLives = 1
INVARIANT RTypeOK
INVARIANT ReplicaComplete
PROPERTY TaskEnds
PROPERTY UpdatesDrain
CHECK_DEADLOCK FALSE
