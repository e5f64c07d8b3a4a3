SPECIFICATION RSpec
CONSTANTS
  d1 = d1
  d2 = d2
  s1 = s1
  s2 = s2
  Doc <- TwoDocs
  Searcher <- OneSearcher
  SizeMod = 64
  Threshold = 1
  MergeAmount = 6
  EnableMerge = TRUE
  Overwrite = FALSE
  MaxBatch = 1
  MaxAdds = 4
  Faults = FALSE
  MaxStarts = 1
  MaxLives = 2
SYMMETRY Symmetry
INVARIANT AnnouncedIsStored
INVARIANT CurrentIsStored
INVARIANT BucketMatches
INVARIANT ReplicaComplete
CHECK_DEADLOCK FALSE
