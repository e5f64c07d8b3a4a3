SPECIFICATION Spec
CONSTANTS
  Doc <- ThreeDocs
  SizeMod = 64
  Threshold = 2
  MergeAmount = 5
  EnableMerge = TRUE
  Overwrite = TRUE
  MaxBatch = 2
  MaxAdds = 5
  Dist <- TwoDistances
  MaxK = 2
INVARIANT TypeOK
INVARIANT NoLoss
INVARIANT LevelsDisjoint
INVARIANT Bookkeeping
INVARIANT PublishedMatches
INVARIANT NoEmptyBatch
INVARIANT SearchExact
PROPERTY MergePreservesSearch
