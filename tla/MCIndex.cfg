SPECIFICATION FairSpec
CONSTANTS
  d1 = d1
  d2 = d2
  d3 = d3
  Doc <- ThreeDocs
  SizeMod = 64
  Threshold = 1
  MergeAmount = 6
  EnableMerge = TRUE
  Overwrite = FALSE
  MaxBatch = 2
  MaxAdds = 5
INVARIANT EraseReachesAll
PROPERTY AddReturns
PROPERTY CallbacksDrain
PROPERTY ImplementsDocStore
