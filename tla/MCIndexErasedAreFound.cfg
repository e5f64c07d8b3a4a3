SPECIFICATION Spec
CONSTANTS
  d1 = d1
  d2 = d2
  d3 = d3
  Doc <- TwoDocs
  SizeMod = 64
  Threshold = 2
  MergeAmount = 4
  EnableMerge = TRUE
  Overwrite = TRUE
  MaxBatch = 2
  MaxAdds = 6
SYMMETRY Symmetry
INVARIANT ErasedAreFound
