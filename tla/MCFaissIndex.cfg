SPECIFICATION Spec
CONSTANTS
  d1 = d1
  d2 = d2
  None = None
  Doc <- TwoDocs
  MaxAdds = 4
  MaxBatch = 2
SYMMETRY Symmetry
INVARIANT RoundTrip
PROPERTY ImplementsSegment
