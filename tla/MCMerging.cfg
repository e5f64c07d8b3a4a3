SPECIFICATION MergeSpec
CONSTANTS
  d1 = d1
  d2 = d2
  d3 = d3
  Answers <- ShortAnswers
  MaxResponses = 3
  MaxLen = 3
SYMMETRY Symmetry
INVARIANT Dominance
INVARIANT Consensus
INVARIANT ScoresExact
CHECK_DEADLOCK FALSE
