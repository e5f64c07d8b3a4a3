SPECIFICATION MetricsFairSpec
CONSTANTS
  t1 = t1
  t2 = t2
  t3 = t3
  NoThread = NoThread
  Thread <- ThreeThreads
  SizeMod = 4
  ExactMax = 2
  MaxCalls = 5
INVARIANT CountsExact
INVARIANT GaugeExact
PROPERTY CallReturns
CHECK_DEADLOCK FALSE
