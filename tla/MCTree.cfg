SPECIFICATION MCSpec
CONSTANTS
  v = v  w = w
  Order = 3
  Keys <- AllKeys
  Values = {v, w}
  N = 149
  Stride = 11
  Starts = {0}
  Turns = 2
INVARIANTS Balanced WithinLimits IterationComplete BoundsExact
PROPERTY ImplementsMap
CHECK_DEADLOCK FALSE
