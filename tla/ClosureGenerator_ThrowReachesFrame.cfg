SPECIFICATION Spec
CONSTANTS
  y1 = y1  y2 = y2  d1 = d1  d2 = d2  i1 = i1  i2 = i2  v1 = v1  x1 = x1
  YieldSites <- MCYieldSites
  DelegateSites <- MCDelegateSites
  Subs <- MCSubs
  Throwable <- MCFull
  Closable <- MCFull
  Values <- MCValues
  UserExc <- MCUserExc
  Complete = "StopIteration"
INVARIANT ThrowReachesFrame
