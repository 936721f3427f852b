SPECIFICATION Spec
CONSTANTS
  y1 = y1  d1 = d1  i1 = i1  i2 = i2  v1 = v1  x1 = x1  a1 = a1  a2 = a2
  YieldSites <- MCYieldSites
  DelegateSites <- MCDelegateSites
  Subs <- MCSubs
  Throwable <- MCFull
  Closable <- MCFull
  Values <- MCValues
  UserExc <- MCUserExc
  Complete = "AsyncGenComplete"
  Awaitables <- MCAwaitables
SYMMETRY AwaitableSymmetry
INVARIANTS TypeOK PendingMeansAwaiting SentinelStaysInside ExceptionInjectedOnce
PROPERTIES EndIsGenuine ImplementsAsyncProtocol
