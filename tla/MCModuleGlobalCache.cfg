SPECIFICATION Spec
CONSTANTS
  c1 = c1  c2 = c2  n1 = n1  o1 = o1  o2 = o2
  Caches <- MCCaches
  Names <- MCNames
  Values <- MCValues
  MaxCalls = 2
  MaxPending = 2
SYMMETRY CacheSymmetry
INVARIANTS TypeOK SlotsFollowGlobals SlotsFollowBuiltins PendingIsConsumed
