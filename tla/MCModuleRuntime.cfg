SPECIFICATION Spec
CONSTANTS
  m1 = m1  m2 = m2
  t1 = t1  t2 = t2
  o1 = o1  o2 = o2  o3 = o3
  Modules = {m1, m2}
  Threads = {t1, t2}
  Objs = {o1, o2, o3}
  MaxDepth = 2
SYMMETRY Symmetry
INVARIANTS TypeOK StackFollowsCalls FunctionsAreAtHome OneCachePerModule DumpedOnce FirstCallMakes
CHECK_DEADLOCK FALSE
