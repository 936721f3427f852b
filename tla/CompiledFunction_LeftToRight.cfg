CONSTANTS
  Programs <- OutOfOrder
  Env <- MCEnv
SPECIFICATION Spec
INVARIANT LeftToRight
CHECK_DEADLOCK FALSE
