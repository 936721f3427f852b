CONSTANTS
  Programs <- MCPrograms
  Env <- MCEnv
SPECIFICATION Spec
INVARIANTS VariablesAgree SuspendsBetweenStatements CodeAccepted DispatchKnowsWhy
PROPERTIES Implements GetsToNextOperation
CHECK_DEADLOCK FALSE
