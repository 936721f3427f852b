CONSTANTS
  Specs <- MCSpecs
  Values <- MCValues
  NULL = 0
  Programs <- MCPrograms
  Trampoline <- TrampolineCode
  Entry <- EntryCode
  Body <- BlockCode
  Dispatch <- DispatchCode
  Unwind <- Cleanup
  MaxFailures = 2
  MaxInterference = 1
SPECIFICATION Spec
INVARIANTS NoDangling Balanced ErrorIffNull KeepsConvention BoundLikePython ArgumentsLikePython ParametersLikePython
