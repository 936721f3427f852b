CONSTANTS
  x = x
  v = v
  w = w
  Names = {x}
  Values = {v, w}
  MaxFrames = 4
  Programs <- MCPrograms
SPECIFICATION Spec
SYMMETRY Symmetric
INVARIANTS ClosuresComplete OneStorage
PROPERTIES ImplementsScoping
