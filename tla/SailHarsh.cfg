SPECIFICATION Spec
CONSTANTS
  r1 = r1
  r2 = r2
  c1 = c1
  Before = Before
  None = None
  Call = {r1, r2}
  Config = {c1}
  Interrupts = TRUE
  Orphans = TRUE
SYMMETRY Symmetric
CHECK_DEADLOCK FALSE
INVARIANTS
  TypeOK
PROPERTY AdaptedModelsOnlyMove
