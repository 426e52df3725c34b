SPECIFICATION Spec
CONSTANTS
  r1 = r1
  r2 = r2
  c1 = c1
  c2 = c2
  Before = Before
  None = None
  Call = {r1, r2}
  Config = {c1, c2}
  Interrupts = FALSE
  Orphans = FALSE
SYMMETRY Symmetric
CHECK_DEADLOCK FALSE
INVARIANTS
  DestinationIsPublishable
  FailureRestoresNames
  RecordIsNeverAhead
PROPERTY FinishedTreesOnlyMove
