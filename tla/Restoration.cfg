SPECIFICATION Spec
CONSTANTS
  Run = {r1, r2}
  Canonical = Canonical
  v1 = v1
  v2 = v2
  Version = {v1, v2}
  Archive <- MCArchive
  Roots <- MCRoots
  None = None
  MaxEdits = 2
  MaxKills = 1
SYMMETRY Symmetric
CHECK_DEADLOCK FALSE
PROPERTIES
  RestorationIsExact
  NothingIsReplaced
