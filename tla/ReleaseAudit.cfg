SPECIFICATION AuditSpec
CONSTANTS
  Version = {v1, v2}
  Room = {m1, m2}
  None = None
  MaxEdits = 2
SYMMETRY Symmetric
CHECK_DEADLOCK FALSE
PROPERTIES
  PassedAuditIsOneSource
  RecordIsOneArchive
ACTION_CONSTRAINT MayPass
