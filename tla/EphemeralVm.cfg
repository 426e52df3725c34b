SPECIFICATION Spec
CONSTANTS
  Stages <- MCStages
  NetworkAttempts = 2
  Archive <- MCArchive
  MaxLaunches = 2
  MaxRestores = 1
CHECK_DEADLOCK FALSE
INVARIANTS
  VerifiedRoomIsOneRun
  DisksAreGoneBeforeTheRecord
  SecretsLeaveNoTrace
  PassedRunIsComplete
PROPERTIES
  NothingIsOverwritten
ACTION_CONSTRAINT Mixing
