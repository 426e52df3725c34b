SPECIFICATION Spec
CONSTANTS
  Stages <- MCStages
  NetworkAttempts = 2
  Archive <- MCArchive
  MaxLaunches = 1
  MaxRestores = 0
CHECK_DEADLOCK FALSE
INVARIANTS
  FailedLaunchSaysSo
