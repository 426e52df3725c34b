SPECIFICATION Spec
CONSTANTS
  Run = {g1, g2}
  Found = Found
  Version = {v1, v2}
  Reviewed = v1
  None = None
  Stages <- MCStages
  MaxEdits = 2
  MaxKills = 1
CHECK_DEADLOCK FALSE
INVARIANTS
  EvidenceIsOneRun
  PassedBuildIsReviewed
  PassedPairIsOneExtraction
PROPERTIES
  FailedInstallRestoresPair
  GateAnswers
