SPECIFICATION Spec
CONSTANTS
  LastRegister = 2
  WordSize = 4
  Corpora <- MCCorpora
  Recorded <- MCRecorded
  SailTrace <- MCSailTrace
  Focus <- MCFocus
  Oversight <- MCOversight
  MaxRuns = 2
  MaxEdits = 1
  Words <- MCWords
  Entry = 0
  MinimumCases = 1
CHECK_DEADLOCK FALSE
INVARIANTS
  GreenRunAgreed
  PassingMatrixSees
  SoundComparisonLocates
  ArtifactKeepsItsProgram
  
PROPERTIES
  GreenRunHasEvidence
