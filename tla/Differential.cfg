SPECIFICATION Spec
CONSTANTS
  Register = {0, 1}
  Value = {0, 1}
  Instruction <- MCInstruction
  MaxLength = 3
  Window = 3
  Deviation <- MCDeviation
  Policy = "category_only"
CHECK_DEADLOCK FALSE
INVARIANTS
  TypeOK
  PassMeansSameRun
  AlikeEnginesMatch
  MismatchIsFirstDivergence
