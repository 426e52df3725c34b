SPECIFICATION FairSpec
CONSTANTS
  s1 = s1
  s2 = s2
  p1 = p1
  p2 = p2
  None = None
  Session = {s1, s2}
  Process = {s1}
  ProcessOf <- OneProcess
  Port = {p1, p2}
  ProgramLength = 1
  StartAttempts = 2
  AcceptsAgain = FALSE
CHECK_DEADLOCK FALSE
INVARIANTS
  SiblingsNeverCross
PROPERTIES
  SessionsEnd
