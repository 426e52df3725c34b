SPECIFICATION Spec
CONSTANTS
  s1 = s1
  s2 = s2
  p1 = p1
  p2 = p2
  None = None
  Session = {s1, s2}
  Process = {s1, s2}
  ProcessOf <- OwnProcess
  Port = {p1, p2}
  ProgramLength = 2
  StartAttempts = 2
  AcceptsAgain = TRUE
CHECK_DEADLOCK FALSE
INVARIANTS
  TypeOK
  AcceptedTraceIsOwnRun
  EndedSessionsLeaveNoChild
PROPERTIES
  RetryIsClean
  ImplementsIsolatedRun
