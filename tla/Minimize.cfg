SPECIFICATION Spec
CONSTANTS
  Words <- MCWords
  Behaviours <- MCBehaviours
  Budgets = {3, 8}
  MaxEdits = 1
CHECK_DEADLOCK FALSE
INVARIANTS
  CertificateIsMinimal
  CertificateIsAboutItsSource
  OutcomesAgree
