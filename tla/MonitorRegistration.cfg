SPECIFICATION Spec
CONSTANTS
  Handler = {h1}
  n2 = n2
  n1 = n1
  Node = {n1, n2}
  Report <- TwoRuns
  Window = 1
  Attempt = {t1}
  MaxRecorded = 1
  None = None
INVARIANT RegistrationLasts
