SPECIFICATION Spec
CONSTANTS
  Handler = {h1, h2}
  n2 = n2
  n1 = n1
  Node = {n1}
  Report <- TwoRuns
  Window = 1
  Attempt = {t1, t2}
  MaxRecorded = 4
  None = None
SYMMETRY Symmetry
INVARIANTS
  TypeOK
  CountedOnce
  AcceptedIsDurable
  NodeMatchesLog
