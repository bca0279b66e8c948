SPECIFICATION FairSpec
CONSTANTS
  Process = {p1, p2}
  Job = {a, b}
  WithDatabases = {a}
  WithRetention = {a}
  WithVerification = {a}
  WithMail = {b}
  MaxParallelJobs = 1
  MaxRuns = 1
  Removable = {a}
  ByHand = {}
  None = None
INVARIANTS
  RowsHaveLogs
PROPERTIES
  EndedRowFinal
  RunEnds
  StartedIsFinished
CHECK_DEADLOCK FALSE
