SPECIFICATION Spec
CONSTANTS
  Process = {p1}
  Job = {a}
  WithDatabases = {}
  WithRetention = {}
  WithVerification = {}
  WithMail = {}
  MaxParallelJobs = 1
  MaxRuns = 1
  Removable = {}
  ByHand = {}
  None = None
INVARIANT RunningRowHasProcess
