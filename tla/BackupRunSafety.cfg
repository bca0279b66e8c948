SPECIFICATION Spec
CONSTANTS
  Process = {p1, p2}
  Job = {a}
  WithDatabases = {}
  WithRetention = {a}
  WithVerification = {}
  WithMail = {}
  MaxParallelJobs = 1
  MaxRuns = 3
  Removable = {}
  ByHand = {a}
  None = None
INVARIANTS
  TypeOK
  StageOwned
  OutcomeMatchesSnapshot
  NewestRecordedSnapshotKept
  NoticeMatchesRow
  RecoveryPaired
SYMMETRY ProcessSymmetry
