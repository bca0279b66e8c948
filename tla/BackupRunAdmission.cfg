SPECIFICATION Spec
CONSTANTS
  Process = {p1, p2, p3}
  Job = {a, b, c}
  WithDatabases = {}
  WithRetention = {}
  WithVerification = {}
  WithMail = {}
  MaxParallelJobs = 2
  MaxRuns = 1
  Removable = {}
  ByHand = {}
  None = None
SYMMETRY FullSymmetry
INVARIANTS
  JobExclusion
  SlotBound
PROPERTIES
  AdmissionSpec
