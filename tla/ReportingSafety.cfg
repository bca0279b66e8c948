SPECIFICATION Spec
CONSTANTS
  Maintainer = {m1, m2}
  Backup = backup
  phone = phone
  Destination <- OneDestination
  Monitor = monitor
  BatchLimit = 1
  MaxPending = 1
  MaxRuns = 1
  MaxHeartbeats = 0
  MaxCrashes = 1
  MaxSwitches = 1
  MaxDelayed = 1
SYMMETRY Symmetry
INVARIANTS
  TypeOK
  NothingLost
  DeletedStaysDeleted
PROPERTY PromiseKept
