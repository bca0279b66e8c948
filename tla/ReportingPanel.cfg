SPECIFICATION Spec
CONSTANTS
  Maintainer = {m1}
  Backup = backup
  phone = phone
  Destination <- NoDestination
  Monitor = monitor
  BatchLimit = 1
  MaxPending = 1
  MaxRuns = 1
  MaxHeartbeats = 0
  MaxCrashes = 0
  MaxSwitches = 0
  MaxDelayed = 0
INVARIANT EndedRunNotShownRunning
