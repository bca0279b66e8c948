SPECIFICATION TimedSpec
CONSTANTS
  Maintainer = {m1}
  Backup = backup
  mail = mail
  Destination <- MailDestination
  Reachable = {}
  ByMail = {mail}
  Monitor = monitor
  BatchLimit = 1
  MaxPending = 2
  MaxRuns = 1
  MaxHeartbeats = 1
  MaxCrashes = 0
  MaxSwitches = 0
  MaxDelayed = 0
  Elapsed = {2,3}
  Doublings = 2
  Longest = 4
PROPERTY QueuedArrives
