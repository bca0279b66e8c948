SPECIFICATION FairSpec
CONSTANTS
  Stream = {stdout, stderr}
  Leader = Leader
  Child = Child
  Capacity = 2
  MaxLines = 4
  None = None
INVARIANTS
  TypeOK
  OutputComplete
  CallbackExclusive
  NothingLeftBehind
PROPERTIES
  RunReturns
CHECK_DEADLOCK FALSE
