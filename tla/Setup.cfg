SPECIFICATION Spec
CONSTANTS
  Menu = {m1, m2}
  Command = {k}
  Storage = {disk, cloud, drive}
  WebDAV = {cloud, drive}
  Database = {orders}
  Job = {nightly}
  Schedule = {daily}
  Node = {home, moved}
  Password = {w1}
  InitialConfig <- StartConfigs
  MaxOperations = 3
  MaxFaults = 1
  None = None
  disk = disk
  orders = orders
  daily = daily
  home = home
INVARIANTS
  TypeOK
  StorageHasRemote
  RepositoryOpens
  CredentialKept
  MemoryMatchesFile
  EnabledJobHasTimer
  KeyMatchesFile
SYMMETRY Symmetry
CHECK_DEADLOCK FALSE
