SPECIFICATION FairSpec
CONSTANTS
  Process = {p1}
  Job = {a}
  WithDatabases = {}
  WithRetention = {}
  WithVerification = {}
  WithMail = {a}
  MaxParallelJobs = 1
  MaxRuns = 1
  Removable = {}
  ByHand = {}
  None = None
PROPERTY MailTimesOut
