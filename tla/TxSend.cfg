\* One run with every input and every flag, or two runs with one transaction.
CONSTANTS
  r1 = r1
  r2 = r2
  Runs <- MCRuns
  Jobs <- MCJobs
  Deadline = 2
SPECIFICATION SendFairSpec
INVARIANTS
  SendTypeOK
  BroadcastIsGated
  ExitIsHonest
PROPERTY
  Ends
