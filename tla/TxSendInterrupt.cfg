\* SIGINT before the transaction is sent: it is sent all the same.
CONSTANTS
  r1 = r1
  r2 = r2
  Runs <- MCRuns
  Jobs <- Sending
  Deadline = 1
SPECIFICATION SendFairSpec
PROPERTY
  InterruptAborts
