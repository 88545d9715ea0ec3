\* One run of each kind with everything that can be typed, failed or interrupted.
CONSTANTS
  p1 = p1
  p2 = p2
  m1 = m1
  x1 = x1
  x2 = x2
  pw1 = pw1
  pw2 = pw2
  None = None
  Old = Old
  Mnemonics <- MCMnemonics
  Passwords <- MCPasswords
  Procs <- MCProcs
  Jobs <- MCJobs
  Passes <- MCPasses
  Clock <- MCClock
  U32Max = 2
  MaxGlitches = 1
  MaxEdits = 1
SPECIFICATION FairSpec
INVARIANTS
  TypeOK
  CeremonyKept
  ReportedOpens
  RunLeavesPrefix
PROPERTY
  InterruptEnds
