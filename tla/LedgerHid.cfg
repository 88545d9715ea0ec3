\* Three runs one after the other in any order, two of them cut off anywhere.
CONSTANTS
  r1 = r1
  r2 = r2
  r3 = r3
  None = None
  MaxCuts = 2
  Runs <- MCRuns
  Chunks <- MCChunks
SPECIFICATION FairSpec
INVARIANTS
  TypeOK
  RepliesInStep
  SignatureIsOwn
PROPERTY
  RunEnds
