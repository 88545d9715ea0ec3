\* One command of every kind with any flags and inputs, or two commands.
CONSTANTS
  c1 = c1
  c2 = c2
  alice = alice
  hw = hw
  NoAccount = NoAccount
  None = None
  Torn = Torn
  Old = Old
  Procs <- MCProcs
  Jobs <- MCJobs
  Accounts <- MCAccounts
  Device = hw
  MaxEdits = 1
  MaxKills = 1
SPECIFICATION Spec
INVARIANTS
  TypeOK
  AskedForSigner
  FixedNoncePaysOnce
  ArtifactsTally
PROPERTY
  InterruptedNeverSigns
