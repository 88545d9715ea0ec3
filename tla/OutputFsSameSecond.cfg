\* Two deposit gen in one directory in one second; no call fails.
CONSTANTS
  p1 = p1
  p2 = p2
  k1 = k1
  k2 = k2
  n1 = n1
  n2 = n2
  None = None
  Old = Old
  Empty = Empty
  Torn = Torn
  Procs <- MCProcs
  Targets <- MCTargets
  TmpNames <- MCTmpNames
  Calls <- SameSecond
  MaxFaults = 0
  MaxKills = 0
SPECIFICATION Spec
INVARIANT
  NeverPartial
