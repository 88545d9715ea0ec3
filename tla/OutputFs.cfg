\* Two processes, at most two failing calls, one kill and one power loss.
CONSTANTS
  p1 = p1
  p2 = p2
  k1 = k1
  k2 = k2
  n1 = n1
  n2 = n2
  None = None
  Old = Old
  Empty = Empty
  Torn = Torn
  Procs <- MCProcs
  Targets <- MCTargets
  TmpNames <- MCTmpNames
  Calls <- MCCalls
  MaxFaults = 2
  MaxKills = 1
SPECIFICATION Spec
INVARIANTS
  TypeOK
  NeverPartial
  AnswerHolds
PROPERTIES
  UnlinksOwnOnly
  PublishesOnce
