\* Three pubkeys, two workers, every preflight check, a SIGINT at any moment.
CONSTANTS
  N = 3
  w1 = w1
  w2 = w2
  Workers <- MCWorkers
  Configs <- MCConfigs
  PossibleFates <- MCFates
SPECIFICATION FairSpec
INVARIANTS
  TypeOK
  AnsweredOnce
  OutputInRequestOrder
  SelectedIsBest
PROPERTIES
  KeepsPromise
  Terminates
  InterruptStopsPool
