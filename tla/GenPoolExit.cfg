\* The exit code under every schedule of two workers: not stable.
CONSTANTS
  N = 2
  w1 = w1
  w2 = w2
  Workers <- MCWorkers
  Configs <- PlainConfigs
  PossibleFates <- MCFates
SPECIFICATION Spec
INVARIANT
  StableExitCode
