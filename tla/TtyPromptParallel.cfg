\* --parallel 2: the two workers prompt on one terminal.
CONSTANTS
  w1 = w1
  w2 = w2
  NoIndex = NoIndex
  Workers <- MCTwo
  N = 2
  Password <- MCPassword
  MaxBytes = 3
  Contents <- MCReplacements
  Replacements <- MCReplacements
  MaxEdits = 0
SPECIFICATION Spec
INVARIANT
  EchoSuppressed
