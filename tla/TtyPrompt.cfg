\* --parallel 1: two pubkeys with any keystores, the passphrase from the
\* terminal or from a file that is replaced or rewritten twice, and a SIGINT
\* at any moment.
CONSTANTS
  w1 = w1
  w2 = w2
  NoIndex = NoIndex
  Workers <- MCOne
  N = 2
  Password <- MCPassword
  MaxBytes = 3
  Contents <- MCContents
  Replacements <- MCReplacements
  MaxEdits = 2
SPECIFICATION Spec
INVARIANTS
  TypeOK
  EchoFollowsReads
  SecretIsWholeFile
