\* Everything as usual but for one slip: of the operator, in a file, of the
\* disk, the device or the node.
CONSTANTS
  WordBits = 3
  Ratio = 5
  WordCounts <- MCWordCounts
  Digest <- MCDigest
  HARDENED = 8
  Order = 31
  MasterHalves <- MCMasterHalves
  ChildHalves <- MCChildHalves
  ScryptMaxMem = 1073741824
  GarbledIsScalar <- MCGarbledIsScalar
  Amount = 32
  AddressLen = 3
  FeeModulus = 65536
  GasModulus = 65536
  OddY <- MCOddY
  SIsHigh <- MCSIsHigh
  ShortR <- MCShortR
  U32 = 16
  MaxParallel = 8
  U64 = 16777216
  DEFAULT_GAS_LIMIT = 250
  DEFAULT_MAX_FEE_PER_GAS = 20
  DEFAULT_MAX_PRIORITY_FEE_PER_GAS = 1
  Entropies <- MCEntropies
  Chain = "hoodi"
  SenderKey = 4
  BaseFee = 15
  GasNeeded = 100
  SenderNonce = 3
  MaxSlips = 1
SPECIFICATION Spec
INVARIANTS
  TypeOK
  RecoveryReproduces
  KeystoresOpenForOwner
  EntryVerifies
  DepositEffective
  DocumentedExit
  UsualSucceeds
CHECK_DEADLOCK FALSE
