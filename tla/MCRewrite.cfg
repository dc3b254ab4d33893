SPECIFICATION Spec
CONSTANTS
  BITS = 4
  REG_SIZE = 2
  XorByte <- MCXor
  VS_SBOX <- MCSBox
  Hmac <- MCHmac
  Entropy <- MCEntropy
  Programs <- MCPrograms
  Later <- MCLater
  Maps <- MCMaps
  Seeds <- MCSeeds
  LoadRegs <- MCLoadRegs
  UserBanks <- MCUserBanks
  MaxSets = 1
  MaxCycles = 12
  MaxRuns = 2
PROPERTY
  RewrittenCodeRuns
