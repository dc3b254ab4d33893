SPECIFICATION Spec
CONSTANTS
  BITS = 8
  REG_SIZE = 16
  XorByte <- MCXor
  VS_SBOX <- MCSBox
  Hmac <- MCHmac
  Entropy <- MCEntropy
  Callers = {"rng"}
  Inputs <- MCInputs
  Chunks = 2
INVARIANT RngDeterministic
