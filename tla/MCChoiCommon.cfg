INIT MCInit
NEXT MCNext
CONSTANTS
  W = 8
  Poly <- MCPoly
  NR = 14
  Builds = {"simd", "scalar"}
  SBoxes <- MCSBoxes
  Keys <- MCKeys
  Inputs <- MCInputs
  MasterKeys = {k1, k2}
  NoKey = NoKey
  BLOCK_SIZE = 2
  Base = 3
  Length = 5
  MaxCalls = 5
  MsgByte <- MCMsgByte
  Message <- MCMessage
  Width = 1073741824
  Garbage <- MCGarbage
  HMAC_BLOCK = 6
  HASH = 3
  INDEX = 2
  BASE = 2
  Passwords <- MCPasswords
  StretchSalts <- MCSalts
  Ciphertexts <- MCCiphertexts
  Iters <- MCIters
  OutLens <- MCOutLens
INVARIANTS
  BlockTypeOK
  Retraced
  EarlyDiffusion
  EngineTypeOK
  TablesOfOneKey
  TypeOK
  HashesPaddedMessage
  StretchTypeOK
  OutputAsSpecified
  NoBlockTwice
PROPERTY
  Implements
