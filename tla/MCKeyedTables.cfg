INIT MCInit
NEXT MCNext
CONSTANTS
  N = 5
  Kinds = {"sbox", "opcode", "pbox"}
  AesSBox <- MCAesSBox
  AesInvSBox <- MCAesInvSBox
  XorByte <- MCXor
  AsmSBox <- MCAsmSBox
  AsmInvSBox <- MCAsmInvSBox
  STATE_SIZE = 16
  NUM_ROUNDS = 32
  AsmBlocks <- MCAsmBlocks
  AsmKeys <- MCAsmKeys
  MaxAsmCalls = 3
  OBF_MAX_ROUNDS = 17
  ObfSeeds <- MCSeeds
  KeyMap <- MCKeyMap
  PBox <- MCPBox
  InvPBox <- MCInvPBox
  ObfSBox <- MCObfSBox
  ObfInvSBox <- MCObfInvSBox
  ObfBlocks <- MCObfBlocks
  RoundCounts <- MCRoundCounts
  MaxObfCalls = 4
INVARIANTS
  TypeOK
  Permutation
  InverseUndoes
  FallbackNeverTaken
  Derangement
  AsmTypeOK
  AsmRetraced
  ObfTypeOK
  ObfRetraced
