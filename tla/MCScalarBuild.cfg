SPECIFICATION BlockSpec
CONSTANTS
  W = 8
  Poly <- MCPoly
  NR = 14
  Builds = {"scalar"}
  SBoxes <- MCSBoxes
  Keys <- MCKeys
  Inputs <- MCInputs
INVARIANT Diffusion
