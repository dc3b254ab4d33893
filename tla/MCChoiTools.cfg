SPECIFICATION Spec
CONSTANTS
  Encs = {e1, e2}
  Decs = {d1}
  Suffix <- MCSuffix
  Names <- MCNames
  EncArgs <- MCEncArgs
  DecArgs <- MCDecArgs
  StartFiles <- MCStartFiles
  NameMax = 9
SYMMETRY EncSymmetry
INVARIANTS
  TypeOK
  AcceptsExactly
  CompleteImage
  RecoversPlaintext
  NoKeystreamReuse
