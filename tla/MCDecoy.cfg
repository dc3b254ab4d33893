SPECIFICATION Spec
CONSTANTS
  Encs = {e1}
  Decs = {d1, d2}
  Suffix <- MCSuffix
  Names <- MCNames
  EncArgs <- OneEncArgs
  DecArgs <- GuessArgs
  StartFiles <- TakenFiles
  NameMax = 9
INVARIANT DecoyIndependentOfKey
