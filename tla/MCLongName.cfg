SPECIFICATION Spec
CONSTANTS
  Encs = {e1}
  Decs = {}
  Suffix <- MCSuffix
  Names <- MCNames
  EncArgs <- OneEncArgs
  DecArgs <- WrongArgs
  StartFiles <- TakenFiles
  NameMax = 1
INVARIANT CreatesNamedFile
