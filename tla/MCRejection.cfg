SPECIFICATION Spec
CONSTANTS
  Encs = {e1}
  Decs = {d1}
  Suffix <- MCSuffix
  Names <- MCNames
  EncArgs <- OneEncArgs
  DecArgs <- WrongArgs
  StartFiles <- TakenFiles
  NameMax = 9
INVARIANT RejectionWritesNothing
