SPECIFICATION Spec
CONSTANTS
  Alphabet = 1
  Names <- SomeNames
  Logs <- SomeLogs
  RlBfs = 3
  Indent = 2
  MaxSize = 6
INVARIANTS
  TypeOK
  StringsEnd
  NoJunkReturned
  IndexOnlyByOther
PROPERTIES
  CursorInLine
  OnlyTabUsesRoom
  KeepsPromise
