SPECIFICATION Spec
CONSTANTS
  Alphabet = 3
  Commands <- SomeCommands
  Files <- SomeFiles
INVARIANTS
  TypeOK
  Canonical
  NothingStays
  CompletesFirst
PROPERTY
  OnlyListedVanish
