SPECIFICATION Spec
CONSTANTS
  Null = Null
  Wild = Wild
  Words <- SomeWords
  Lines <- SomeLines
  Builtins = {"jobs"}
  Base <- SomeBase
  Home = "/home"
  MaxFiles = 2
  MaxGarbage = 2
  PsBfs = 5
INVARIANTS
  TypeOK
  ArgumentsAreWords
  
  AliasesExpand
  OnlyOddLinesCrash
  OnlyLongLinesOverrun
