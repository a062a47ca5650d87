SPECIFICATION Spec
CONSTANTS
  a1 = a1
  a2 = a2
  a3 = a3
  a4 = a4
  a5 = a5
  x = x
  y = y
  Null = Null
  Space = Space
  Addr <- FiveAddr
  Lines <- SomeLines
  HistMax = 4
  MaxCount = 7
INVARIANT
  StoresMostRecent
SYMMETRY AddrSymmetry
