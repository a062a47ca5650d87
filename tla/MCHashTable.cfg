SPECIFICATION Spec
CONSTANTS
  k1 = k1
  k2 = k2
  k3 = k3
  k4 = k4
  v1 = v1
  v2 = v2
  None = None
  Key <- FourKeys
  Value <- TwoValues
  Home <- Masked
  InitialSize = 3
  CountRange = 32
  Garbage <- SomeGarbage
  MaxSize = 6
INVARIANTS
  TypeOK
  EachKeyFound
  HangsOnlyWhenFull
PROPERTY
  IsDictionary
