SPECIFICATION ListSpec
CONSTANTS
  Items = {i1, i2, i3, i4}
  MaxClock = 2
  MaxSize = 2
  DefaultSize = 2
  NoStamp = NoStamp
SYMMETRY Sym
INVARIANTS
  ListTypeOK
  NoneMissed
  NoneTwice
