SPECIFICATION FileSpec
CONSTANTS
  Writers = {w1, w2}
  Values = {v1, v2}
  NoFile = NoFile
  Original = original
  Names = {n1, n2}
  Empty = Empty
  Partial = Partial
  MaxPowerLosses = 1
SYMMETRY Symmetric
INVARIANTS NeverTorn PublishedOwn SettledStays ModeKept
PROPERTIES LinkKept RefinesRegister
CHECK_DEADLOCK FALSE
