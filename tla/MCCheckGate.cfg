CONSTANTS
  a = a
  b = b
  any = any
  i = i
  j = j
  MIT = MIT
  GPL = GPL
  none = none
  broken = broken
  m = m
  Members = {m}
  Crates = {a, b}
  Versions = {1, 2, 3}
  Licences = {MIT, GPL}
  Ids = {i, j}
  Informational = {j}
  Coded = {j}
  AnyVersion = any
  NoFile = none
  Broken = broken
  Affects <- AffectsDef
  LicenceOf <- LicenceOfDef
  Uses <- UsesDef
  Start <- StartDef
  Denies <- DeniesDef
  Lockings <- LockingsDef
  Abouts <- AboutsDef
  Notices <- NoticesDef
  Toolings <- ToolingsDef
  MaxRuns = 1
  MaxEdits = 2
SPECIFICATION Spec
INVARIANTS
  NoSilentPass
  NoFalseAlarm
  AdviceHolds
  PruneIsExact
