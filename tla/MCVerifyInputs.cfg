CONSTANTS
  p = p
  q = q
  all = all
  x = x
  y = y
  loose = loose
  tight = tight
  one = one
  two = two
  none = none
  broken = broken
  v1 = v1
  v2 = v2
  norec = norec
  torn = torn
  Members = {p, q}
  Whole = all
  Keys = {x, y}
  Sums = {1, 2}
  Policies = {loose, tight}
  Texts = {one, two}
  NoFile = none
  Broken = broken
  Tools = {v1, v2}
  NoTool = none
  NoRecord = norec
  Torn = torn
  Accepts <- AcceptsDef
  Trees <- TreesDef
  Start <- StartDef
  Schemas = {1, 3, 6}
  MaxRuns = 1
  MaxEdits = 2
  MaxReleases = 2
SPECIFICATION Spec
INVARIANTS
  VerifiedIsReleased
  PolicyReplayed
  NoFalseMismatch
