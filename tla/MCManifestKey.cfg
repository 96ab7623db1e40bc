CONSTANTS
  a = a
  b = b
  none = none
  da = da
  db = db
  glob = glob
  k = k
  l = l
  comment = comment
  missing = missing
  Names = {a, b}
  NoName = none
  Dirs = {da, db}
  Globs = {glob}
  Keys = {k, l}
  NoKey = none
  Comment = comment
  Missing = missing
  Texts <- TextsDef
  Workspaces <- WorkspacesDef
  MaxSearches = 1
  MaxMoves = 2
SPECIFICATION KeySpec
INVARIANTS
  KeyIsPackages
  PackageIsFound
PROPERTY RunEnds
