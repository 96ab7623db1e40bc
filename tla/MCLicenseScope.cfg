SPECIFICATION ScopeSpec
CONSTANTS
  a = a
  b = b
  c = c
  Packages = {a, b, c}
  Root = a
  Graphs <- MCGraphs
  License <- MCLicense
  Allow = {"mit", "bsd"}
  Excepted = {b}
  Local = {a}
INVARIANTS WalkIsExact TakenIsShipped
PROPERTY Terminates
CHECK_DEADLOCK FALSE
