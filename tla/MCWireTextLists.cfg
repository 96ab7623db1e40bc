SPECIFICATION Spec
CONSTANTS
  None = None
  NoName = None
  NoExtras <- MCNoExtras
  Orb <- MCOrb
  OwnOrb = "own"
  Refused = Refused
  Words <- MCWords
  Workflows <- MCWorkflows
  Contents <- FewContents
  Declarations <- FewDeclarations
  Remarks <- NoRemarks
  InLists = TRUE
  MaxRuns = 2
  MaxEdits = 1
INVARIANT RequiredOnce
CHECK_DEADLOCK FALSE
