SPECIFICATION Spec
CONSTANTS
  None = None
  NoName = None
  NoExtras <- MCNoExtras
  Orb <- MCOrb
  OwnOrb = "own"
  Refused = Refused
  Words <- MCWords
  Workflows <- MCWorkflows
  Contents <- MCContents
  Declarations <- MCDeclarations
  Remarks <- NoRemarks
  InLists = FALSE
  MaxRuns = 2
  MaxEdits = 2
INVARIANTS SaysWhatIsMeant LossIsNoted
CHECK_DEADLOCK FALSE
