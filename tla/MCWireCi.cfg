SPECIFICATION Spec
CONSTANTS
  NoName = None
  None = None
  NoExtras = None
  Orb <- MCOrb
  OwnOrb = "own"
  Refused = Refused
  Main = Main
  Other = Other
  FileOrder <- MCFileOrder
  DiscoverFiles = {}
  NoFile = NoFile
  Specs <- MCSpecs
  Contents <- ContentsKept
  Example <- MCExample
  Unreadable = Unreadable
  Typed <- MCTyped
  Params <- MCParams
  Names <- MCNames
  Workflows <- MCWorkflows
  Settings <- MCSettings
  Extras <- MCExtras
  MaxRuns = 3
  MaxEdits = 1
INVARIANTS TypeOK WiredIsInSync RepeatConverges NeverMixed OthersKept EveryJobApplied
CHECK_DEADLOCK FALSE
