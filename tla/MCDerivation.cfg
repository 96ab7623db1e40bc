SPECIFICATION Spec
CONSTANTS
  Members = {"bin", "lib"}
  Crates = {"x", "y"}
  Licences = {"mit", "gpl", "mpl"}
  Ids = {"i1", "i2"}
  Absent = {"absent"}
  Used <- MCUsed
  Reaches <- MCReaches
  Template <- MCTemplate
  NoFile = NoFile
  Broken = Broken
  Denies <- MCDenies
  Abouts <- MCAbouts
  MaxRuns = 3
  MaxEdits = 1
INVARIANTS AuditAgrees AboutAgrees HandKept
PROPERTIES PolicyKept
CHECK_DEADLOCK FALSE
