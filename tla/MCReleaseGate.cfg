SPECIFICATION Spec
CONSTANTS
  Locks = {"l1", "l2"}
  Policies = {"strict", "lax"}
  Abouts = {"none", "a1", "a2"}
  NoAbout = "none"
  Resolved <- FreshLocks
  Passes <- MCPasses
  InSync <- MCInSync
  Attributable <- MCAttributable
  NoRecord = NoRecord
  Torn = Torn
  MaxCommit = 2
  MaxRuns = 2
  MaxEdits = 2
INVARIANTS PolicyIsGatePolicy CommitIsGateCommit
PROPERTIES FailedGateKeepsRecord ImplementsAttestation
CHECK_DEADLOCK FALSE
