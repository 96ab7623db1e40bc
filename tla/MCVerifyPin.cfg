SPECIFICATION Spec
CONSTANTS
  Verifiers = {v1, v2}
  Exclusive = TRUE
  Passing = {1, 3}
  MaxCommit = 3
  MaxRuns = 3
SYMMETRY Symmetric
INVARIANTS ScansRecorded LeftAsFound
CHECK_DEADLOCK FALSE
