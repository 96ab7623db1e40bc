SPECIFICATION AssetSpec
CONSTANTS
  Publishers = {p1, p2}
  Readers = {v1, v2}
  Records = {good, cut}
  Passed = {good}
  NoAsset = none
  Exclusive = TRUE
  Immutable = TRUE
  ManifestKey = 3
  MaxPublishes = 2
SYMMETRY Symmetric
INVARIANTS PublicTripleMatches SignedKeyDiscarded
PROPERTIES ImplementsSealed
CHECK_DEADLOCK FALSE
