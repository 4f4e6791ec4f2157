SPECIFICATION FairSpec
CONSTANTS
  Libs = {1}
  p = p
  q = q
  Paths = {p, q}
  ReadOnly <- MCReadOnly
  NoPath = NoPath
  Specs <- MCSpecs
  MaxGen = 2
  MaxHand = 1
  MaxFaults = 1
  CacheLag = TRUE
INVARIANTS TypeOK LibrariesReadyHonest
PROPERTIES PruneOnlyRecorded NeverEmptiesALibrary CompletedPassApplied LibrariesConverge
