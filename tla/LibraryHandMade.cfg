SPECIFICATION Spec
CONSTANTS
  Libs = {1}
  p = p
  q = q
  Paths = {p, q}
  ReadOnly <- MCReadOnly
  NoPath = NoPath
  Specs <- MCSpecs
  MaxGen = 2
  MaxHand = 1
  MaxFaults = 0
  CacheLag = FALSE
PROPERTY HandMadeLibrarySurvives
