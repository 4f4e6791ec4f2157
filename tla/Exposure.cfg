SPECIFICATION FairSpec
CONSTANTS
  Ports = {0, 80}
  FirstSpecs <- MCFirst
  Specs <- MCSpecs
  GatewayInstalled = TRUE
  MaxGen = 2
  MaxUpsets = 1
INVARIANTS TypeOK QuietMeansExposed
PROPERTY ExposureConverges
CHECK_DEADLOCK FALSE
