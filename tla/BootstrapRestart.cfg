SPECIFICATION FairSpec
CONSTANTS
  Keys = {k1, k2}
  Randoms = {r1, r2, r3}
  CredPass = cred
  NoKey = NoKey
  NoPass = NoPass
  MaxFaults = 1
  MaxRevokes = 0

PROPERTY BootstrapSurvivesRestarts
