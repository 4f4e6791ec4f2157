SPECIFICATION FairSpec
CONSTANTS
  Keys = {k1, k2}
  Randoms = {r1, r2, r3}
  CredPass = cred
  NoKey = NoKey
  NoPass = NoPass
  MaxFaults = 2
  MaxRevokes = 2
INVARIANTS TypeOK SecretOpensServer
PROPERTIES AuthenticatesUnlessPasswordLost CredentialsAlwaysSuffice ImplementsCredentials
