SPECIFICATION FairSpec
CONSTANTS
  Exports = {e1, e2}
  MaxSize = 2
  Storages <- MCStorages
  MaxEdits = 2
  MaxDeletes = 1
  MaxFaults = 1
INVARIANTS TypeOK BoundClaimKeepsVolume 
PROPERTIES InstanceNotWedged GrowthReachesClaim
CHECK_DEADLOCK FALSE
