SPECIFICATION FairSpec
CONSTANTS
  i1 = i1
  i2 = i2
  Plugins = {p1}
  Instances = {i1, i2}
  NoRef = NoRef
  MaxVersion = 2
  PluginSpecs <- MCPluginSpecs
  InstanceSpecs <- MCInstanceSpecs
  MaxEdits = 1
  MaxFaults = 1
INVARIANTS TypeOK QuietMeansGated
PROPERTIES GateConverges SettlesDown
CHECK_DEADLOCK FALSE
