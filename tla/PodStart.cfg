SPECIFICATION FairSpec
CONSTANTS
  Plugins = {1, 2}
  Versions = {1, 2}
  Hooks <- MCHooks
  PluginSpecs <- MCPluginSpecs
  MaxEdits = 2
  MaxFaults = 1
INVARIANTS TypeOK StagedWhole FailClosed RunsOnce
PROPERTY PodStarts
CHECK_DEADLOCK FALSE
