SPECIFICATION Spec
CONSTANTS
  Plugins = {1}
  Versions = {1, 2}
  Hooks <- MCAllHooks
  PluginSpecs <- MCUpgrade
  MaxEdits = 1
  MaxFaults = 0
INVARIANT FirstRunOncePerInstance
CHECK_DEADLOCK FALSE
