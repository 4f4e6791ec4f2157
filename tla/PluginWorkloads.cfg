SPECIFICATION FairSpec
CONSTANTS
  Workloads = {w1}
  DeclaresService = TRUE
  FirstBindings = {"compatible", "incompatible", "unbound"}
  MaxEdits = 2
  MaxFaults = 1
INVARIANTS TypeOK FinalizerFirst QuietMeansReconciled
PROPERTIES TeardownLeavesNothingDeclared ReportedPodsDrained
PROPERTIES TeardownCompletes WorkloadsConverge
CHECK_DEADLOCK FALSE
