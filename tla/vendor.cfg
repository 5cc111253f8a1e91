SPECIFICATION Spec
CONSTANTS
  Modules <- ThreeModules
  Snapshots <- ThreeSnapshots
  Refs = {1, NoRef}
  NoRef = NoRef
  Torn = Torn
  MaxCommands = 4
  MaxFaults = 1
CHECK_DEADLOCK FALSE
INVARIANTS DriftExplained Offline
PROPERTIES RestoreHeals
