SPECIFICATION Spec
CONSTANTS
  s1 = s1
  s2 = s2
  Names = {1, 2, 3, 4}
  Sessions = {s1, s2}
  HandAuthored <- ByHand
  UnitRefs = {4}
  Foreign = {3}
  Commands <- SmallCommands
  NoName = NoName
  MaxValues = 3
  MaxCommands = 3
  MaxFaults = 1
CHECK_DEADLOCK FALSE
PROPERTIES RecordedFirst AllMeansAll AdoptKeeps PruneExact
