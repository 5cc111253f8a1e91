SPECIFICATION Spec
CONSTANTS
  k1 = k1
  k2 = k2
  s1 = s1
  s2 = s2
  Keys = {k1, k2}
  Sessions = {s1}
  Tags <- SmallTags
  Published <- OldTags
  NoTag <- Untagged
  Invalid <- Unparsable
  NoDigest = NoDigest
  NoAge = NoAge
  Initial <- HugeInitial
  Commands <- UpdateAll
  DefaultMinAge = 1
  Ages <- HugeAges
  Width = 4
  MaxDigests = 2
  MaxClock = 1
  MaxCommands = 2
  MaxFaults = 1
CHECK_DEADLOCK FALSE
PROPERTY YoungIsNamed
