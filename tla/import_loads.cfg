SPECIFICATION Spec
CONSTANTS
  none = none
  inf = inf
  None = none
  Infinity = inf
  Matches <- Globs
  AssetKey <- AssetKeys
  Clean <- Paths
  Initial <- Homes
  Drafts <- Alternatives
  Revisions <- Contents
  Online = {"net.target", "user-net.service"}
  Entries <- Images
  Levels <- Table
  Rank <- Ranks
  Identifier <- NearestIdentifier
  Place <- Sorted
  TicksPerSecond = 2
  Composes <- JustOne
  Hosts <- Homes
  MaxEdits = 1
CHECK_DEADLOCK FALSE
INVARIANT ImportLoads
