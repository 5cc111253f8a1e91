SPECIFICATION Spec
CONSTANTS
  none = none
  inf = inf
  None = none
  Infinity = inf
  Matches <- Globs
  AssetKey <- AssetKeys
  Clean <- Paths
  Initial <- Projects
  Drafts <- Alternatives
  Revisions <- Contents
  Online = {"net.target", "user-net.service"}
  Entries <- Images
  Levels <- Table
  Rank <- Ranks
  Identifier <- NearestIdentifier
  Place <- Sorted
  TicksPerSecond = 2
  Composes <- ComposeFiles
  Hosts <- Homes
  MaxEdits = 5
CHECK_DEADLOCK FALSE
INVARIANTS FocusAgrees ConsumersWait FlapsCaught ImportKeepsApart ImportOrders VariablesAsked
PROPERTIES FollowingKeeps StampFollows
