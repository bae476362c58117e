CONSTANTS
  Items = {"a", "b"}
  CikOf <- OneCik
  Instruments = {"k1", "k2"}
  None = "none"
  Rules = {"any"}
  Matches <- OfOne
  PageSize = 2
  MaxPages = 1
  MaxSeq = 3
  MaxIncidents = 1
SPECIFICATION FairSpec
INVARIANTS TypeOK CursorCovers
PROPERTIES EveryRuleTold FollowsLife CatchesUp
CHECK_DEADLOCK FALSE
