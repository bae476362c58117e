CONSTANTS
  None = None
  Sources = {"feed", "other"}
  Inputs <- RateOfTwo
  Rules = {"r1", "r2"}
  RuleSpec <- TwoOnRate
  Sessions = {p1, p2}
  RuleLimit = 2
  FutureSkew = 0
  DefaultWindow = 2
  MaxTime = 2
SPECIFICATION FairSpec
INVARIANTS CirclesOfSeveralSources
PROPERTIES RecordingEnds
CHECK_DEADLOCK FALSE
