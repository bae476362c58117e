CONSTANTS
  None = None
  Sources = {"feed", "other"}
  Inputs <- PriceAndRate
  Rules = {"r1", "r2"}
  RuleSpec <- OneOnEach
  Sessions = {p1, p2}
  RuleLimit = 2
  FutureSkew = 0
  DefaultWindow = 2
  MaxTime = 3
SYMMETRY Alike
SPECIFICATION Spec
INVARIANTS ExactlyOnce
PROPERTIES EvaluationMovesForward FiresOnCrossings
CHECK_DEADLOCK FALSE
