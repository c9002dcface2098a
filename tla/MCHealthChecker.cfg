SPECIFICATION Spec
CONSTANTS
  Object = {"n", "p", "q"}
  PlaceOf <- MCPlaceOf
  KeyOf <- MCKeyOf
  Caller = {"c1"}
  Clusters <- MCClusters
  MaxChecks = 4
  MaxChanges = 1
INVARIANTS BlindUntilStartedAgain SettledAnswerIsRight
CHECK_DEADLOCK FALSE
