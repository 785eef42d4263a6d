SPECIFICATION LostFairSpec
CONSTANTS
  FreeWaha = TRUE
  Attempts = 2
  Threshold = 2
  MaxIncidents = 2
  MaxRounds = 1
  LateCalls = {"create", "delete"}
INVARIANT LostTypeOK
PROPERTY LostIsRecovered
CHECK_DEADLOCK FALSE
