SPECIFICATION LiveSpec
CONSTANTS
  c1 = c1 c2 = c2
  Calls = {c1, c2}
  KindsOf <- MCKindsOf
  Slots = 1 Attempts = 2 HttpTries = 2 Threshold = 2
  OpenFor = 1 TTL = 1 Limit = 1 MaxFaults = 1
INVARIANTS TypeOK OkIsDone ListIsRecent
PROPERTY CallersAnswered
