SPECIFICATION PlanFairSpec
CONSTANTS
  t1 = t1 t2 = t2 w1 = w1 healing = healing
  Tasks = {t1, t2, w1}
  ApiTasks = {t1, t2}
  Features = {healing}
  LimitsTTL = 1
  FeaturesTTL = 1
  MaxRun = 1
  MaxRequests = 2
INVARIANTS PlanTypeOK RefusedSoon
PROPERTY FeaturesConverge
