SPECIFICATION MCSpec
CONSTANTS
  t1 = t1  s1 = s1  s2 = s2  e1 = e1  e2 = e2  e3 = e3  h1 = h1  h2 = h2
  Tenants = {t1}
  Subs = {s1, s2}
  Events = {e1, e2, e3}
  Handlers = {h1, h2}
  NULL = NULL
  SubTenant <- MCSubTenant
  SubPlan <- MCSubPlan
  Provider = "stripe"
  CancelPolicy = "downgrade"
  AdminPlans = {"pro"}
  MaxFaults = 0
  r1 = r1  r2 = r2  waha = waha  evolution = evolution
  Requests = {r1, r2}
  Providers = {waha, evolution}
  Channel <- MCChannel
  PlanMax = 0
  Limits = {1, 2}
  MaxAttempts = 2
  MinTotal = 2
  Bound <- MCCycles
SYMMETRY Symmetric
INVARIANTS PaidIsBacked NoUnitLost UsedMatchesUnits LimitKept
PROPERTIES ResetOnce
CHECK_DEADLOCK FALSE
