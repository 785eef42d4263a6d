SPECIFICATION FairSpec
CONSTANTS
  t1 = t1  s1 = s1  s2 = s2  e1 = e1  e2 = e2  e3 = e3  h1 = h1  h2 = h2
  Tenants = {t1}
  Subs = {s1}
  Events = {e1, e2}
  Handlers = {h1, h2}
  NULL = NULL
  SubTenant <- MCOneSubTenant
  SubPlan <- MCOneSubPlan
  Provider = "asaas"
  CancelPolicy = "suspend"
  AdminPlans = {"pro"}
  MaxFaults = 1
INVARIANTS AppliedOnce
PROPERTIES ImplementsLedger EventuallySettled
CHECK_DEADLOCK FALSE
