---------------------------- MODULE MCTenantPlan ----------------------------
\* Instances of TenantPlan for TLC.
EXTENDS TenantPlan, TLC

CONSTANTS t1, t2, w1, healing
=============================================================================
