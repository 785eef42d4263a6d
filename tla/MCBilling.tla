------------------------------ MODULE MCBilling ------------------------------
(* Instances of Billing for TLC.                                           *)
EXTENDS Billing, TLC

CONSTANTS t1, s1, s2, e1, e2, e3, h1, h2

\* Two subscriptions of one tenant: a pro one and the enterprise upgrade.
MCSubTenant == (s1 :> t1) @@ (s2 :> t1)
MCSubPlan == (s1 :> "pro") @@ (s2 :> "enterprise")
MCOneSubTenant == s1 :> t1
MCOneSubPlan == s1 :> "pro"

Symmetry == Permutations(Events) \cup Permutations(Handlers)
=============================================================================
