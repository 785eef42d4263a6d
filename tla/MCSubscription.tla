---------------------------- MODULE MCSubscription ----------------------------
(***************************************************************************)
(* What a tenant pays for and what it may send, in one run: the effects of *)
(* the payment providers' events (Billing) and the message quota           *)
(* (MessageQuota).  What billing does to a quota is in both: the limit     *)
(* that MessageQuota changes at any moment.  In a behaviour one of them    *)
(* moves and the other stays as it began.                                  *)
(***************************************************************************)
EXTENDS MCBilling, MessageQuota

CONSTANTS r1, r2, waha, evolution

\* Every channel has waha as its primary provider and evolution as fallback.
MCChannel == [r \in Requests |-> <<waha, evolution>>]

\* Bounds of the sends, by what may happen around them.
MCCycles == [other |-> 1, change |-> 1, cycle |-> 2, fault |-> 1]

VARIABLE moving  \* which of the two

allVars == <<moving, vars, quotaVars>>

MCInit ==
  /\ Init /\ QuotaInit
  /\ moving \in {"billing", "quota"}
  /\ moving = "billing" => \A m \in Limits : row.max <= m

OnBilling == moving = "billing" /\ UNCHANGED <<moving, quotaVars>>
OnQuota == moving = "quota" /\ UNCHANGED <<moving, vars>>

\* Nothing fails on the billing side of this run (MaxFaults = 0), so no Crash.
MCNext ==
  \/ OnBilling /\ ProviderNext
  \/ OnBilling /\ HandlerNext
  \/ OnBilling /\ TenantNext
  \/ \E r \in Requests : OnQuota /\ Start(r)
  \/ \E r \in Requests : OnQuota /\ Step(r)
  \/ \E r \in Requests : OnQuota /\ RefundFails(r)
  \/ OnQuota /\ SendsDie
  \/ OnQuota /\ CycleEnds
  \/ \E m \in Limits, on \in BOOLEAN, ps \in SUBSET Providers : OnQuota /\ ChangeRow(m, on, ps)
  \/ \E p \in Providers : OnQuota /\ Cooldown(p)
  \/ \E p \in Providers : OnQuota /\ OtherTraffic(p)

MCSpec == MCInit /\ [][MCNext]_allVars

Symmetric == Symmetry \cup Permutations(Requests)
===============================================================================
