---------------------------- MODULE MessageQuota ----------------------------
(***************************************************************************)
(* The outbound send of backend/services/providerOrchestrator.service.js   *)
(* and the message quota it charges: sendMessageWithFallback refreshes the *)
(* tenant's billing cycle, checks the limits of the plan, takes one unit   *)
(* of quota with one UPDATE, tries the providers of the channel in order   *)
(* with retries and process-wide health counters, and gives the unit back  *)
(* when none accepted the message.                                         *)
(*                                                                         *)
(* One tenant row: sends of other tenants meet these only in               *)
(* providerHealthStore (OtherTraffic).  max = 0 stands for a max_messages  *)
(* that is NULL or not positive.  tenant_message_usage_logs is written     *)
(* beside every step and read by none of them: it is left out.             *)
(***************************************************************************)
EXTENDS Naturals, Sequences, FiniteSets

CONSTANTS
  Requests,      \* calls of sendMessageWithFallback for the tenant
  Providers,     \* messaging providers
  Channel,       \* primary and fallback providers of the request's channel
  PlanMax,       \* maxMessages of the plan, 0 for none
  Limits,        \* values max_messages takes
  MaxAttempts,   \* MAX_ATTEMPTS of trySendWithRetry
  MinTotal,      \* sends before a provider can be called unhealthy
  Bound          \* how often each kind of event around the sends may happen

\* Sends of other tenants, changes of the row by administrators and billing,
\* ended billing cycles, crashes and failed refunds.
Kinds == {"other", "change", "cycle", "fault"}

ASSUME QuotaAssumption ==
  /\ IsFiniteSet(Requests)
  /\ Channel \in [Requests -> Seq(Providers)]
  /\ PlanMax \in Nat /\ Limits \subseteq Nat
  /\ MaxAttempts \in Nat \ {0} /\ MinTotal \in Nat
  /\ Bound \in [Kinds -> Nat]

VARIABLES
  row,       \* the columns of the tenants row the send reads and writes
  due,       \* billing_cycle_start is 30 days old
  health,    \* providerHealthStore
  req,       \* the state of each call
  budget,    \* what is left of each bound
  charged,   \* ghost: requests whose unit of this cycle was not given back
  late,      \* ghost: units of earlier cycles given back in this cycle
  peak       \* ghost: largest limit under which a unit of this cycle was taken

quotaVars == <<row, due, health, req, budget, charged, late, peak>>
quota == <<row, due, charged, late, peak>>

SendPC == {"idle", "begin", "refreshed", "reading", "consume", "trying", "refund",
       "sent", "failed", "blocked", "gone"}
Reason == {"none", "inactive", "quota", "provider"}
Ended == {"sent", "failed", "blocked", "gone"}
Busy == SendPC \ (Ended \cup {"idle"})

SendState == [pc : SendPC, allowed : SUBSET Providers, left : Seq(Providers),
              attempt : 0 .. MaxAttempts, reason : Reason]
Health == [success : Nat, failure : Nat, recent : BOOLEAN]
Row == [used : Nat, max : Nat, active : BOOLEAN, allowed : SUBSET Providers]

QuotaTypeOK ==
  /\ row \in Row
  /\ due \in BOOLEAN
  /\ health \in [Providers -> Health]
  /\ req \in [Requests -> SendState]
  /\ budget \in [Kinds -> Nat]
  /\ charged \subseteq Requests
  /\ late \in Nat
  /\ peak \in Nat

NewHealth == [success |-> 0, failure |-> 0, recent |-> FALSE]

QuotaInit ==
  /\ row \in {[used |-> 0, max |-> m, active |-> TRUE, allowed |-> Providers] : m \in Limits}
  /\ due = FALSE
  /\ health = [p \in Providers |-> NewHealth]
  /\ req = [r \in Requests |->
              [pc |-> "idle", allowed |-> {}, left |-> <<>>,
               attempt |-> 0, reason |-> "none"]]
  /\ budget = Bound
  /\ charged = {}
  /\ late = 0
  /\ peak = 0

Spend(kind) ==
  /\ budget[kind] > 0
  /\ budget' = [budget EXCEPT ![kind] = @ - 1]

SendGoes(r, pc) == req' = [req EXCEPT ![r].pc = pc]
Block(r, reason) == req' = [req EXCEPT ![r].pc = "blocked", ![r].reason = reason]

-----------------------------------------------------------------------------
(* Provider health.                                                        *)

Unhealthy(h) ==
  /\ h.success + h.failure >= MinTotal
  /\ h.recent
  /\ 10 * h.failure >= 7 * (h.success + h.failure)

MarkSuccess(hs, p) == [hs EXCEPT ![p].success = @ + 1]
MarkFailure(hs, p) == [hs EXCEPT ![p].failure = @ + 1, ![p].recent = TRUE]

\* The loop passes over the providers at the head of the list that the plan
\* does not allow or that are unhealthy, and tries the next or is over.
Passed(r, p, hs) == p \notin req[r].allowed \/ Unhealthy(hs[p])

TryNext(r, list, hs) ==
  \E k \in 0 .. Len(list) :
    /\ \A i \in 1 .. k : Passed(r, list[i], hs)
    /\ k < Len(list) => ~Passed(r, list[k + 1], hs)
    /\ req' = [req EXCEPT ![r].left = SubSeq(list, k + 1, Len(list)),
                          ![r].attempt = IF k < Len(list) THEN 1 ELSE 0,
                          ![r].pc = IF k < Len(list) THEN "trying" ELSE "refund"]

-----------------------------------------------------------------------------
(* The send.                                                               *)

Start(r) ==
  /\ req[r].pc = "idle"
  /\ SendGoes(r, "begin")
  /\ UNCHANGED <<quota, health, budget>>

\* Mutant: the UPDATE that resets the counter has lost its WHERE.
RefreshAlways(r) ==
  /\ req[r].pc \in {"begin", "refreshed"}
  /\ row' = [row EXCEPT !.used = 0]
  /\ due' = FALSE
  /\ charged' = {} /\ late' = 0 /\ peak' = 0
  /\ req' = IF req[r].pc = "refreshed" THEN [req EXCEPT ![r].pc = "reading"]
            ELSE [req EXCEPT ![r].pc = "refreshed", ![r].allowed = row.allowed]
  /\ UNCHANGED <<health, budget>>

\* refreshTenantAfterBillingCycleCheck: by the send itself, which remembers
\* the providers the returned row allows, and again by the limits check.
Refresh(r) ==
  /\ req[r].pc \in {"begin", "refreshed"}
  /\ row' = IF due THEN [row EXCEPT !.used = 0] ELSE row
  /\ due' = FALSE
  /\ charged' = IF due THEN {} ELSE charged
  /\ late' = IF due THEN 0 ELSE late
  /\ peak' = IF due THEN 0 ELSE peak
  /\ req' = IF req[r].pc = "refreshed" THEN [req EXCEPT ![r].pc = "reading"]
            ELSE [req EXCEPT ![r].pc = "refreshed", ![r].allowed = row.allowed]
  /\ UNCHANGED <<health, budget>>

\* assertCanSendMessage reads the row; a missing limit becomes the plan's.
EffectiveMax == IF row.max > 0 THEN row.max ELSE PlanMax

Check(r) ==
  /\ req[r].pc = "reading"
  /\ \/ ~row.active /\ Block(r, "inactive")
     \/ row.active /\ EffectiveMax > 0 /\ row.used >= EffectiveMax /\ Block(r, "quota")
     \/ /\ row.active /\ (EffectiveMax = 0 \/ row.used < EffectiveMax)
        /\ IF \A i \in 1 .. Len(Channel[r]) : Channel[r][i] \notin req[r].allowed
           THEN Block(r, "provider") ELSE SendGoes(r, "consume")
  /\ UNCHANGED <<quota, health, budget>>

\* Mutant: the unit is taken without looking at the limit again.
ConsumeUnguarded(r) ==
  /\ req[r].pc = "consume"
  /\ row' = [row EXCEPT !.used = @ + 1]
  /\ charged' = charged \cup {r}
  /\ peak' = IF row.max > peak THEN row.max ELSE peak
  /\ TryNext(r, Channel[r], health)
  /\ UNCHANGED <<due, late, health, budget>>

\* tryConsumeTenantMessageQuota, and the first provider of the loop.
Consume(r) ==
  /\ req[r].pc = "consume"
  /\ \/ /\ row.max = 0 \/ row.used < row.max
        /\ row' = [row EXCEPT !.used = @ + 1]
        /\ charged' = charged \cup {r}
        /\ peak' = IF row.max > peak THEN row.max ELSE peak
        /\ TryNext(r, Channel[r], health)
     \/ /\ row.max > 0 /\ row.used >= row.max
        /\ Block(r, "quota")
        /\ UNCHANGED <<row, charged, peak>>
  /\ UNCHANGED <<due, late, health, budget>>

\* The provider accepts the message and its answer arrives.
Accept(r) ==
  /\ req[r].pc = "trying"
  /\ health' = MarkSuccess(health, Head(req[r].left))
  /\ SendGoes(r, "sent")
  /\ UNCHANGED <<quota, budget>>

\* The attempt raises an error, whatever the provider did with the message.
AttemptFails(r) ==
  /\ req[r].pc = "trying"
  /\ IF req[r].attempt < MaxAttempts
     THEN /\ req' = [req EXCEPT ![r].attempt = @ + 1]
          /\ UNCHANGED health
     ELSE /\ health' = MarkFailure(health, Head(req[r].left))
          /\ TryNext(r, Tail(req[r].left), health')
  /\ UNCHANGED <<quota, budget>>

\* Mutant: the loop ends without giving the unit back.
RefundSkipped(r) ==
  /\ req[r].pc = "refund"
  /\ SendGoes(r, "failed")
  /\ UNCHANGED <<quota, health, budget>>

\* Mutant: the unit is given back for every provider that failed.
RefundTwice(r) ==
  /\ req[r].pc = "refund"
  /\ row' = [row EXCEPT !.used = IF @ > 1 THEN @ - 2 ELSE 0]
  /\ charged' = charged \ {r}
  /\ late' = IF r \in charged THEN late ELSE late + 1
  /\ SendGoes(r, "failed")
  /\ UNCHANGED <<due, peak, health, budget>>

\* refundTenantMessageQuota: one unit of whatever cycle the row is in by now.
Refund(r) ==
  /\ req[r].pc = "refund"
  /\ row' = [row EXCEPT !.used = IF @ > 0 THEN @ - 1 ELSE 0]
  /\ charged' = charged \ {r}
  /\ late' = IF r \in charged THEN late ELSE late + 1
  /\ SendGoes(r, "failed")
  /\ UNCHANGED <<due, peak, health, budget>>

\* The refund's UPDATE fails: the error is logged and the unit stays taken.
RefundFails(r) ==
  /\ req[r].pc = "refund"
  /\ Spend("fault")
  /\ SendGoes(r, "failed")
  /\ UNCHANGED <<quota, health>>

-----------------------------------------------------------------------------
(* Around the send.                                                        *)

\* The process ends: its calls and the health counters are lost.
SendsDie ==
  /\ \E r \in Requests : req[r].pc \in Busy
  /\ req' = [r \in Requests |-> IF req[r].pc \in Busy
                                THEN [req[r] EXCEPT !.pc = "gone"] ELSE req[r]]
  /\ health' = [p \in Providers |-> NewHealth]
  /\ Spend("fault")
  /\ UNCHANGED <<quota>>

CycleEnds ==
  /\ ~due /\ due' = TRUE
  /\ Spend("cycle")
  /\ UNCHANGED <<row, health, req, charged, late, peak>>

\* updateTenant and the billing effects write limit, status and providers.
ChangeRow(m, on, ps) ==
  /\ row' = [row EXCEPT !.max = m, !.active = on, !.allowed = ps]
  /\ row' # row
  /\ Spend("change")
  /\ UNCHANGED <<due, health, req, charged, late, peak>>

\* Ten minutes pass since the provider's last failure.
Cooldown(p) ==
  /\ health[p].recent
  /\ health' = [health EXCEPT ![p].recent = FALSE]
  /\ UNCHANGED <<quota, req, budget>>

\* The send of another tenant through p ends.
OtherTraffic(p) ==
  /\ health' \in {MarkSuccess(health, p), MarkFailure(health, p)}
  /\ Spend("other")
  /\ UNCHANGED <<quota, req>>

Step(r) == \/ Refresh(r) \/ Check(r) \/ Consume(r)
           \/ Accept(r) \/ AttemptFails(r) \/ Refund(r)

QuotaNext ==
  \/ \E r \in Requests : Start(r) \/ Step(r) \/ RefundFails(r)
  \/ SendsDie \/ CycleEnds
  \/ \E m \in Limits, on \in BOOLEAN, ps \in SUBSET Providers : ChangeRow(m, on, ps)
  \/ \E p \in Providers : Cooldown(p) \/ OtherTraffic(p)

QuotaSpec == QuotaInit /\ [][QuotaNext]_quotaVars

-----------------------------------------------------------------------------
(* Properties.                                                             *)

\* The counter is the units taken in this cycle and not given back, short of
\* at most the units of earlier cycles given back in this one: it never runs
\* ahead of the sends, whatever their interleaving, a reset or a crash.
UsedMatchesUnits ==
  /\ row.used <= Cardinality(charged)
  /\ Cardinality(charged) <= row.used + late

\* The sends that keep a unit of the cycle stay within the largest limit they
\* were taken under, but for units of earlier cycles given back.
LimitKept ==
  (peak > 0 /\ 0 \notin Limits) => Cardinality(charged) <= peak + late

\* As long as no process died and no refund's UPDATE failed, every unit of the
\* cycle belongs to a send that is under way or was delivered: none leaks
\* through a refusal, a skipped provider or an exhausted fallback list.
NoUnitLost ==
  budget["fault"] = Bound["fault"] =>
    \A r \in charged : req[r].pc \in {"trying", "refund", "sent"}

\* The counter goes back only at the one reset of a due cycle, however many
\* sends notice that it ended, or by the unit of a send that no provider took.
ResetOnce ==
  [][row'.used < row.used =>
       \/ due /\ ~due'
       \/ /\ row'.used = row.used - 1
          /\ \E r \in Requests : req[r].pc = "refund" /\ req'[r].pc = "failed"]_quotaVars
=============================================================================
