----------------------------- MODULE TenantPlan -----------------------------
(***************************************************************************)
(* What the plan of one tenant lets it do: the number of channels, and the *)
(* features, which are those of the plan changed by overrides.  Both are   *)
(* read through caches in the memory of each process; a change empties     *)
(* those of the process that made it, the API, and nobody empties those of *)
(* the worker.  A reader that is under way when a change empties a cache   *)
(* fills it afterwards with what it read before.  A change whose answer is *)
(* lost with the connection is made and empties nothing.                   *)
(*                                                                         *)
(* The overrides are changed by an administrator, from a page that keeps   *)
(* its own copy of the plan's features, and each change leaves a row in    *)
(* the history, from which it can be reverted.  The history is a set: its  *)
(* created_at is the time of the BEGIN, before the row is locked, so it    *)
(* does not order the commits.  A tick is the time to live of the limits.  *)
(***************************************************************************)
EXTENDS Naturals

CONSTANTS
  Tasks,        \* requests that may be under way at once
  ApiTasks,     \* those of the API; the others are jobs of the worker
  Features,     \* features that pro has and free has not
  LimitsTTL, FeaturesTTL,  \* times to live of the caches, in ticks
  MaxRun,       \* ticks a request may take
  MaxRequests   \* changes and creations in a behaviour

ASSUME TenantPlanAssumption ==
  /\ ApiTasks \subseteq Tasks
  /\ LimitsTTL \in Nat \ {0} /\ FeaturesTTL \in Nat \ {0}
  /\ MaxRun \in Nat /\ MaxRequests \in Nat

VARIABLES
  tenant,    \* the columns plan, flags and active of its row
  channels,  \* its rows in channels
  audit,     \* the history of the overrides
  limits,    \* the limits cached in the API
  features,  \* the features cached in each process
  page,      \* what the page of the administrator has as the plan's features
  at, snap,  \* place of each task and what it has read
  barred,    \* ticks since the row last allowed one more channel or one was deleted
  requests

caches == <<limits, features>>
planVars == <<tenant, channels, audit, caches, page, at, snap, barred, requests>>

Procs == {"api", "worker"}
Plans == {"free", "pro"}
PlanFeatures == [free |-> {}, pro |-> Features]
MaxChannels == [free |-> 1, pro |-> 2]   \* PLANS has 1 and 5; what counts is that pro allows more

Overrides == UNION {[S -> BOOLEAN] : S \in SUBSET Features}
NoFlags == [f \in {} |-> FALSE]
Tenants == [plan : Plans, flags : Overrides, active : BOOLEAN]
NoLimits == [age |-> 0, plan |-> "none", active |-> FALSE, count |-> 0]
NoFeatures == [age |-> FeaturesTTL, on |-> {}]
\* What a task holds: how long it has run, the row and the count it read, and the
\* overrides it was asked for.
Nothing == [run |-> 0, plan |-> "free", active |-> FALSE, flags |-> NoFlags, count |-> 0,
            on |-> {}, want |-> NoFlags, from |-> "none"]
\* The buttons of the page that wait for the answer of a request, and other callers.
Origins == {"none", "features", "form", "history"}
Places == {"idle", "check", "row", "count", "store", "insert", "readFeatures",
           "storeFeatures", "read", "commit", "invalidate", "refresh"}
ProcOf(t) == IF t \in ApiTasks THEN "api" ELSE "worker"

\* validateTenantFeatureFlags has only the keys of Features in a map of overrides.
Effective(plan, flags) ==
  {f \in Features : IF f \in DOMAIN flags THEN flags[f] ELSE f \in PlanFeatures[plan]}
computeFeaturesForTenantRow(r) == Effective(r.plan, r.flags)

\* Overrides that say what the plan says are not kept.
normalizeSparseOverrides(want, plan) ==
  [f \in {g \in DOMAIN want : want[g] # (g \in PlanFeatures[plan])} |-> want[f]]

\* canCreateChannel, of what a context says.
Allows(active, plan, count) == active /\ count < MaxChannels[plan]
MayCreate == tenant.active /\ channels < MaxChannels[tenant.plan]

Window == LimitsTTL + 2 * MaxRun

\* What may be cached, and what a task may hold.
Entries == [age : 0 .. LimitsTTL - 1, plan : Plans \cup {"none"}, active : BOOLEAN, count : Nat]
Answers == [age : 0 .. FeaturesTTL, on : SUBSET Features]
Snaps == [run : 0 .. MaxRun, plan : Plans, active : BOOLEAN, flags : Overrides, count : Nat,
          on : SUBSET Features, want : Overrides, from : Origins]

PlanTypeOK ==
  /\ tenant \in Tenants
  /\ channels \in Nat
  /\ audit \subseteq [previous : Overrides, next : Overrides]
  /\ limits \in Entries
  /\ features \in [Procs -> Answers]
  /\ page \subseteq Features
  /\ at \in [Tasks -> Places]
  /\ snap \in [Tasks -> Snaps]
  /\ barred \in 0 .. Window + 1
  /\ requests \in 0 .. MaxRequests

PlanInit ==
  /\ tenant = [plan |-> "free", flags |-> NoFlags, active |-> TRUE]
  /\ channels = 0 /\ audit = {}
  /\ limits = NoLimits
  /\ features = [p \in Procs |-> NoFeatures]
  /\ page = PlanFeatures[tenant.plan]
  /\ at = [t \in Tasks |-> "idle"]
  /\ snap = [t \in Tasks |-> Nothing]
  /\ barred = 0 /\ requests = 0

----------------------------------------------------------------------------
Go(t, place) == at' = [at EXCEPT ![t] = place]
Done(t) == Go(t, "idle") /\ snap' = [snap EXCEPT ![t] = Nothing]
\* A task that goes on keeps no more than it needs.
Keep(t, held) == snap' = [snap EXCEPT ![t] = [held EXCEPT !.run = snap[t].run]]
Counted == requests < MaxRequests /\ requests' = requests + 1
\* The clock of `barred` starts again while the row allows one more channel.
Watch == barred' = IF MayCreate' THEN 0 ELSE barred

\* Mutants: an entry lives until it is emptied, or a tick too long.
OlderUnbounded(entry, ttl, none) ==
  IF entry # none /\ entry.age < ttl THEN [entry EXCEPT !.age = @ + 1] ELSE none
NeverOlder(entry, ttl, none) == entry

\* An entry a tick later; one that is too old is as good as none.
Older(entry, ttl, none) ==
  IF entry # none /\ entry.age + 1 < ttl THEN [entry EXCEPT !.age = @ + 1] ELSE none

(* POST /channels: requireActiveTenant asks the row, canCreateChannel the cache. *)
CreateStart(t) ==
  /\ at[t] = "idle" /\ t \in ApiTasks /\ Counted
  /\ IF tenant.active THEN Go(t, "check") ELSE UNCHANGED at
  /\ UNCHANGED <<tenant, channels, audit, caches, page, snap, barred>>

Decide(t, entry) ==
  IF Allows(entry.active, entry.plan, entry.count)
    THEN Go(t, "insert") /\ Keep(t, Nothing) ELSE Done(t)

LimitsHit(t) ==
  /\ at[t] = "check" /\ limits # NoLimits
  /\ Decide(t, limits)
  /\ UNCHANGED <<tenant, channels, audit, caches, page, barred, requests>>

LimitsMiss(t) ==
  /\ at[t] = "check" /\ limits = NoLimits
  /\ Go(t, "row")
  /\ UNCHANGED <<tenant, channels, audit, caches, page, snap, barred, requests>>

\* loadTenantLimitsContext: the row, the count, then the entry and the decision.
LoadRow(t) ==
  /\ at[t] = "row" /\ Go(t, "count")
  /\ snap' = [snap EXCEPT ![t].plan = tenant.plan, ![t].active = tenant.active]
  /\ UNCHANGED <<tenant, channels, audit, caches, page, barred, requests>>

LoadCount(t) ==
  /\ at[t] = "count" /\ Go(t, "store")
  /\ snap' = [snap EXCEPT ![t].count = channels]
  /\ UNCHANGED <<tenant, channels, audit, caches, page, barred, requests>>

StoreLimits(t) ==
  /\ at[t] = "store"
  /\ limits' = [age |-> 0, plan |-> snap[t].plan, active |-> snap[t].active,
                count |-> snap[t].count]
  /\ Decide(t, limits')
  /\ UNCHANGED <<tenant, channels, audit, features, page, barred, requests>>

\* The INSERT; the cached count is not touched.
CreateChannel(t) ==
  /\ at[t] = "insert"
  /\ channels' = channels + 1
  /\ Done(t)
  /\ UNCHANGED <<tenant, audit, caches, page, requests>> /\ Watch

\* DELETE /channels/:id, and the administrator's POST, which asks for no limit.
DeleteChannel ==
  /\ channels > 0 /\ Counted
  /\ channels' = channels - 1 /\ barred' = 0
  /\ UNCHANGED <<tenant, audit, caches, page, at, snap>>

AdminCreateChannel ==
  /\ Counted
  /\ channels' = channels + 1
  /\ UNCHANGED <<tenant, audit, caches, page, at, snap>> /\ Watch

----------------------------------------------------------------------------
(* getTenantFeaturePayload, for hasTenantFeature in either process: an entry answers
   at once, and where there is none the row does; the new entry is as old as the
   lookup that filled it.                                                        *)
LookFeatures(t) ==
  /\ at[t] = "idle" /\ features[ProcOf(t)] = NoFeatures
  /\ Go(t, "readFeatures")
  /\ UNCHANGED <<tenant, channels, audit, caches, page, snap, barred, requests>>

ReadFeatures(t) ==
  /\ at[t] = "readFeatures" /\ Go(t, "storeFeatures")
  /\ snap' = [snap EXCEPT ![t].on = computeFeaturesForTenantRow(tenant)]
  /\ UNCHANGED <<tenant, channels, audit, caches, page, barred, requests>>

StoreFeatures(t) ==
  /\ at[t] = "storeFeatures" /\ Done(t)
  /\ features' = [features EXCEPT ![ProcOf(t)] =
                   IF snap[t].run < FeaturesTTL THEN [age |-> snap[t].run, on |-> snap[t].on]
                   ELSE NoFeatures]
  /\ UNCHANGED <<tenant, channels, audit, limits, page, barred, requests>>

----------------------------------------------------------------------------
(* The page of the administrator keeps the features of the plan, and what the form
   answers has none: then they are taken to be the defaults, all off.            *)
Shown(r) == PlanFeatures[r.plan]
DefaultFeatures == {}

OpenPage ==
  /\ page' = Shown(tenant)
  /\ UNCHANGED <<tenant, channels, audit, caches, at, snap, barred, requests>>

\* A request for other overrides; `shown` is the draft that the page had.
Ask(t, want, shown, from) ==
  /\ at[t] = "idle" /\ t \in ApiTasks /\ Counted
  /\ Go(t, "read")
  /\ snap' = [snap EXCEPT ![t].want = want, ![t].on = shown, ![t].from = from]
  /\ UNCHANGED <<tenant, channels, audit, caches, page, barred>>

\* The draft, whose switches may be in any position, where it differs from the plan.
Differing(base, draft) ==
  [f \in (base \ draft) \cup (draft \ base) |-> f \in draft]

SaveFeatures(t) ==
  \E draft \in SUBSET Features : Ask(t, Differing(page, draft), draft, "features")
ResetToPlan(t) == Ask(t, NoFlags, {}, "none")
ApplyTemplate(t) == \E b \in BOOLEAN : Ask(t, [f \in Features |-> b], {}, "history")
\* The row of the history does not change after the handler has read it.
Revert(t) == \E row \in audit : Ask(t, row.previous, {}, "history")

(* The three handlers read the tenant, and a revert that changes nothing ends there. *)
ReadTenant(t) ==
  /\ at[t] = "read"
  /\ \/ /\ Go(t, "commit")
        /\ snap' = [snap EXCEPT ![t].plan = tenant.plan, ![t].flags = tenant.flags]
     \/ /\ snap[t].from = "history"
        /\ normalizeSparseOverrides(snap[t].want, tenant.plan) = tenant.flags
        /\ Done(t)
  /\ UNCHANGED <<tenant, channels, audit, caches, page, barred, requests>>

\* withTenantFeatureFlagsTransaction: the row and the history, or neither.
Commit(t) ==
  LET next == normalizeSparseOverrides(snap[t].want, snap[t].plan) IN
  /\ at[t] = "commit" /\ Go(t, "invalidate")
  /\ tenant' = [tenant EXCEPT !.flags = next]
  /\ audit' = audit \cup {[previous |-> snap[t].flags, next |-> next]}
  /\ Keep(t, [Nothing EXCEPT !.from = snap[t].from])
  /\ UNCHANGED <<channels, caches, page, barred, requests>>

Rollback(t) ==
  /\ at[t] = "commit" /\ Done(t)
  /\ UNCHANGED <<tenant, channels, audit, caches, page, barred, requests>>

\* PATCH of the tenant by the form or by another caller, its suspension, and the
\* plan that a payment brings.
SetPlan(t) ==
  /\ at[t] = "idle" /\ t \in ApiTasks /\ Counted
  /\ \E plan \in Plans, active \in BOOLEAN :
       tenant' = [tenant EXCEPT !.plan = plan, !.active = active]
  /\ \E from \in {"none", "form"} : snap' = [snap EXCEPT ![t].from = from]
  /\ Go(t, "invalidate")
  /\ UNCHANGED <<channels, audit, caches, page>> /\ Watch

(* After the commit, invalidateTenantLimitsCache; then the page has its answer, and
   after a template or a revert it asks for the tenant again.                     *)
Invalidate(t) ==
  /\ at[t] = "invalidate"
  /\ limits' = NoLimits
  /\ features' = [features EXCEPT !["api"] = NoFeatures]
  /\ page' = IF snap[t].from = "form" THEN DefaultFeatures ELSE page
  /\ IF snap[t].from = "history" THEN Go(t, "refresh") /\ UNCHANGED snap ELSE Done(t)
  /\ UNCHANGED <<tenant, channels, audit, barred, requests>>

\* The connection is lost after the COMMIT (runBillingEnvelope and activatePlan,
\* withTenantFeatureFlagsTransaction) or after the UPDATE of the PATCH: the handler
\* fails, what it wrote stays, and the caches are as they were.
AnswerLost(t) ==
  /\ at[t] = "invalidate" /\ Done(t)
  /\ UNCHANGED <<tenant, channels, audit, caches, page, barred, requests>>

\* The API dies and is started again, with empty caches and nothing under way.
Restart ==
  /\ at' = [t \in Tasks |-> IF t \in ApiTasks THEN "idle" ELSE at[t]]
  /\ snap' = [t \in Tasks |-> IF t \in ApiTasks THEN Nothing ELSE snap[t]]
  /\ limits' = NoLimits
  /\ features' = [features EXCEPT !["api"] = NoFeatures]
  /\ UNCHANGED <<tenant, channels, audit, page, barred, requests>>

RefreshPage(t) ==
  /\ at[t] = "refresh" /\ Done(t)
  /\ page' = Shown(tenant)
  /\ UNCHANGED <<tenant, channels, audit, caches, barred, requests>>

----------------------------------------------------------------------------
\* A tick makes the entries and the requests older.
Tick ==
  /\ \A t \in Tasks : at[t] # "idle" => snap[t].run < MaxRun
  /\ limits' = Older(limits, LimitsTTL, NoLimits)
  /\ features' = [p \in Procs |-> Older(features[p], FeaturesTTL, NoFeatures)]
  /\ snap' = [t \in Tasks |-> IF at[t] = "idle" THEN snap[t] ELSE [snap[t] EXCEPT !.run = @ + 1]]
  /\ barred' = IF MayCreate \/ barred > Window THEN barred ELSE barred + 1
  /\ UNCHANGED <<tenant, channels, audit, page, at, requests>>

PlanStep(t) ==
  \/ LimitsHit(t) \/ LimitsMiss(t) \/ LoadRow(t) \/ LoadCount(t) \/ StoreLimits(t)
  \/ CreateChannel(t) \/ ReadFeatures(t) \/ StoreFeatures(t)
  \/ ReadTenant(t) \/ Commit(t) \/ Rollback(t) \/ Invalidate(t) \/ AnswerLost(t)
  \/ RefreshPage(t)

PlanNext ==
  \/ \E t \in Tasks :
       \/ CreateStart(t) \/ LookFeatures(t) \/ SaveFeatures(t) \/ ResetToPlan(t)
       \/ ApplyTemplate(t) \/ Revert(t) \/ SetPlan(t) \/ PlanStep(t)
  \/ DeleteChannel \/ AdminCreateChannel
  \/ OpenPage
  \/ Restart
  \/ Tick

PlanSpec == PlanInit /\ [][PlanNext]_planVars
\* Each statement ends, and time passes.
PlanFairSpec == PlanSpec /\ WF_planVars(Tick) /\ \A t \in Tasks : WF_planVars(PlanStep(t))

----------------------------------------------------------------------------
\* However many requests share a cached count, and whatever they and the changes of
\* the plan overlap with, no request of the tenant adds a channel once its row has
\* refused one for Window ticks and none was deleted meanwhile: a deletion between the
\* two reads may let the plan of before it and the count of after it allow what the
\* row at no time did (assertCanCreateChannel, loadTenantLimitsContext).
RefusedSoon == \A t \in Tasks : at[t] = "insert" => barred <= Window

\* When the administrators stop, every process comes to answer by the features the
\* tenant has, the worker too, whose cache nobody empties, and however often it is
\* asked (getTenantFeaturePayload).
FeaturesConverge ==
  <>[](\A p \in Procs : features[p].age < FeaturesTTL
                         => features[p].on = computeFeaturesForTenantRow(tenant))
=============================================================================
