------------------------------- MODULE Billing -------------------------------
(***************************************************************************)
(* The payment webhooks of backend/services/billing.service.js: every      *)
(* delivery is handled by one transaction (runBillingEnvelope) that takes  *)
(* an advisory lock on the provider's event, a row lock on the tenant, a   *)
(* savepoint around the effect, and leaves the outcome in billing_events.  *)
(* The payment provider (Stripe or Asaas) is external: it moves            *)
(* subscriptions, emits an event per move, and redelivers until it is      *)
(* answered with a 2xx.                                                    *)
(*                                                                         *)
(* Abstractions: a plan stands for its limits too, since the statements    *)
(* that write plan write max_agents and max_messages beside it; an         *)
(* envelope has one item or none, as both parsers build it; the write of   *)
(* the tenant row inside the transaction is taken at COMMIT, because the   *)
(* row lock is held from before the write to there.                        *)
(***************************************************************************)
EXTENDS Naturals, FiniteSets

CONSTANTS
  Tenants,       \* rows of the tenants table
  Subs,          \* external subscriptions, each opened by one checkout
  Events,        \* provider event ids
  Handlers,      \* requests inside the API process that run an envelope
  NULL,          \* NULL in billing_subscription_id; no event
  SubTenant,     \* metadata.tenantId of the subscription
  SubPlan,       \* metadata.plan of the subscription
  Provider,      \* PAYMENT_PROVIDER
  CancelPolicy,  \* BILLING_CANCEL_POLICY
  AdminPlans,    \* plans set without a webhook (bounds an instance)
  MaxFaults      \* bound on errors, lost connections, crashes and duplicates

Plans == {"free", "pro", "enterprise"}
PaidPlans == {"pro", "enterprise"}

ASSUME BillingAssumption ==
  /\ SubTenant \in [Subs -> Tenants]
  /\ SubPlan \in [Subs -> PaidPlans]
  /\ NULL \notin Subs \cup Events
  /\ Provider \in {"stripe", "asaas"}
  /\ CancelPolicy \in {"downgrade", "suspend"}
  /\ AdminPlans \subseteq Plans
  /\ MaxFaults \in Nat

VARIABLES
  sub,      \* provider: state of each subscription
  event,    \* provider: the emitted events, as normalised items
  unacked,  \* provider: events it still redelivers
  status,   \* billing_events.status as committed
  tenant,   \* the billing columns of each tenant row as committed
  handler,  \* program counter, event and mode of each handler
  request,  \* the createCheckout or cancelSubscription a tenant has in flight
  faults,   \* faults injected so far
  applied,  \* ghost: how many commits carried the effect of each event
  granted   \* ghost: tenants whose plan was set without a webhook

providerVars == <<sub, event, unacked>>
dbVars == <<status, tenant>>
ghosts == <<applied, granted>>
vars == <<sub, event, unacked, status, tenant, handler, request, faults, applied, granted>>

Activations == {"payment_success", "subscription_active"}
ItemTypes == Activations \cup {"payment_failed", "subscription_canceled"}
NoEvent == [type |-> "unsent", sub |-> NULL]
NoItems == [type |-> "none", sub |-> NULL]
Item == [type : ItemTypes, sub : Subs]
Event == Item \cup {NoItems, NoEvent}

SubState == {"none", "open", "active", "past_due", "canceled"}
Status == {"none", "failed", "processed", "ignored"}
Settled == {"processed", "ignored"}
TenantRow == [plan : Plans, active : BOOLEAN, sub : Subs \cup {NULL},
              billing : {"null", "ok", "past_due", "canceled"}]
IdleRequest == [kind |-> "idle", sub |-> NULL]
Request == {IdleRequest} \cup
           [kind : {"checkout", "cancel", "clear"}, sub : Subs]

-----------------------------------------------------------------------------
(* Handlers.  pc: "begin" waits for the advisory lock; "locked" holds it;  *)
(* "tenant" also holds the tenant row; "confirmed" and "rejected" follow   *)
(* the question to the provider; "committed" is after COMMIT, before the   *)
(* cache is invalidated and the request answered.                          *)

InTxn == {"locked", "tenant", "confirmed", "rejected"}
HoldsRow == {"tenant", "confirmed", "rejected"}
PC == {"begin", "committed"} \cup InTxn
Idle == [pc |-> "idle", ev |-> NULL, mode |-> "live"]
BusyHandler == [pc : PC, ev : Events, mode : {"live", "reprocess"}]

LocksEvent(h, e) == handler[h].ev = e /\ handler[h].pc \in InTxn
TargetOf(e) == SubTenant[event[e].sub]
LocksTenant(h, t) ==
  handler[h].pc \in HoldsRow /\ TargetOf(handler[h].ev) = t
RowFree(t) == \A h \in Handlers : ~LocksTenant(h, t)

Goto(h, pc) == handler' = [handler EXCEPT ![h].pc = pc]
Finish(h) == handler' = [handler EXCEPT ![h] = Idle]

TypeOK ==
  /\ sub \in [Subs -> SubState]
  /\ event \in [Events -> Event]
  /\ unacked \subseteq Events
  /\ status \in [Events -> Status]
  /\ tenant \in [Tenants -> TenantRow]
  /\ handler \in [Handlers -> {Idle} \cup BusyHandler]
  /\ request \in [Tenants -> Request]
  /\ faults \in 0 .. MaxFaults
  /\ applied \in [Events -> Nat]
  /\ granted \subseteq Tenants

Init ==
  /\ sub = [s \in Subs |-> "none"]
  /\ event = [e \in Events |-> NoEvent]
  /\ unacked = {}
  /\ status = [e \in Events |-> "none"]
  /\ tenant = [t \in Tenants |->
                 [plan |-> "free", active |-> TRUE, sub |-> NULL, billing |-> "null"]]
  /\ handler = [h \in Handlers |-> Idle]
  /\ request = [t \in Tenants |-> IdleRequest]
  /\ faults = 0
  /\ applied = [e \in Events |-> 0]
  /\ granted = {}

Fault == faults < MaxFaults /\ faults' = faults + 1

-----------------------------------------------------------------------------
(* The provider.                                                           *)

Emit(e, item) ==
  /\ event[e] = NoEvent
  /\ event' = [event EXCEPT ![e] = item]
  /\ unacked' = unacked \cup {e}

\* The customer pays an open checkout or an overdue invoice.
Pay(s, e) ==
  /\ sub[s] \in {"open", "past_due"}
  /\ sub' = [sub EXCEPT ![s] = "active"]
  /\ \E type \in Activations : Emit(e, [type |-> type, sub |-> s])
  /\ UNCHANGED <<status, tenant, handler, request, faults, applied, granted>>

\* Another event about a subscription that is and stays active.
Notify(s, e) ==
  /\ sub[s] = "active"
  /\ Emit(e, [type |-> "subscription_active", sub |-> s])
  /\ UNCHANGED <<sub, status, tenant, handler, request, faults, applied, granted>>

InvoiceFails(s, e) ==
  /\ sub[s] = "active"
  /\ sub' = [sub EXCEPT ![s] = "past_due"]
  /\ Emit(e, [type |-> "payment_failed", sub |-> s])
  /\ UNCHANGED <<status, tenant, handler, request, faults, applied, granted>>

\* The subscription ends: period over after a cancellation, or given up.
End(s, e) ==
  /\ sub[s] \in {"active", "past_due"}
  /\ sub' = [sub EXCEPT ![s] = "canceled"]
  /\ Emit(e, [type |-> "subscription_canceled", sub |-> s])
  /\ UNCHANGED <<status, tenant, handler, request, faults, applied, granted>>

\* An event type neither parser turns into an item.
EmitOther(e) ==
  /\ Emit(e, NoItems)
  /\ UNCHANGED <<sub, status, tenant, handler, request, faults, applied, granted>>

\* What assertPaidForActivation learns: Stripe is asked for the subscription's
\* current status, Asaas for the payment, which may have been refunded since.
MayConfirm(s) == Provider = "asaas" \/ sub[s] = "active"
MayReject(s) == Provider = "asaas" \/ sub[s] # "active"

-----------------------------------------------------------------------------
(* The envelope.                                                           *)

\* handleWebhook: a (re)delivery of an event that was not answered with 2xx.
Deliver(h, e) ==
  /\ handler[h].pc = "idle"
  /\ e \in unacked
  /\ handler' = [handler EXCEPT ![h] = [pc |-> "begin", ev |-> e, mode |-> "live"]]
  /\ UNCHANGED <<providerVars, dbVars, request, faults, ghosts>>

\* The provider delivers once more an event it knows was received.
Duplicate(h, e) ==
  /\ handler[h].pc = "idle"
  /\ event[e] # NoEvent /\ e \notin unacked
  /\ handler' = [handler EXCEPT ![h] = [pc |-> "begin", ev |-> e, mode |-> "live"]]
  /\ Fault
  /\ UNCHANGED <<providerVars, dbVars, request, ghosts>>

\* reprocessBillingEvent: status is read before the transaction, without a lock.
Reprocess(h, e) ==
  /\ handler[h].pc = "idle"
  /\ status[e] = "failed"
  /\ handler' = [handler EXCEPT ![h] = [pc |-> "begin", ev |-> e, mode |-> "reprocess"]]
  /\ UNCHANGED <<providerVars, dbVars, request, faults, ghosts>>

\* BEGIN, pg_advisory_xact_lock, and the event row read FOR UPDATE.  A live
\* delivery of a duplicate is answered with a 2xx; a reprocess goes on only
\* from a status it may reopen.
OpenEvent(h, duplicate, reopen) ==
  LET e == handler[h].ev IN
  /\ handler[h].pc = "begin"
  /\ \A g \in Handlers : ~LocksEvent(g, e)
  /\ \/ /\ handler[h].mode = "live" /\ status[e] \in duplicate
        /\ unacked' = unacked \ {e}
        /\ Finish(h)
     \/ /\ handler[h].mode = "live" /\ status[e] \notin duplicate
        /\ Goto(h, "locked")
        /\ UNCHANGED unacked
     \/ /\ handler[h].mode = "reprocess"
        /\ IF status[e] \in reopen THEN Goto(h, "locked") ELSE Finish(h)
        /\ UNCHANGED unacked
  /\ UNCHANGED <<sub, event, dbVars, request, faults, ghosts>>

\* Mutants: no duplicate check; failed events taken for duplicates.
LockEventNoDuplicateCheck(h) == OpenEvent(h, {}, {"failed"})
LockEventFailedIsDuplicate(h) == OpenEvent(h, Settled \cup {"failed"}, {"failed"})

LockEvent(h) == OpenEvent(h, Settled, {"failed"})

\* An envelope without items commits as ignored.
CommitEmpty(h) ==
  LET e == handler[h].ev IN
  /\ handler[h].pc = "locked"
  /\ event[e] = NoItems
  /\ status' = [status EXCEPT ![e] = "ignored"]
  /\ Goto(h, "committed")
  /\ UNCHANGED <<providerVars, tenant, request, faults, ghosts>>

\* Mutant: the tenant row is read without FOR UPDATE.
LockTenantNoWait(h) ==
  /\ handler[h].pc = "locked"
  /\ event[handler[h].ev] \in Item
  /\ Goto(h, "tenant")
  /\ UNCHANGED <<providerVars, dbVars, request, faults, ghosts>>

\* processWebhookItem: SELECT ... FOR UPDATE on the tenant.
LockTenant(h) ==
  LET e == handler[h].ev IN
  /\ handler[h].pc = "locked"
  /\ event[e] \in Item
  /\ RowFree(TargetOf(e))
  /\ Goto(h, "tenant")
  /\ UNCHANGED <<providerVars, dbVars, request, faults, ghosts>>

\* Activations are confirmed with the provider while the row is locked.
AskProvider(h) ==
  LET e == handler[h].ev IN
  /\ handler[h].pc = "tenant"
  /\ event[e].type \in Activations
  /\ \/ MayConfirm(event[e].sub) /\ Goto(h, "confirmed")
     \/ MayReject(event[e].sub) /\ Goto(h, "rejected")
  /\ UNCHANGED <<providerVars, dbVars, request, faults, ghosts>>

\* The statement each item type runs on the tenant row.
Effect(row, item) ==
  CASE item.type \in Activations ->
         [plan |-> SubPlan[item.sub], active |-> TRUE, sub |-> item.sub, billing |-> "ok"]
    [] item.type = "payment_failed" -> [row EXCEPT !.billing = "past_due"]
    [] item.type = "subscription_canceled" /\ CancelPolicy = "suspend" ->
         [row EXCEPT !.active = FALSE, !.sub = NULL, !.billing = "canceled"]
    [] item.type = "subscription_canceled" /\ CancelPolicy = "downgrade" ->
         [plan |-> "free", active |-> TRUE, sub |-> NULL, billing |-> "canceled"]

ReadyToApply(h) ==
  \/ handler[h].pc = "confirmed"
  \/ handler[h].pc = "tenant" /\ event[handler[h].ev].type \notin Activations

\* The effect and the outcome become visible in one COMMIT, whose answer the
\* handler may still lose with the connection.
CommitProcessed(h) ==
  LET e == handler[h].ev
      t == TargetOf(e) IN
  /\ ReadyToApply(h)
  /\ tenant' = [tenant EXCEPT ![t] = Effect(@, event[e])]
  /\ status' = [status EXCEPT ![e] = "processed"]
  /\ applied' = [applied EXCEPT ![e] = @ + 1]
  /\ \/ Goto(h, "committed") /\ UNCHANGED faults
     \/ Finish(h) /\ Fault
  /\ UNCHANGED <<providerVars, request, granted>>

\* BillingValidationError: the savepoint undoes the effect, the event is ignored.
CommitIgnored(h) ==
  /\ handler[h].pc = "rejected"
  /\ status' = [status EXCEPT ![handler[h].ev] = "ignored"]
  /\ Goto(h, "committed")
  /\ UNCHANGED <<providerVars, tenant, request, faults, ghosts>>

\* Mutant: no ROLLBACK TO SAVEPOINT.
CommitFailedNoSavepoint(h) ==
  LET e == handler[h].ev IN
  /\ handler[h].pc = "confirmed"
  /\ tenant' = [tenant EXCEPT ![TargetOf(e)] = Effect(@, event[e])]
  /\ status' = [status EXCEPT ![e] = "failed"]
  /\ Finish(h)
  /\ Fault
  /\ UNCHANGED <<providerVars, request, ghosts>>

\* Any other error: the savepoint undoes the effect, the event is committed as
\* failed and the request answered 500, so that the provider retries.
CommitFailed(h) ==
  /\ handler[h].pc \in {"locked", "tenant", "confirmed"}
  /\ status' = [status EXCEPT ![handler[h].ev] = "failed"]
  /\ Finish(h)
  /\ Fault
  /\ UNCHANGED <<providerVars, tenant, request, ghosts>>

\* The 2xx answer (an administrator's reprocess answers nobody at the provider).
\* The limits cached in memory, which are dropped before it, are TenantPlan's.
Respond(h) ==
  /\ handler[h].pc = "committed"
  /\ unacked' = IF handler[h].mode = "live" THEN unacked \ {handler[h].ev} ELSE unacked
  /\ Finish(h)
  /\ UNCHANGED <<sub, event, dbVars, request, faults, ghosts>>

\* The database connection is lost: the open transaction rolls back.
LoseConnection(h) ==
  /\ handler[h].pc \in InTxn \cup {"begin"}
  /\ Finish(h)
  /\ Fault
  /\ UNCHANGED <<providerVars, dbVars, request, ghosts>>

\* The API process dies: transactions roll back, memory is gone.
Crash ==
  /\ handler' = [h \in Handlers |-> Idle]
  /\ request' = [t \in Tenants |-> IdleRequest]
  /\ Fault
  /\ UNCHANGED <<providerVars, dbVars, ghosts>>

-----------------------------------------------------------------------------
(* Requests of the tenant and of administrators.                           *)

Rank(plan) == CASE plan = "free" -> 0 [] plan = "pro" -> 1 [] plan = "enterprise" -> 2

\* createCheckout up to the provider's answer; only upgrades pass.
Checkout(t, s) ==
  /\ request[t] = IdleRequest
  /\ SubTenant[s] = t /\ sub[s] = "none"
  /\ Rank(SubPlan[s]) > Rank(tenant[t].plan)
  /\ sub' = [sub EXCEPT ![s] = "open"]
  /\ request' = [request EXCEPT ![t] = [kind |-> "checkout", sub |-> s]]
  /\ UNCHANGED <<event, unacked, dbVars, handler, faults, ghosts>>

\* updateTenantBillingRefs: COALESCE, and only Asaas already knows the id.
SaveRefs(t) ==
  /\ request[t].kind = "checkout"
  /\ RowFree(t)
  /\ tenant' = IF Provider = "asaas"
                 THEN [tenant EXCEPT ![t].sub = request[t].sub] ELSE tenant
  /\ request' = [request EXCEPT ![t] = IdleRequest]
  /\ UNCHANGED <<providerVars, status, handler, faults, ghosts>>

\* cancelSubscription reads the tenant ...
CancelStart(t) ==
  /\ request[t] = IdleRequest
  /\ tenant[t].sub # NULL
  /\ request' = [request EXCEPT ![t] = [kind |-> "cancel", sub |-> tenant[t].sub]]
  /\ UNCHANGED <<providerVars, dbVars, handler, faults, ghosts>>

\* ... asks the provider (Stripe only marks the end of the period, Asaas
\* deletes the subscription at once and says so in an event) ...
CancelAtProvider(t) ==
  LET s == request[t].sub IN
  /\ request[t].kind = "cancel"
  /\ request' = [request EXCEPT ![t].kind = "clear"]
  /\ \/ /\ Provider = "asaas" /\ sub[s] # "canceled"
        /\ sub' = [sub EXCEPT ![s] = "canceled"]
        /\ \E e \in Events : Emit(e, [type |-> "subscription_canceled", sub |-> s])
     \/ /\ Provider = "stripe" \/ sub[s] = "canceled"
        /\ UNCHANGED providerVars
  /\ UNCHANGED <<dbVars, handler, faults, ghosts>>

\* ... and clears whatever id the row holds by then.
CancelSave(t) ==
  /\ request[t].kind = "clear"
  /\ RowFree(t)
  /\ tenant' = [tenant EXCEPT ![t].sub = NULL]
  /\ request' = [request EXCEPT ![t] = IdleRequest]
  /\ UNCHANGED <<providerVars, status, handler, faults, ghosts>>

\* activatePlan: its own transaction on the locked row, no webhook behind it.
ActivatePlan(t, plan) ==
  /\ plan \in AdminPlans \cap PaidPlans
  /\ RowFree(t)
  /\ tenant' = [tenant EXCEPT ![t] =
                  [@ EXCEPT !.plan = plan, !.active = TRUE, !.billing = "ok"]]
  /\ granted' = granted \cup {t}
  /\ UNCHANGED <<providerVars, status, handler, request, faults, applied>>

\* updateTenant and suspendTenant by a global administrator.
AdminUpdate(t, plan, active) ==
  /\ plan \in AdminPlans
  /\ RowFree(t)
  /\ tenant' = [tenant EXCEPT ![t] = [@ EXCEPT !.plan = plan, !.active = active]]
  /\ granted' = granted \cup {t}
  /\ UNCHANGED <<providerVars, status, handler, request, faults, applied>>

-----------------------------------------------------------------------------

ProviderNext ==
  \E e \in Events :
    \/ EmitOther(e)
    \/ \E s \in Subs : Pay(s, e) \/ Notify(s, e) \/ InvoiceFails(s, e) \/ End(s, e)

Progress(h) ==
  \/ LockEvent(h) \/ CommitEmpty(h) \/ LockTenant(h) \/ AskProvider(h)
  \/ CommitProcessed(h) \/ CommitIgnored(h) \/ Respond(h)

HandlerNext ==
  \E h \in Handlers :
    \/ \E e \in Events : Deliver(h, e) \/ Duplicate(h, e) \/ Reprocess(h, e)
    \/ Progress(h) \/ CommitFailed(h) \/ LoseConnection(h)

TenantNext ==
  \E t \in Tenants :
    \/ \E s \in Subs : Checkout(t, s)
    \/ SaveRefs(t) \/ CancelStart(t) \/ CancelAtProvider(t) \/ CancelSave(t)
    \/ \E plan \in Plans :
         ActivatePlan(t, plan) \/ \E active \in BOOLEAN : AdminUpdate(t, plan, active)

Next == ProviderNext \/ HandlerNext \/ TenantNext \/ Crash

Spec == Init /\ [][Next]_vars

\* The provider keeps redelivering, and a handler runs until it waits for a
\* lock.  Redelivery is strongly fair: every handler may be busy with other
\* events whenever a given event comes up for delivery.
Fairness ==
  /\ \A h \in Handlers : WF_vars(Progress(h))
  /\ \A e \in Events : SF_vars(\E h \in Handlers : Deliver(h, e))

FairSpec == Spec /\ Fairness

-----------------------------------------------------------------------------
(* Properties.                                                             *)

\* The effect of an event is committed at most once, whatever is redelivered,
\* retried after a 500 or reprocessed, and exactly when billing_events says
\* processed: a lost COMMIT answer or a failed sibling never repeats it.
AppliedOnce ==
  \A e \in Events : applied[e] = (IF status[e] = "processed" THEN 1 ELSE 0)

\* processed and ignored are final (runBillingEnvelope answers them as
\* duplicates); in particular a reprocess that read failed before another
\* handler finished the event does not reopen it.
SettledIsFinal ==
  [][\A e \in Events : status[e] \in Settled => status'[e] = status[e]]_vars

\* Deliveries, locks, savepoints, lost connections and crashes amount to the
\* ledger: an event changes the row of its tenant in the step that marks it
\* processed and in no other, its last outcome stays, and a row changes
\* without an event only by a grant or in the subscription that it names.
AboutTenant(item) == SubTenant[item.sub]
L == INSTANCE Ledger WITH
       outcome <- status, row <- tenant, Rows <- TenantRow, Unsent <- NoEvent,
       Items <- Item \cup {NoItems}, Effective <- Item, About <- AboutTenant
ImplementsLedger == L!Spec

PendingCancel(s) ==
  \E e \in Events : /\ event[e] = [type |-> "subscription_canceled", sub |-> s]
                    /\ status[e] # "processed"
Backs(s) == sub[s] \in {"active", "past_due"} \/ PendingCancel(s)

\* With Stripe, an active tenant on a paid plan has a subscription that still
\* runs, or whose cancellation is yet to be processed.  The question to the
\* provider is asked under the row lock, so a payment event confirmed just
\* before the subscription ended cannot overwrite the cancellation.
PaidIsBacked ==
  Provider = "stripe" =>
    \A t \in Tenants \ granted :
      tenant[t].plan \in PaidPlans /\ tenant[t].active =>
        \E s \in Subs : SubTenant[s] = t /\ Backs(s)

\* Every emitted event is settled in the end: 500 answers, lost connections and
\* crashes only delay it, and handlers never wait for each other's locks in a cycle.
EventuallySettled ==
  \A e \in Events : event[e] # NoEvent ~> status[e] \in Settled
=============================================================================
