---------------------------- MODULE BillingProofs ----------------------------
(* Proofs about Billing, for every set of tenants, subscriptions, events    *)
(* and handlers.                                                            *)
EXTENDS Billing, TLAPS

-----------------------------------------------------------------------------
(* The inductive invariant.                                                *)

\* Only emitted events are delivered and recorded.
OnlyEmitted ==
  /\ \A e \in unacked : event[e] # NoEvent
  /\ \A e \in Events : status[e] # "none" => event[e] # NoEvent

\* What a handler knows at each point of runBillingEnvelope: inside the
\* transaction the event is not settled, past the row lock it has an item, and
\* only activations are put to the provider.
HandlerKnows ==
  \A h \in Handlers :
    LET e == handler[h].ev IN
    /\ handler[h].pc # "idle" => event[e] # NoEvent
    /\ handler[h].pc \in InTxn => status[e] \notin Settled
    /\ handler[h].pc \in HoldsRow => event[e] \in Item
    /\ handler[h].pc \in {"confirmed", "rejected"} => event[e].type \in Activations

\* The advisory lock and the row lock each have one holder.
LocksExclusive ==
  \A g, h \in Handlers : g # h =>
    /\ handler[g].pc \in InTxn /\ handler[h].pc \in InTxn =>
         handler[g].ev # handler[h].ev
    /\ handler[g].pc \in HoldsRow /\ handler[h].pc \in HoldsRow =>
         TargetOf(handler[g].ev) # TargetOf(handler[h].ev)

\* The answer of Stripe stays good until the handler that asked commits: the
\* subscription still runs, or its cancellation waits for the row.
ConfirmedIsBacked ==
  Provider = "stripe" =>
    \A h \in Handlers :
      handler[h].pc = "confirmed" => Backs(event[handler[h].ev].sub)

Core == TypeOK /\ OnlyEmitted /\ HandlerKnows

-----------------------------------------------------------------------------
(* Facts about single values.                                              *)

LEMMA ItemFacts ==
  /\ \A i \in Item : i # NoEvent /\ i # NoItems /\ i.type \in ItemTypes /\ i.sub \in Subs
  /\ NoEvent \notin Item /\ NoItems \notin Item /\ NoItems # NoEvent
  /\ \A i \in Event : i # NoEvent /\ i # NoItems => i \in Item
  /\ \A s \in Subs, k \in ItemTypes : [type |-> k, sub |-> s] \in Item
  BY BillingAssumption DEF Item, ItemTypes, Activations, NoEvent, NoItems, Event

\* Effect keeps the row well formed.
LEMMA EffectType ==
  ASSUME NEW row \in TenantRow, NEW i \in Item
  PROVE  Effect(row, i) \in TenantRow
<1>1. CASE i.type \in Activations
  BY <1>1, BillingAssumption DEF Effect, TenantRow, Item, ItemTypes, Activations, Plans, PaidPlans
<1>2. CASE i.type = "payment_failed"
  BY <1>2, BillingAssumption DEF Effect, TenantRow, Item, ItemTypes, Activations, Plans
<1>3. CASE i.type = "subscription_canceled"
  BY <1>3, BillingAssumption DEF Effect, TenantRow, Item, ItemTypes, Activations, Plans
<1> QED BY <1>1, <1>2, <1>3 DEF Item, ItemTypes

\* Writing some columns of a well-formed row keeps it well formed.
LEMMA RowUpdates ==
  ASSUME NEW row \in TenantRow
  PROVE  /\ \A x \in Subs \cup {NULL} : [row EXCEPT !.sub = x] \in TenantRow
         /\ \A p \in Plans, b \in BOOLEAN :
              [row EXCEPT !.plan = p, !.active = b] \in TenantRow
         /\ \A p \in Plans :
              [row EXCEPT !.plan = p, !.active = TRUE, !.billing = "ok"] \in TenantRow
  BY DEF TenantRow

\* A handler that has left the idle state carries an event.
LEMMA BusyFacts ==
  ASSUME TypeOK, NEW h \in Handlers, handler[h].pc # "idle"
  PROVE  /\ handler[h] \in BusyHandler
         /\ handler[h].ev \in Events
         /\ \A pc \in PC : [handler[h] EXCEPT !.pc = pc] \in BusyHandler
  BY DEF TypeOK, Idle, BusyHandler

-----------------------------------------------------------------------------
(* Core: types, and what handlers know.                                    *)

LEMMA InitCore == Init => Core
  BY BillingAssumption, ItemFacts
  DEF Init, Core, TypeOK, OnlyEmitted, HandlerKnows, Idle, InTxn, HoldsRow, Settled,
      SubState, Event, Status, TenantRow, Plans, IdleRequest, Request

\* The moves of the provider, of tenants and of administrators leave handlers
\* and outcomes alone.
LEMMA OtherCoreStep ==
  ASSUME Core, ProviderNext \/ TenantNext \/ Crash
  PROVE  Core'
<1> USE BillingAssumption, ItemFacts DEF Core
<1>1. ASSUME NEW e \in Events, NEW i \in Item \cup {NoItems}, Emit(e, i), sub' \in [Subs -> SubState],
             UNCHANGED <<status, tenant, handler, request, faults, applied, granted>>
      PROVE  Core'
  <2>1. TypeOK'
    BY <1>1 DEF TypeOK, Emit, Event
  <2>2. OnlyEmitted'
    BY <1>1 DEF TypeOK, OnlyEmitted, Emit, Event
  <2>3. HandlerKnows'
    BY <1>1 DEF TypeOK, HandlerKnows, Emit, Event, HoldsRow, InTxn, Idle, BusyHandler
  <2> QED BY <2>1, <2>2, <2>3
<1>2. ASSUME NEW e \in Events, EmitOther(e) PROVE Core'
  BY <1>1, <1>2 DEF EmitOther, TypeOK
<1>3. ASSUME NEW e \in Events, NEW s \in Subs,
             Pay(s, e) \/ Notify(s, e) \/ InvoiceFails(s, e) \/ End(s, e)
      PROVE  Core'
  <2>1. sub' \in [Subs -> SubState]
    BY <1>3 DEF TypeOK, SubState, Pay, Notify, InvoiceFails, End
  <2>2. \E i \in Item : Emit(e, i)
    BY <1>3 DEF Pay, Notify, InvoiceFails, End, ItemTypes, Activations
  <2> QED BY <1>1, <1>3, <2>1, <2>2 DEF Pay, Notify, InvoiceFails, End
<1>4. ASSUME NEW t \in Tenants, NEW s \in Subs, Checkout(t, s) PROVE Core'
  BY <1>4 DEF Checkout, TypeOK, SubState, Request, IdleRequest, OnlyEmitted, HandlerKnows,
              dbVars, ghosts
<1>5. ASSUME NEW t \in Tenants, SaveRefs(t) PROVE Core'
  <2>1. request[t].sub \in Subs
    BY <1>5 DEF SaveRefs, TypeOK, Request, IdleRequest
  <2>2. tenant' \in [Tenants -> TenantRow]
    <3>1. [tenant EXCEPT ![t].sub = request[t].sub] \in [Tenants -> TenantRow]
      BY <2>1, RowUpdates DEF TypeOK
    <3> QED BY <1>5, <3>1 DEF SaveRefs, TypeOK
  <2> QED BY <1>5, <2>2 DEF SaveRefs, TypeOK, Request, OnlyEmitted, HandlerKnows,
                            providerVars, ghosts
<1>6. ASSUME NEW t \in Tenants, CancelStart(t) PROVE Core'
  <2>1. tenant[t].sub \in Subs
    BY <1>6 DEF CancelStart, TypeOK, TenantRow
  <2> QED BY <1>6, <2>1 DEF CancelStart, TypeOK, Request, OnlyEmitted, HandlerKnows,
                            providerVars, dbVars, ghosts
<1>7. ASSUME NEW t \in Tenants, CancelAtProvider(t) PROVE Core'
  <2>1. request[t] \in [kind : {"checkout", "cancel", "clear"}, sub : Subs]
    BY <1>7 DEF CancelAtProvider, TypeOK, Request, IdleRequest
  <2>2. request' \in [Tenants -> Request]
    BY <1>7, <2>1 DEF CancelAtProvider, TypeOK, Request
  <2>3. CASE UNCHANGED providerVars
    BY <1>7, <2>2, <2>3 DEF CancelAtProvider, TypeOK, OnlyEmitted, HandlerKnows,
                            providerVars, dbVars, ghosts
  <2>4. ASSUME NEW e \in Events, sub' = [sub EXCEPT ![request[t].sub] = "canceled"],
               Emit(e, [type |-> "subscription_canceled", sub |-> request[t].sub])
        PROVE  Core'
    <3>1. sub' \in [Subs -> SubState]
      BY <2>1, <2>4 DEF TypeOK, SubState
    <3>2. [type |-> "subscription_canceled", sub |-> request[t].sub] \in Item
      BY <2>1 DEF ItemTypes
    <3>3. TypeOK'
      BY <1>7, <2>2, <2>4, <3>1, <3>2 DEF CancelAtProvider, TypeOK, Emit, Event, dbVars, ghosts
    <3>4. OnlyEmitted'
      BY <1>7, <2>4, <3>2 DEF CancelAtProvider, TypeOK, OnlyEmitted, Emit, Event, dbVars
    <3>5. HandlerKnows'
      BY <1>7, <2>4, <3>2 DEF CancelAtProvider, TypeOK, HandlerKnows, Emit, Event, HoldsRow,
                              InTxn, Idle, BusyHandler, dbVars
    <3> QED BY <3>3, <3>4, <3>5
  <2> QED BY <1>7, <2>3, <2>4 DEF CancelAtProvider
<1>8. ASSUME NEW t \in Tenants, CancelSave(t) PROVE Core'
  BY <1>8 DEF CancelSave, TypeOK, TenantRow, Request, OnlyEmitted, HandlerKnows,
              providerVars, ghosts
<1>9. ASSUME NEW t \in Tenants, NEW plan \in Plans, ActivatePlan(t, plan) PROVE Core'
  <2>1. tenant' \in [Tenants -> TenantRow]
    BY <1>9, RowUpdates DEF ActivatePlan, TypeOK
  <2> QED BY <1>9, <2>1 DEF ActivatePlan, TypeOK, OnlyEmitted, HandlerKnows, providerVars
<1>10. ASSUME NEW t \in Tenants, NEW plan \in Plans, NEW active \in BOOLEAN,
              AdminUpdate(t, plan, active) PROVE Core'
  <2>1. tenant' \in [Tenants -> TenantRow]
    BY <1>10, RowUpdates DEF AdminUpdate, TypeOK
  <2> QED BY <1>10, <2>1 DEF AdminUpdate, TypeOK, OnlyEmitted, HandlerKnows, providerVars
<1>12. ASSUME Crash PROVE Core'
  BY <1>12 DEF Crash, Fault, TypeOK, OnlyEmitted, HandlerKnows, InTxn, HoldsRow, Idle, Request,
               providerVars, dbVars, ghosts
<1> QED BY <1>2, <1>3, <1>4, <1>5, <1>6, <1>7, <1>8, <1>9, <1>10, <1>12
        DEF ProviderNext, TenantNext

-----------------------------------------------------------------------------
(* The handlers: Core and the two locks together, since what one handler   *)
(* knows about an event survives the others only by mutual exclusion.      *)

Locked == Core /\ LocksExclusive

LEMMA HandlerLockedStep ==
  ASSUME Locked, NEW h \in Handlers,
         \/ \E e \in Events : Deliver(h, e) \/ Duplicate(h, e) \/ Reprocess(h, e)
         \/ Progress(h) \/ CommitFailed(h) \/ LoseConnection(h)
  PROVE  Locked'
<1> USE BillingAssumption, ItemFacts DEF Locked, Core
<1> DEFINE Known(g) == LET e == handler[g].ev IN
      /\ handler[g].pc # "idle" => event[e] # NoEvent
      /\ handler[g].pc \in InTxn => status[e] \notin Settled
      /\ handler[g].pc \in HoldsRow => event[e] \in Item
      /\ handler[g].pc \in {"confirmed", "rejected"} => event[e].type \in Activations
<1>a. ASSUME NEW e \in Events, NEW mode \in {"live", "reprocess"},
             handler[h].pc = "idle", event[e] # NoEvent,
             handler' = [handler EXCEPT ![h] = [pc |-> "begin", ev |-> e, mode |-> mode]],
             faults' \in 0 .. MaxFaults,
             UNCHANGED <<providerVars, dbVars, request, ghosts>>
      PROVE  Locked'
  BY <1>a DEF TypeOK, BusyHandler, PC, OnlyEmitted, HandlerKnows, LocksExclusive, InTxn, HoldsRow,
              TargetOf, providerVars, dbVars, ghosts
<1>1. ASSUME NEW e \in Events, Deliver(h, e) PROVE Locked'
  BY <1>1, <1>a DEF Deliver, OnlyEmitted, TypeOK
<1>2. ASSUME NEW e \in Events, Duplicate(h, e) PROVE Locked'
  <2>1. faults' \in 0 .. MaxFaults
    BY <1>2 DEF Duplicate, Fault, TypeOK
  <2> QED BY <1>2, <1>a, <2>1 DEF Duplicate
<1>3. ASSUME NEW e \in Events, Reprocess(h, e) PROVE Locked'
  BY <1>3, <1>a DEF Reprocess, OnlyEmitted, TypeOK
\* Leaving the transaction, with whatever outcome was written.
<1>b. ASSUME NEW pc \in {"idle", "committed"}, NEW st \in Status,
             handler[h].pc # "idle",
             \/ status' = status
             \/ /\ handler[h].pc \in InTxn /\ st # "none"
                /\ status' = [status EXCEPT ![handler[h].ev] = st],
             handler' = [handler EXCEPT ![h] = IF pc = "idle" THEN Idle ELSE [@ EXCEPT !.pc = pc]],
             tenant' \in [Tenants -> TenantRow],
             unacked' \subseteq unacked, faults' \in 0 .. MaxFaults,
             applied' \in [Events -> Nat],
             UNCHANGED <<sub, event, request, granted>>
      PROVE  Locked'
  <2>1. /\ handler[h] \in BusyHandler /\ handler[h].ev \in Events
        /\ pc = "committed" => [handler[h] EXCEPT !.pc = pc] \in BusyHandler
    BY <1>b, BusyFacts DEF PC
  <2>2. TypeOK'
    BY <1>b, <2>1 DEF TypeOK, PC, BusyHandler
  <2>3. OnlyEmitted'
    BY <1>b, <2>1 DEF TypeOK, OnlyEmitted, HandlerKnows, InTxn
  <2>4. /\ handler'[h].pc \notin InTxn \cup HoldsRow \cup {"confirmed", "rejected"}
        /\ handler'[h].pc # "idle" => handler'[h].ev = handler[h].ev
        /\ \A g \in Handlers : g # h => handler'[g] = handler[g]
    BY <1>b, <2>1 DEF TypeOK, BusyHandler, InTxn, HoldsRow, Idle
  <2>5. LocksExclusive'
    BY <1>b, <2>4 DEF LocksExclusive, TargetOf
  <2>6. HandlerKnows'
    <3> SUFFICES ASSUME NEW g \in Handlers PROVE Known(g)'
      BY DEF HandlerKnows
    <3>1. CASE g = h
      BY <1>b, <2>4, <3>1 DEF HandlerKnows
    <3>2. CASE g # h
      <4>1. Known(g) /\ handler'[g] = handler[g]
        BY <2>4, <3>2 DEF HandlerKnows
      <4>2. handler[g].pc \in InTxn => status'[handler[g].ev] = status[handler[g].ev]
        <5>1. handler[g].pc \in InTxn => handler[g].ev \in Events
          BY BusyFacts DEF InTxn
        <5>2. handler[g].pc \in InTxn /\ handler[h].pc \in InTxn => handler[g].ev # handler[h].ev
          BY <3>2 DEF LocksExclusive
        <5> QED BY <1>b, <2>1, <5>1, <5>2 DEF TypeOK
      <4> QED BY <1>b, <4>1, <4>2
    <3> QED BY <3>1, <3>2
  <2> QED BY <2>2, <2>3, <2>5, <2>6
\* Moving on inside the transaction.
<1>c. ASSUME NEW pc \in InTxn, handler[h].pc # "idle",
             handler' = [handler EXCEPT ![h].pc = pc],
             status[handler[h].ev] \notin Settled,
             handler[h].pc \in InTxn \/ \A g \in Handlers : ~LocksEvent(g, handler[h].ev),
             pc \in HoldsRow => event[handler[h].ev] \in Item,
             pc \in HoldsRow => handler[h].pc \in HoldsRow \/ RowFree(TargetOf(handler[h].ev)),
             pc \in {"confirmed", "rejected"} => event[handler[h].ev].type \in Activations,
             UNCHANGED <<providerVars, dbVars, request, faults, ghosts>>
      PROVE  Locked'
  <2>1. handler[h] \in BusyHandler /\ handler[h].ev \in Events
        /\ [handler[h] EXCEPT !.pc = pc] \in BusyHandler
    BY <1>c, BusyFacts DEF PC, InTxn
  <2>2. TypeOK'
    BY <1>c, <2>1 DEF TypeOK, providerVars, dbVars, ghosts
  <2>3. OnlyEmitted'
    BY <1>c DEF OnlyEmitted, providerVars, dbVars
  <2>4. /\ handler'[h].pc = pc /\ handler'[h].ev = handler[h].ev
        /\ \A g \in Handlers : g # h => handler'[g] = handler[g]
    BY <1>c, <2>1 DEF TypeOK, BusyHandler
  <2>5. HandlerKnows'
    BY <1>c, <2>4 DEF HandlerKnows, providerVars, dbVars
  <2>6. LocksExclusive'
    BY <1>c, <2>4 DEF LocksExclusive, LocksEvent, RowFree, LocksTenant, TargetOf, providerVars,
                      InTxn, HoldsRow
  <2> QED BY <2>2, <2>3, <2>5, <2>6
<1>4. ASSUME LockEvent(h) PROVE Locked'
  <2> DEFINE e == handler[h].ev
  <2>1. handler[h].pc # "idle" /\ faults \in 0 .. MaxFaults /\ tenant \in [Tenants -> TenantRow]
        /\ applied \in [Events -> Nat] /\ "none" \in Status
    BY <1>4 DEF LockEvent, OpenEvent, TypeOK, Status
  <2>2. CASE Finish(h) /\ unacked' \in {unacked, unacked \ {e}}
    BY <1>4, <1>b, <2>1, <2>2 DEF LockEvent, OpenEvent, Finish, dbVars, ghosts
  <2>3. CASE Goto(h, "locked") /\ UNCHANGED unacked /\ status[e] \notin Settled
    BY <1>4, <1>c, <2>1, <2>3 DEF LockEvent, OpenEvent, Goto, InTxn, HoldsRow, providerVars
  <2> QED BY <1>4, <2>2, <2>3 DEF LockEvent, OpenEvent, Settled
<1>5. ASSUME CommitEmpty(h) PROVE Locked'
  <2>1. handler[h].pc \in InTxn /\ handler[h].pc # "idle" /\ "ignored" \in Status
        /\ handler[h] \in BusyHandler
    BY <1>5, BusyFacts DEF CommitEmpty, InTxn, Status
  <2> QED BY <1>5, <1>b, <2>1 DEF CommitEmpty, Goto, TypeOK, providerVars, ghosts
<1>6. ASSUME LockTenant(h) PROVE Locked'
  BY <1>6, <1>c DEF LockTenant, Goto, InTxn, HoldsRow, HandlerKnows
<1>7. ASSUME AskProvider(h) PROVE Locked'
  BY <1>7, <1>c DEF AskProvider, Goto, InTxn, HoldsRow, HandlerKnows
<1>8. ASSUME CommitProcessed(h) PROVE Locked'
  <2> DEFINE e == handler[h].ev
  <2>1. handler[h].pc \in HoldsRow /\ handler[h].pc \in InTxn /\ handler[h].pc # "idle"
        /\ handler[h] \in BusyHandler /\ e \in Events
    BY <1>8, BusyFacts DEF CommitProcessed, ReadyToApply, HoldsRow, InTxn
  <2>2. event[e] \in Item /\ TargetOf(e) \in Tenants
    BY <2>1 DEF HandlerKnows, TargetOf
  <2>3. tenant' \in [Tenants -> TenantRow]
    BY <1>8, <2>2, EffectType DEF CommitProcessed, TypeOK
  <2>4. applied' \in [Events -> Nat] /\ "processed" \in Status
    BY <1>8, <2>1, <2>2 DEF CommitProcessed, TypeOK, Status
  <2>5. faults' \in 0 .. MaxFaults
    BY <1>8 DEF CommitProcessed, TypeOK, Fault
  <2>6. \E pc \in {"idle", "committed"} :
          handler' = [handler EXCEPT ![h] = IF pc = "idle" THEN Idle ELSE [@ EXCEPT !.pc = pc]]
    BY <1>8 DEF CommitProcessed, Goto, Finish
  <2> QED BY <1>8, <1>b, <2>1, <2>3, <2>4, <2>5, <2>6 DEF CommitProcessed, TypeOK, providerVars
<1>9. ASSUME CommitIgnored(h) PROVE Locked'
  <2>1. handler[h].pc \in InTxn /\ handler[h].pc # "idle" /\ "ignored" \in Status
    BY <1>9 DEF CommitIgnored, InTxn, Status
  <2> QED BY <1>9, <1>b, <2>1 DEF CommitIgnored, Goto, TypeOK, providerVars, ghosts
<1>10. ASSUME CommitFailed(h) PROVE Locked'
  <2>1. handler[h].pc \in InTxn /\ handler[h].pc # "idle" /\ "failed" \in Status
    BY <1>10 DEF CommitFailed, InTxn, Status
  <2>2. faults' \in 0 .. MaxFaults
    BY <1>10 DEF CommitFailed, TypeOK, Fault
  <2> QED BY <1>10, <1>b, <2>1, <2>2 DEF CommitFailed, Finish, TypeOK, providerVars, ghosts
<1>11. ASSUME Respond(h) PROVE Locked'
  <2>1. handler[h].pc # "idle" /\ "none" \in Status
    BY <1>11 DEF Respond, Status
  <2>2. unacked' \subseteq unacked
    BY <1>11 DEF Respond, TypeOK
  <2> QED BY <1>11, <1>b, <2>1, <2>2 DEF Respond, Finish, TypeOK, dbVars, ghosts
<1>12. ASSUME LoseConnection(h) PROVE Locked'
  <2>1. handler[h].pc # "idle" /\ "none" \in Status
    BY <1>12 DEF LoseConnection, InTxn, Status
  <2>2. faults' \in 0 .. MaxFaults
    BY <1>12 DEF LoseConnection, TypeOK, Fault
  <2> QED BY <1>12, <1>b, <2>1, <2>2 DEF LoseConnection, Finish, TypeOK, providerVars, dbVars, ghosts
<1> QED BY <1>1, <1>2, <1>3, <1>4, <1>5, <1>6, <1>7, <1>8, <1>9, <1>10, <1>11, <1>12 DEF Progress

LEMMA OtherLockedStep ==
  ASSUME Locked, ProviderNext \/ TenantNext \/ Crash
  PROVE  Locked'
<1>1. Core'
  BY OtherCoreStep DEF Locked
<1>2. CASE Crash
  BY <1>1, <1>2 DEF Locked, Crash, LocksExclusive, Idle, InTxn, HoldsRow
<1>3. CASE ProviderNext \/ TenantNext
  <2>1. UNCHANGED handler
    BY <1>3 DEF ProviderNext, TenantNext, Pay, Notify, InvoiceFails, End, EmitOther, Checkout, SaveRefs,
        CancelStart, CancelAtProvider, CancelSave, ActivatePlan, AdminUpdate
  <2>2. \A e \in Events : event[e] # NoEvent => event'[e] = event[e]
    BY <1>3 DEF Locked, Core, TypeOK, ProviderNext, TenantNext, Pay, Notify, InvoiceFails, End, EmitOther,
        Emit, Checkout, SaveRefs, CancelStart, CancelAtProvider, CancelSave, ActivatePlan, AdminUpdate,
        providerVars
  <2>3. \A h \in Handlers : handler[h].pc \in HoldsRow => event[handler[h].ev] # NoEvent
                                                           /\ handler[h].ev \in Events
    BY ItemFacts, BusyFacts DEF Locked, Core, HandlerKnows, HoldsRow
  <2> QED BY <1>1, <2>1, <2>2, <2>3 DEF Locked, LocksExclusive, TargetOf
<1> QED BY <1>2, <1>3, OtherCoreStep

LEMMA LockedStep == Locked /\ [Next]_vars => Locked'
<1>1. CASE Next
  BY <1>1, HandlerLockedStep, OtherLockedStep DEF Next, HandlerNext
<1>2. CASE UNCHANGED vars
  BY <1>2 DEF vars, Locked, Core, TypeOK, OnlyEmitted, HandlerKnows, LocksExclusive, TargetOf
<1> QED BY <1>1, <1>2

LEMMA LockedAlways == Spec => []Locked
<1>1. Init => Locked
  BY InitCore DEF Locked, Init, LocksExclusive, Idle, InTxn, HoldsRow
<1> QED BY <1>1, LockedStep, PTL DEF Spec

\* Type correctness of the billing component.
THEOREM TypeCorrect == Spec => []TypeOK
<1>1. Locked => TypeOK
  BY DEF Locked, Core
<1> QED BY <1>1, LockedAlways, PTL

-----------------------------------------------------------------------------
(* Each effect is applied once.                                            *)

LEMMA AppliedStep == Locked /\ AppliedOnce /\ [Next]_vars => AppliedOnce'
<1> SUFFICES ASSUME Locked, AppliedOnce, [Next]_vars PROVE AppliedOnce'
  OBVIOUS
<1>1. CASE UNCHANGED <<status, applied>>
  BY <1>1 DEF AppliedOnce
<1>2. ASSUME NEW h \in Handlers, NEW st \in {"ignored", "failed"}, handler[h].pc \in InTxn,
             status' = [status EXCEPT ![handler[h].ev] = st], UNCHANGED applied
      PROVE  AppliedOnce'
  <2>1. status[handler[h].ev] # "processed"
    BY <1>2 DEF Locked, Core, HandlerKnows, Settled
  <2> QED BY <1>2, <2>1 DEF AppliedOnce, Locked, Core, TypeOK
<1>3. ASSUME NEW h \in Handlers, CommitProcessed(h) PROVE AppliedOnce'
  <2>1. handler[h].pc \in InTxn
    BY <1>3 DEF CommitProcessed, ReadyToApply, InTxn
  <2>2. status[handler[h].ev] # "processed" /\ handler[h].ev \in Events
    BY <2>1, BusyFacts DEF Locked, Core, HandlerKnows, Settled, InTxn
  <2> QED BY <1>3, <2>2 DEF CommitProcessed, AppliedOnce, Locked, Core, TypeOK
<1>4. ASSUME NEW h \in Handlers, CommitEmpty(h) \/ CommitIgnored(h) \/ CommitFailed(h)
      PROVE  AppliedOnce'
  BY <1>2, <1>4 DEF CommitEmpty, CommitIgnored, CommitFailed, InTxn, ghosts
<1>5. ASSUME ProviderNext \/ TenantNext \/ Crash PROVE UNCHANGED <<status, applied>>
  BY <1>5 DEF ProviderNext, TenantNext, Pay, Notify, InvoiceFails, End, EmitOther, Checkout, SaveRefs,
      CancelStart, CancelAtProvider, CancelSave, ActivatePlan, AdminUpdate, Crash,
      dbVars, ghosts
<1>6. ASSUME NEW h \in Handlers,
             \/ \E e \in Events : Deliver(h, e) \/ Duplicate(h, e) \/ Reprocess(h, e)
             \/ LockEvent(h) \/ LockTenant(h) \/ AskProvider(h) \/ Respond(h) \/ LoseConnection(h)
      PROVE  UNCHANGED <<status, applied>>
  BY <1>6 DEF Deliver, Duplicate, Reprocess, LockEvent, OpenEvent, LockTenant, AskProvider, Respond,
      LoseConnection, dbVars, ghosts
<1> QED BY <1>1, <1>3, <1>4, <1>5, <1>6 DEF Next, HandlerNext, Progress, vars

\* Whatever the deliveries, retries, reprocessings and faults, the effect of an
\* event is committed exactly as often as its status says: once or never.
THEOREM EffectOnce == Spec => []AppliedOnce
<1>1. Init => Locked /\ AppliedOnce
  BY InitCore DEF Locked, Init, AppliedOnce, LocksExclusive, Idle, InTxn, HoldsRow
<1>2. Spec => [](Locked /\ AppliedOnce)
  BY <1>1, LockedStep, AppliedStep, PTL DEF Spec
<1> QED BY <1>2, PTL

-----------------------------------------------------------------------------
(* A paid plan is backed.                                                  *)

\* A settled event is never reopened: the commits write only to events that
\* the open transaction found unsettled.
LEMMA SettledStep ==
  ASSUME Locked, [Next]_vars
  PROVE  \A e \in Events : status[e] \in Settled => status'[e] = status[e]
<1>1. CASE UNCHANGED status
  BY <1>1
<1>2. ASSUME NEW h \in Handlers, NEW st, handler[h].pc \in InTxn,
             status' = [status EXCEPT ![handler[h].ev] = st]
      PROVE  \A e \in Events : status[e] \in Settled => status'[e] = status[e]
  BY <1>2 DEF Locked, Core, HandlerKnows, TypeOK
<1>3. ASSUME NEW h \in Handlers,
             CommitEmpty(h) \/ CommitProcessed(h) \/ CommitIgnored(h) \/ CommitFailed(h)
      PROVE  handler[h].pc \in InTxn /\ \E st : status' = [status EXCEPT ![handler[h].ev] = st]
  BY <1>3 DEF CommitEmpty, CommitProcessed, ReadyToApply, CommitIgnored, CommitFailed, InTxn
<1>4. ASSUME ProviderNext \/ TenantNext \/ Crash PROVE UNCHANGED status
  BY <1>4 DEF ProviderNext, TenantNext, Pay, Notify, InvoiceFails, End, EmitOther, Checkout, SaveRefs,
      CancelStart, CancelAtProvider, CancelSave, ActivatePlan, AdminUpdate, Crash, dbVars
<1>5. ASSUME NEW h \in Handlers,
             \/ \E e \in Events : Deliver(h, e) \/ Duplicate(h, e) \/ Reprocess(h, e)
             \/ LockEvent(h) \/ LockTenant(h) \/ AskProvider(h) \/ Respond(h) \/ LoseConnection(h)
      PROVE  UNCHANGED status
  BY <1>5 DEF Deliver, Duplicate, Reprocess, LockEvent, OpenEvent, LockTenant, AskProvider, Respond,
      LoseConnection, dbVars
<1> QED BY <1>1, <1>2, <1>3, <1>4, <1>5 DEF Next, HandlerNext, Progress, vars

\* processed and ignored are final.
THEOREM SettledFinal == Spec => SettledIsFinal
<1>1. Locked /\ [Next]_vars =>
        [\A e \in Events : status[e] \in Settled => status'[e] = status[e]]_vars
  BY SettledStep
<1> QED BY <1>1, LockedAlways, PTL DEF Spec, SettledIsFinal

CancelOf(s) == [type |-> "subscription_canceled", sub |-> s]
CommitsCancelOf(s) ==
  \E h \in Handlers : CommitProcessed(h) /\ event[handler[h].ev] = CancelOf(s)

\* With Stripe a subscription stops backing its plan only in the step that
\* processes its cancellation.
LEMMA BacksStep ==
  ASSUME Locked, Provider = "stripe", Next, NEW s \in Subs, Backs(s), ~CommitsCancelOf(s)
  PROVE  Backs(s)'
<1> USE BillingAssumption, ItemFacts DEF Locked, Core
<1>1. \A e \in Events : event[e] # NoEvent => event'[e] = event[e]
  BY DEF Next, ProviderNext, HandlerNext, Progress, TenantNext, Crash, Pay, Notify, InvoiceFails, End,
     EmitOther, Emit, Checkout, SaveRefs, CancelStart, CancelAtProvider, CancelSave, ActivatePlan,
     AdminUpdate, Deliver, Duplicate, Reprocess, LockEvent, OpenEvent, CommitEmpty,
     LockTenant, AskProvider, CommitProcessed, CommitIgnored, CommitFailed, Respond, LoseConnection,
     providerVars, TypeOK
<1>2. CASE PendingCancel(s)
  <2>1. PICK e \in Events : event[e] = CancelOf(s) /\ status[e] # "processed"
    BY <1>2 DEF PendingCancel, CancelOf
  <2>2. event'[e] = CancelOf(s)
    BY <1>1, <2>1 DEF CancelOf, NoEvent
  <2>3. status'[e] # "processed"
    BY <2>1 DEF Next, ProviderNext, HandlerNext, Progress, TenantNext, Crash, Pay, Notify, InvoiceFails,
       End, EmitOther, Checkout, SaveRefs, CancelStart, CancelAtProvider, CancelSave, ActivatePlan,
       AdminUpdate, Deliver, Duplicate, Reprocess, LockEvent, OpenEvent, CommitEmpty,
       LockTenant, AskProvider, CommitProcessed, CommitIgnored, CommitFailed, Respond, LoseConnection,
       dbVars, TypeOK, CommitsCancelOf
  <2> QED BY <2>2, <2>3 DEF Backs, PendingCancel, CancelOf
<1>3. CASE sub[s] \in {"active", "past_due"}
  <2>1. ASSUME NEW e \in Events, End(s, e) PROVE Backs(s)'
    <3>1. status[e] = "none" /\ status' = status
      BY <2>1 DEF End, Emit, OnlyEmitted
    <3>2. event'[e] = CancelOf(s)
      BY <2>1 DEF End, Emit, CancelOf, TypeOK
    <3> QED BY <3>1, <3>2 DEF Backs, PendingCancel, CancelOf
  <2>2. ASSUME \A e \in Events : ~End(s, e) PROVE sub'[s] \in {"active", "past_due"}
    BY <1>3, <2>2 DEF Next, ProviderNext, HandlerNext, Progress, TenantNext, Crash, Pay, Notify,
       InvoiceFails, End, EmitOther, Checkout, SaveRefs, CancelStart, CancelAtProvider, CancelSave,
       ActivatePlan, AdminUpdate, Deliver, Duplicate, Reprocess, LockEvent, OpenEvent,
       CommitEmpty, LockTenant, AskProvider, CommitProcessed, CommitIgnored, CommitFailed, Respond,
       LoseConnection, providerVars, TypeOK
  <2> QED BY <2>1, <2>2 DEF Backs
<1> QED BY <1>2, <1>3 DEF Backs

LEMMA ConfirmedStep ==
  Locked /\ ConfirmedIsBacked /\ Next => ConfirmedIsBacked'
<1> SUFFICES ASSUME Locked, ConfirmedIsBacked, Next, Provider = "stripe", NEW h \in Handlers,
                    handler'[h].pc = "confirmed"
             PROVE  Backs(event[handler[h].ev].sub)'
  BY DEF ConfirmedIsBacked
<1> DEFINE e == handler[h].ev
<1> USE BillingAssumption, ItemFacts DEF Locked, Core
<1>1. \/ handler[h].pc = "confirmed" /\ handler'[h] = handler[h]
      \/ handler[h].pc = "tenant" /\ handler'[h].ev = handler[h].ev /\ AskProvider(h)
         /\ MayConfirm(event[e].sub)
  <2>1. CASE ProviderNext \/ TenantNext
    BY <2>1 DEF ProviderNext, TenantNext, Pay, Notify, InvoiceFails, End, EmitOther, Checkout, SaveRefs,
       CancelStart, CancelAtProvider, CancelSave, ActivatePlan, AdminUpdate
  <2>2. CASE Crash
    BY <2>2 DEF Crash, Idle
  <2>3. ASSUME NEW g \in Handlers,
               \/ \E d \in Events : Deliver(g, d) \/ Duplicate(g, d) \/ Reprocess(g, d)
               \/ CommitFailed(g) \/ LoseConnection(g) \/ Respond(g)
        PROVE  handler'[h] = handler[h]
    BY <2>3 DEF Deliver, Duplicate, Reprocess, CommitFailed, LoseConnection, Respond, Finish, Idle, TypeOK
  <2>4. ASSUME NEW g \in Handlers,
               \/ LockEvent(g) \/ CommitEmpty(g) \/ LockTenant(g) \/ CommitProcessed(g)
               \/ CommitIgnored(g)
        PROVE  handler'[h] = handler[h]
    <3>1. handler[g] \in BusyHandler
      BY <2>4, BusyFacts DEF LockEvent, OpenEvent, CommitEmpty, LockTenant, CommitProcessed, ReadyToApply,
         CommitIgnored
    <3>2. \E pc \in {"locked", "tenant", "committed"} : Goto(g, pc) \/ Finish(g)
      BY <2>4 DEF LockEvent, OpenEvent, CommitEmpty, LockTenant, CommitProcessed, CommitIgnored
    <3> QED BY <3>1, <3>2 DEF Goto, Finish, Idle, TypeOK, BusyHandler
  <2>5. ASSUME NEW g \in Handlers, AskProvider(g)
        PROVE  \/ handler'[h] = handler[h]
               \/ g = h /\ handler[h].pc = "tenant" /\ handler'[h].ev = e /\ MayConfirm(event[e].sub)
    <3>1. handler[g] \in BusyHandler
      BY <2>5, BusyFacts DEF AskProvider
    <3> QED BY <2>5, <3>1 DEF AskProvider, Goto, TypeOK, BusyHandler
  <2> QED BY <2>1, <2>2, <2>3, <2>4, <2>5 DEF Next, HandlerNext, Progress
<1>2. handler[h].pc \in HoldsRow /\ e \in Events /\ event[e] \in Item /\ handler'[h].ev = e
  BY <1>1, BusyFacts DEF HandlerKnows, HoldsRow
<1>3. event'[e] = event[e] /\ event[e].sub \in Subs
  BY <1>2 DEF Next, ProviderNext, HandlerNext, Progress, TenantNext, Crash, Pay, Notify, InvoiceFails,
     End, EmitOther, Emit, Checkout, SaveRefs, CancelStart, CancelAtProvider, CancelSave, ActivatePlan,
     AdminUpdate, Deliver, Duplicate, Reprocess, LockEvent, OpenEvent, CommitEmpty,
     LockTenant, AskProvider, CommitProcessed, CommitIgnored, CommitFailed, Respond, LoseConnection,
     providerVars, TypeOK
<1>4. CASE handler[h].pc = "confirmed" /\ handler'[h] = handler[h]
  <2>1. Backs(event[e].sub)
    BY <1>4 DEF ConfirmedIsBacked
  <2>2. ~CommitsCancelOf(event[e].sub)
    <3> SUFFICES ASSUME NEW g \in Handlers, CommitProcessed(g),
                        event[handler[g].ev] = CancelOf(event[e].sub)
                 PROVE  FALSE
      BY DEF CommitsCancelOf
    <3>1. handler[g].pc \in HoldsRow /\ TargetOf(handler[g].ev) = TargetOf(e)
      BY DEF CommitProcessed, ReadyToApply, HoldsRow, TargetOf, CancelOf
    <3>2. g # h
      BY <1>2, <1>4 DEF CommitProcessed, Goto, Finish, Idle, TypeOK, BusyHandler
    <3> QED BY <1>2, <3>1, <3>2 DEF LocksExclusive
  <2> QED BY <1>2, <1>3, <2>1, <2>2, BacksStep
<1>5. CASE AskProvider(h) /\ MayConfirm(event[e].sub) /\ handler'[h].ev = e
  <2>1. sub'[event[e].sub] = "active"
    BY <1>5 DEF AskProvider, MayConfirm, providerVars
  <2> QED BY <1>2, <1>3, <2>1 DEF Backs
<1> QED BY <1>1, <1>4, <1>5

\* The row of a tenant other than the one a committing handler has locked, and
\* any row under another action, keeps its backing.
LEMMA PaidStep ==
  Locked /\ ConfirmedIsBacked /\ PaidIsBacked /\ Next => PaidIsBacked'
<1> SUFFICES ASSUME Locked, ConfirmedIsBacked, PaidIsBacked, Next, Provider = "stripe",
                    NEW t \in Tenants \ granted',
                    tenant'[t].plan \in PaidPlans, tenant'[t].active
             PROVE  \E s \in Subs : SubTenant[s] = t /\ Backs(s)'
  BY DEF PaidIsBacked
<1> USE BillingAssumption, ItemFacts DEF Locked, Core
<1>1. t \notin granted
  BY DEF Next, ProviderNext, HandlerNext, Progress, TenantNext, Crash, Pay, Notify, InvoiceFails, End,
     EmitOther, Checkout, SaveRefs, CancelStart, CancelAtProvider, CancelSave, ActivatePlan,
     AdminUpdate, Deliver, Duplicate, Reprocess, LockEvent, OpenEvent, CommitEmpty,
     LockTenant, AskProvider, CommitProcessed, CommitIgnored, CommitFailed, Respond, LoseConnection,
     ghosts
\* If the row was paid and active before, its subscription is kept, unless
\* this step commits the cancellation of a subscription of t.
<1>2. ASSUME tenant[t].plan \in PaidPlans, tenant[t].active,
             \A s \in Subs : SubTenant[s] = t => ~CommitsCancelOf(s)
      PROVE  \E s \in Subs : SubTenant[s] = t /\ Backs(s)'
  <2>1. PICK s \in Subs : SubTenant[s] = t /\ Backs(s)
    BY <1>1, <1>2 DEF PaidIsBacked
  <2> QED BY <1>2, <2>1, BacksStep
<1>3. ASSUME NEW h \in Handlers, CommitProcessed(h)
      PROVE  \E s \in Subs : SubTenant[s] = t /\ Backs(s)'
  <2> DEFINE e == handler[h].ev
             item == event[e]
  <2>1. handler[h].pc \in HoldsRow /\ e \in Events /\ item \in Item /\ item.sub \in Subs
    BY <1>3, BusyFacts DEF CommitProcessed, ReadyToApply, HandlerKnows, HoldsRow
  <2>2. tenant'[t] = IF t = TargetOf(e) THEN Effect(tenant[t], item) ELSE tenant[t]
    BY <1>3 DEF CommitProcessed, TypeOK
  <2>3. \A g \in Handlers : CommitProcessed(g) => handler[g].ev = e
    <3> SUFFICES ASSUME NEW g \in Handlers, CommitProcessed(g), handler[g].ev # e PROVE FALSE
      OBVIOUS
    <3>1. handler[g].ev \in Events /\ status[handler[g].ev] # "processed"
      BY BusyFacts DEF CommitProcessed, ReadyToApply, HandlerKnows, HoldsRow, InTxn, Settled
    <3>2. status'[handler[g].ev] = "processed"
      BY <3>1 DEF CommitProcessed, TypeOK
    <3>3. status'[handler[g].ev] = status[handler[g].ev]
      BY <1>3, <2>1, <3>1 DEF CommitProcessed, TypeOK
    <3> QED BY <3>1, <3>2, <3>3
  <2>4. CASE t # TargetOf(e)
    <3>1. \A s \in Subs : SubTenant[s] = t => ~CommitsCancelOf(s)
      BY <2>3, <2>4 DEF CommitsCancelOf, CancelOf, TargetOf
    <3> QED BY <1>2, <2>2, <2>4, <3>1
  <2>5. CASE t = TargetOf(e) /\ item.type \in Activations
    <3>1. handler[h].pc = "confirmed"
      BY <1>3, <2>5 DEF CommitProcessed, ReadyToApply
    <3>2. Backs(item.sub) /\ ~CommitsCancelOf(item.sub)
      BY <2>3, <2>5, <3>1 DEF ConfirmedIsBacked, CommitsCancelOf, CancelOf, Activations
    <3> QED BY <2>1, <2>5, <3>2, BacksStep DEF TargetOf
  <2>6. CASE t = TargetOf(e) /\ item.type = "payment_failed"
    <3>1. tenant'[t].plan = tenant[t].plan /\ tenant'[t].active = tenant[t].active
      <4>1. Effect(tenant[t], item) = [tenant[t] EXCEPT !.billing = "past_due"]
        BY <2>6 DEF Effect, Activations
      <4>2. tenant[t] \in TenantRow
        BY DEF TypeOK
      <4> QED BY <2>2, <2>6, <4>1, <4>2 DEF TenantRow
    <3>2. \A s \in Subs : ~CommitsCancelOf(s)
      BY <2>3, <2>6 DEF CommitsCancelOf, CancelOf
    <3> QED BY <1>2, <3>1, <3>2
  <2>7. CASE t = TargetOf(e) /\ item.type = "subscription_canceled"
    <3>1. CASE CancelPolicy = "suspend"
      <4>1. Effect(tenant[t], item) =
              [tenant[t] EXCEPT !.active = FALSE, !.sub = NULL, !.billing = "canceled"]
        BY <2>7, <3>1 DEF Effect, Activations
      <4>2. tenant'[t].active = FALSE
        BY <2>2, <2>7, <4>1 DEF TypeOK, TenantRow
      <4> QED BY <4>2
    <3>2. CASE CancelPolicy = "downgrade"
      <4>1. Effect(tenant[t], item).plan = "free"
        BY <2>7, <3>2 DEF Effect, Activations
      <4> QED BY <2>2, <2>7, <4>1 DEF PaidPlans
    <3> QED BY <3>1, <3>2
  <2> QED BY <2>1, <2>4, <2>5, <2>6, <2>7 DEF ItemTypes
<1>4. ASSUME \A h \in Handlers : ~CommitProcessed(h)
      PROVE  \E s \in Subs : SubTenant[s] = t /\ Backs(s)'
  <2>1. tenant'[t].plan = tenant[t].plan /\ tenant'[t].active = tenant[t].active
    <3>1. CASE UNCHANGED tenant
      BY <3>1
    <3>2. ASSUME NEW u \in Tenants, SaveRefs(u) \/ CancelSave(u)
          PROVE  tenant'[t].plan = tenant[t].plan /\ tenant'[t].active = tenant[t].active
      <4>1. tenant' = tenant \/ \E x : tenant' = [tenant EXCEPT ![u].sub = x]
        BY <3>2 DEF SaveRefs, CancelSave
      <4>2. tenant[t] \in TenantRow /\ tenant \in [Tenants -> TenantRow]
        BY DEF TypeOK
      <4>3. \A x : /\ [tenant[t] EXCEPT !.sub = x].plan = tenant[t].plan
                   /\ [tenant[t] EXCEPT !.sub = x].active = tenant[t].active
        BY <4>2 DEF TenantRow
      <4>4. ASSUME NEW x, tenant' = [tenant EXCEPT ![u].sub = x]
            PROVE  tenant'[t] = tenant[t] \/ tenant'[t] = [tenant[t] EXCEPT !.sub = x]
        BY <4>2, <4>4
      <4> QED BY <4>1, <4>3, <4>4
    <3>3. ASSUME NEW u \in Tenants, NEW plan \in Plans,
                 ActivatePlan(u, plan) \/ \E active \in BOOLEAN : AdminUpdate(u, plan, active)
          PROVE  tenant'[t] = tenant[t]
      BY <3>3 DEF ActivatePlan, AdminUpdate, TypeOK
    <3> QED BY <1>4, <3>1, <3>2, <3>3
        DEF Next, ProviderNext, HandlerNext, Progress, TenantNext, Crash, Pay, Notify, InvoiceFails, End,
        EmitOther, Checkout, CancelStart, CancelAtProvider, Deliver, Duplicate, Reprocess,
        LockEvent, OpenEvent, CommitEmpty, LockTenant, AskProvider, CommitIgnored, CommitFailed, Respond,
        LoseConnection, dbVars
  <2> QED BY <1>2, <1>4, <2>1 DEF CommitsCancelOf
<1> QED BY <1>3, <1>4

\* The inductive invariant of this module.
IInv == Locked /\ ConfirmedIsBacked /\ PaidIsBacked

\* With Stripe, a tenant that is active on a paid plan nobody granted it has a
\* subscription that runs or whose cancellation is still to be processed.
THEOREM PaidBacked == Spec => []PaidIsBacked
<1>1. Init => IInv
  <2>1. Init => Locked
    BY InitCore DEF Locked, Init, LocksExclusive, Idle, InTxn, HoldsRow
  <2>2. Init => ConfirmedIsBacked /\ PaidIsBacked
    BY DEF Init, ConfirmedIsBacked, PaidIsBacked, Idle, PaidPlans
  <2> QED BY <2>1, <2>2 DEF IInv
<1>2. IInv /\ [Next]_vars => IInv'
  <2>1. CASE Next
    BY <2>1, LockedStep, ConfirmedStep, PaidStep DEF IInv
  <2>2. IInv /\ UNCHANGED vars => IInv'
    <3>1. Locked /\ UNCHANGED vars => Locked'
      BY LockedStep
    <3>2. ConfirmedIsBacked /\ UNCHANGED vars => ConfirmedIsBacked'
      BY DEF vars, ConfirmedIsBacked, Backs, PendingCancel
    <3>3. PaidIsBacked /\ UNCHANGED vars => PaidIsBacked'
      BY DEF vars, PaidIsBacked, Backs, PendingCancel
    <3> QED BY <3>1, <3>2, <3>3 DEF IInv
  <2> QED BY <2>1, <2>2
<1>3. IInv => PaidIsBacked
  BY DEF IInv
<1> QED BY <1>1, <1>2, <1>3, PTL DEF Spec

-----------------------------------------------------------------------------
(* The ledger is implemented.                                              *)

LEMMA LedgerEmits ==
  ASSUME Locked, NEW e \in Events, NEW i \in Item \cup {NoItems}, Emit(e, i),
         UNCHANGED <<status, tenant, granted>>
  PROVE  L!Next
  BY DEF Emit, L!Next, L!Emit

\* What the provider does is stuttering but for the events that it emits.
LEMMA LedgerProvider ==
  ASSUME Locked, ProviderNext
  PROVE  L!Next
<1> USE ItemFacts DEF ItemTypes, Activations
<1>1. PICK e \in Events :
        EmitOther(e) \/ \E s \in Subs : Pay(s, e) \/ Notify(s, e) \/ InvoiceFails(s, e) \/ End(s, e)
  BY DEF ProviderNext
<1>2. UNCHANGED <<status, tenant, granted>>
  BY <1>1 DEF EmitOther, Pay, Notify, InvoiceFails, End
<1>3. \E i \in Item \cup {NoItems} : Emit(e, i)
  BY <1>1 DEF EmitOther, Pay, Notify, InvoiceFails, End
<1> QED BY <1>2, <1>3, LedgerEmits

LEMMA LedgerTenant ==
  ASSUME Locked, TenantNext
  PROVE  [L!Next]_(L!ledger)
<1> USE DEF Locked, Core
<1>1. ASSUME NEW t \in Tenants, NEW r \in TenantRow, tenant' = [tenant EXCEPT ![t] = r],
             granted' = granted \cup {t}, UNCHANGED <<event, status>>
      PROVE  L!Next
  BY <1>1 DEF L!Next, L!Grant
<1>2. ASSUME NEW t \in Tenants, NEW x \in Subs \cup {NULL}, tenant' = [tenant EXCEPT ![t].sub = x],
             UNCHANGED <<event, status, granted>>
      PROVE  L!Next
  <2>1. [tenant[t] EXCEPT !.sub = x] \in TenantRow
    BY RowUpdates DEF TypeOK
  <2>2. [tenant[t] EXCEPT !.sub = x].sub = x
    BY DEF TypeOK, TenantRow
  <2> QED BY <1>2, <2>1, <2>2 DEF L!Next, L!Rename
<1>3. ASSUME NEW t \in Tenants, NEW s \in Subs,
             Checkout(t, s) \/ CancelStart(t)
      PROVE  UNCHANGED L!ledger
  BY <1>3 DEF Checkout, CancelStart, dbVars, providerVars, ghosts, L!ledger
<1>4. ASSUME NEW t \in Tenants, SaveRefs(t) PROVE [L!Next]_(L!ledger)
  <2>1. request[t].sub \in Subs \cup {NULL}
    BY <1>4 DEF SaveRefs, TypeOK, Request, IdleRequest
  <2> QED BY <1>2, <1>4, <2>1 DEF SaveRefs, providerVars, ghosts, L!ledger
<1>5. ASSUME NEW t \in Tenants, CancelAtProvider(t) PROVE [L!Next]_(L!ledger)
  <2>1. request[t].sub \in Subs
    BY <1>5 DEF CancelAtProvider, TypeOK, Request, IdleRequest
  <2>2. [type |-> "subscription_canceled", sub |-> request[t].sub] \in Item
    BY <2>1, ItemFacts DEF ItemTypes
  <2> QED BY <1>5, <2>2, LedgerEmits DEF CancelAtProvider, dbVars, providerVars, ghosts, L!ledger
<1>6. ASSUME NEW t \in Tenants, CancelSave(t) PROVE L!Next
  BY <1>2, <1>6 DEF CancelSave, providerVars, ghosts
<1>7. ASSUME NEW t \in Tenants, NEW plan \in Plans, ActivatePlan(t, plan) PROVE L!Next
  <2>1. [tenant[t] EXCEPT !.plan = plan, !.active = TRUE, !.billing = "ok"] \in TenantRow
    BY RowUpdates DEF TypeOK
  <2> QED BY <1>1, <1>7, <2>1 DEF ActivatePlan, providerVars
<1>8. ASSUME NEW t \in Tenants, NEW plan \in Plans, NEW active \in BOOLEAN,
             AdminUpdate(t, plan, active)
      PROVE  L!Next
  <2>1. [tenant[t] EXCEPT !.plan = plan, !.active = active] \in TenantRow
    BY RowUpdates DEF TypeOK
  <2> QED BY <1>1, <1>8, <2>1 DEF AdminUpdate, providerVars
<1>9. PICK t \in Tenants :
        \/ \E s \in Subs : Checkout(t, s)
        \/ SaveRefs(t) \/ CancelStart(t) \/ CancelAtProvider(t) \/ CancelSave(t)
        \/ \E plan \in Plans :
             ActivatePlan(t, plan) \/ \E active \in BOOLEAN : AdminUpdate(t, plan, active)
  BY DEF TenantNext
<1>10. CASE CancelStart(t)
  BY <1>10 DEF CancelStart, dbVars, providerVars, ghosts, L!ledger
<1> QED BY <1>3, <1>4, <1>5, <1>6, <1>7, <1>8, <1>9, <1>10

\* A handler moves the ledger where it commits: the event it has locked is
\* open, and the row that it has locked is that of the event's tenant.
LEMMA LedgerHandler ==
  ASSUME Locked, HandlerNext
  PROVE  [L!Next]_(L!ledger)
<1> USE DEF Locked, Core
<1>1. PICK h \in Handlers :
        \/ \E e \in Events : Deliver(h, e) \/ Duplicate(h, e) \/ Reprocess(h, e)
        \/ Progress(h) \/ CommitFailed(h) \/ LoseConnection(h)
  BY DEF HandlerNext
<1> DEFINE e == handler[h].ev
<1>2. CASE \/ \E d \in Events : Deliver(h, d) \/ Duplicate(h, d) \/ Reprocess(h, d)
           \/ LockEvent(h) \/ LockTenant(h) \/ AskProvider(h) \/ Respond(h) \/ LoseConnection(h)
  BY <1>2 DEF Deliver, Duplicate, Reprocess, LockEvent, OpenEvent, LockTenant, AskProvider,
     Respond, LoseConnection, providerVars, dbVars, ghosts, L!ledger
<1>3. ASSUME handler[h].pc \in InTxn
      PROVE  e \in Events /\ event[e] # NoEvent /\ status[e] \notin Settled
  BY <1>3, BusyFacts DEF HandlerKnows, InTxn
<1>4. ASSUME handler[h].pc \in InTxn, NEW o \in {"failed", "ignored"},
             status' = [status EXCEPT ![e] = o], UNCHANGED <<event, tenant, granted>>
      PROVE  L!Next
  BY <1>3, <1>4 DEF L!Next, L!Fail, L!Ignore, L!Open, L!Becomes, L!Settled, Settled
<1>5. CASE CommitEmpty(h) \/ CommitIgnored(h) \/ CommitFailed(h)
  BY <1>4, <1>5 DEF CommitEmpty, CommitIgnored, CommitFailed, InTxn, providerVars, ghosts
<1>6. CASE CommitProcessed(h)
  <2>1. handler[h].pc \in InTxn \cap HoldsRow
    BY <1>6 DEF CommitProcessed, ReadyToApply, InTxn, HoldsRow
  <2>2. event[e] \in Item
    BY <2>1 DEF HandlerKnows
  <2> QED BY <1>3, <1>6, <2>1, <2>2
          DEF CommitProcessed, L!Next, L!Process, L!Open, L!Becomes, L!Settled, Settled,
              TargetOf, AboutTenant, providerVars
<1> QED BY <1>1, <1>2, <1>5, <1>6 DEF Progress

\* Deliveries, locks, retries and rollbacks implement the ledger.
THEOREM LedgerRefined == Spec => ImplementsLedger
<1>1. Init => Locked
  BY InitCore DEF Locked, Init, LocksExclusive, Idle, InTxn, HoldsRow
<1>2. Init => L!Init
  <2>1. Init => tenant \in [Tenants -> TenantRow]
    BY InitCore DEF Core, TypeOK
  <2> QED BY <2>1 DEF Init, L!Init
<1>3. Locked /\ [Next]_vars => [L!Next]_(L!ledger)
  <2>1. Crash => UNCHANGED L!ledger
    BY DEF Crash, providerVars, dbVars, ghosts, L!ledger
  <2>2. UNCHANGED vars => UNCHANGED L!ledger
    BY DEF vars, L!ledger
  <2> QED BY <2>1, <2>2, LedgerProvider, LedgerTenant, LedgerHandler DEF Next
<1>4. Spec => []Locked
  BY <1>1, LockedStep, PTL DEF Spec
<1> QED BY <1>2, <1>3, <1>4, PTL DEF Spec, ImplementsLedger, L!Spec
=============================================================================
