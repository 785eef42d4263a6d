------------------------------- MODULE Ledger -------------------------------
(***************************************************************************)
(* What the payment webhooks promise of the tenants' rows, whatever is     *)
(* delivered, retried, locked and rolled back on the way: an event that    *)
(* was emitted has its effect on the row of its tenant in the very step in *)
(* which it is processed, and in no other; that is its last outcome, as is *)
(* being ignored; and beside the events only grants change a row, and the  *)
(* tenant's own requests, which change the subscription the row names.     *)
(***************************************************************************)
CONSTANTS
  Events, Tenants,
  Rows,         \* the rows of tenants, records with a field sub
  Unsent,       \* in the place of an event that was not emitted
  Items,        \* the events
  Effective,    \* the events that have an effect
  About(_),     \* the tenant of an effective event
  Effect(_, _)  \* the row that an effective event makes of a row

VARIABLES event, outcome, row, granted

ledger == <<event, outcome, row, granted>>

Settled == {"processed", "ignored"}

Init ==
  /\ event = [e \in Events |-> Unsent]
  /\ outcome = [e \in Events |-> "none"]
  /\ row \in [Tenants -> Rows] /\ granted = {}

Emit(e) ==
  /\ event[e] = Unsent
  /\ \E i \in Items : event' = [event EXCEPT ![e] = i]
  /\ UNCHANGED <<outcome, row, granted>>

\* The outcome of an event that has no last one yet.
Open(e) == event[e] # Unsent /\ outcome[e] \notin Settled
Becomes(e, o) == outcome' = [outcome EXCEPT ![e] = o] /\ UNCHANGED <<event, granted>>

Fail(e) == Open(e) /\ Becomes(e, "failed") /\ UNCHANGED row
Ignore(e) == Open(e) /\ Becomes(e, "ignored") /\ UNCHANGED row

Process(e) ==
  /\ Open(e) /\ event[e] \in Effective /\ Becomes(e, "processed")
  /\ row' = [row EXCEPT ![About(event[e])] = Effect(@, event[e])]

Grant(t) ==
  /\ \E r \in Rows : row' = [row EXCEPT ![t] = r]
  /\ granted' = granted \cup {t} /\ UNCHANGED <<event, outcome>>

Rename(t) ==
  /\ \E r \in Rows : row' = [row EXCEPT ![t].sub = r.sub]
  /\ UNCHANGED <<event, outcome, granted>>

Next ==
  \/ \E e \in Events : Emit(e) \/ Fail(e) \/ Ignore(e) \/ Process(e)
  \/ \E t \in Tenants : Grant(t) \/ Rename(t)

Spec == Init /\ [][Next]_ledger
=============================================================================
