----------------------------- MODULE TenantProofs -----------------------------
(***************************************************************************)
(* Proofs about what a tenant may do: its quota of messages and its plan.  *)
(*                                                                         *)
(* MessageQuota, for every set of requests, providers and limits.  The     *)
(* counter and the units it stands for move together in every step but the *)
(* refund, whose unit may belong to an ended cycle: the ghost late counts  *)
(* those, and the invariant bounds the difference by it.                   *)
(*                                                                         *)
(* TenantPlan, for every set of requests, time to live and number of       *)
(* changes: no channel is added long after the row has refused one.        *)
(***************************************************************************)
EXTENDS MessageQuota, TenantPlan, FiniteSetTheorems, SequenceTheorems, TLAPS

(* MessageQuota *)

-----------------------------------------------------------------------------
(* Types.  An attempt is under way only with a provider to try.            *)

Trying == \A r \in Requests : req[r].pc = "trying" => req[r].left # <<>>
Typed == QuotaTypeOK /\ Trying

LEMMA InitTyped == QuotaInit => Typed
<1> SUFFICES ASSUME QuotaInit PROVE Typed
  OBVIOUS
<1> USE QuotaAssumption
<1>1. row \in Row
  <2>1. PICK m \in Limits :
          row = [used |-> 0, max |-> m, active |-> TRUE, allowed |-> Providers]
    BY DEF QuotaInit
  <2> QED
    BY <2>1 DEF Row, QuotaAssumption
<1>2. health \in [Providers -> Health]
  BY DEF QuotaInit, NewHealth, Health
<1>3. req \in [Requests -> SendState]
  BY DEF QuotaInit, SendState, SendPC, Reason, QuotaAssumption
<1>4. budget \in [Kinds -> Nat]
  BY DEF QuotaInit, QuotaAssumption
<1> QED
  BY <1>1, <1>2, <1>3, <1>4 DEF QuotaInit, Typed, QuotaTypeOK, Trying

\* The loop leaves the call well typed, with a provider left if it tries one.
LEMMA TryNextTyped ==
  ASSUME Typed, NEW r \in Requests, NEW list \in Seq(Providers),
         NEW hs \in [Providers -> Health], TryNext(r, list, hs)
  PROVE  /\ req' \in [Requests -> SendState]
         /\ Trying'
         /\ req'[r].pc \in {"trying", "refund"}
         /\ \A q \in Requests \ {r} : req'[q] = req[q]
<1>1. PICK k \in 0 .. Len(list) :
        req' = [req EXCEPT ![r].left = SubSeq(list, k + 1, Len(list)),
                           ![r].attempt = IF k < Len(list) THEN 1 ELSE 0,
                           ![r].pc = IF k < Len(list) THEN "trying" ELSE "refund"]
  BY DEF TryNext
<1> DEFINE rest == SubSeq(list, k + 1, Len(list))
<1>2. /\ rest \in Seq(Providers)
      /\ Len(rest) = IF k < Len(list) THEN Len(list) - k ELSE 0
  <2>1. k + 1 \in Int /\ Len(list) \in Int /\ k \in Int
    OBVIOUS
  <2>2. \A i \in k + 1 .. Len(list) : list[i] \in Providers
    OBVIOUS
  <2> QED
    BY <2>1, <2>2, SubSeqProperties
<1> HIDE DEF rest
<1>3. req[r] \in SendState /\ req \in [Requests -> SendState]
  BY DEF Typed, QuotaTypeOK
<1>4. req'[r] = [allowed |-> req[r].allowed, left |-> rest, reason |-> req[r].reason,
                 attempt |-> IF k < Len(list) THEN 1 ELSE 0,
                 pc |-> IF k < Len(list) THEN "trying" ELSE "refund"]
  BY <1>1, <1>3 DEF SendState, rest
<1>5. req'[r] \in SendState
  BY <1>2, <1>3, <1>4, QuotaAssumption DEF SendState, SendPC
<1>6. \A q \in Requests \ {r} : req'[q] = req[q]
  BY <1>1, <1>3
<1>7. req' \in [Requests -> SendState]
  BY <1>1, <1>3, <1>5, <1>6
<1>8. req'[r].pc = "trying" => req'[r].left # <<>>
  <2> SUFFICES ASSUME k < Len(list) PROVE rest # <<>>
    BY <1>4
  <2>1. Len(rest) # 0
    BY <1>2
  <2> QED
    BY <2>1
<1> QED
  BY <1>4, <1>6, <1>7, <1>8 DEF Typed, Trying

\* Steps that change the request only in pc, attempt, allowed or reason.
LEMMA FieldsTyped ==
  ASSUME Typed, NEW r \in Requests, NEW q \in SendState,
         q.pc = "trying" => q.left # <<>>,
         req' = [req EXCEPT ![r] = q]
  PROVE  req' \in [Requests -> SendState] /\ Trying'
BY DEF Typed, QuotaTypeOK, Trying

LEMMA CountTyped ==
  ASSUME NEW h \in Health, NEW n \in Nat, NEW b \in BOOLEAN
  PROVE  /\ [h EXCEPT !.success = n] \in Health
         /\ [h EXCEPT !.failure = n, !.recent = b] \in Health
BY DEF Health

LEMMA MarkTyped ==
  ASSUME NEW hs \in [Providers -> Health], NEW p \in Providers
  PROVE  /\ MarkSuccess(hs, p) \in [Providers -> Health]
         /\ MarkFailure(hs, p) \in [Providers -> Health]
<1> DEFINE good == [hs[p] EXCEPT !.success = hs[p].success + 1]
           bad == [hs[p] EXCEPT !.failure = hs[p].failure + 1, !.recent = TRUE]
<1>1. good \in Health /\ bad \in Health
  <2>1. hs[p] \in Health
    OBVIOUS
  <2>2. hs[p].success + 1 \in Nat /\ hs[p].failure + 1 \in Nat
    BY <2>1 DEF Health
  <2> QED
    BY <2>1, <2>2, CountTyped
<1>2. /\ MarkSuccess(hs, p) = [hs EXCEPT ![p] = good]
      /\ MarkFailure(hs, p) = [hs EXCEPT ![p] = bad]
  BY DEF MarkSuccess, MarkFailure, Health
<1> HIDE DEF good, bad
<1> QED
  BY <1>1, <1>2

LEMMA RowTyped ==
  ASSUME NEW x \in Row, NEW n \in Nat
  PROVE  [x EXCEPT !.used = n] \in Row
BY DEF Row

LEMMA SpendTyped ==
  ASSUME QuotaTypeOK, NEW kind \in Kinds, Spend(kind)
  PROVE  budget' \in [Kinds -> Nat]
BY DEF QuotaTypeOK, Spend

-----------------------------------------------------------------------------
(* Type correctness.                                                       *)

\* Every step of the code, and of its surroundings, keeps Typed.
LEMMA TypedStep == Typed /\ [QuotaNext]_quotaVars => Typed'
<1> SUFFICES ASSUME Typed, [QuotaNext]_quotaVars PROVE Typed'
  OBVIOUS
<1> USE QuotaAssumption
<1>a. /\ req \in [Requests -> SendState] /\ health \in [Providers -> Health]
      /\ row \in Row /\ budget \in [Kinds -> Nat] /\ late \in Nat /\ peak \in Nat
      /\ charged \subseteq Requests /\ due \in BOOLEAN
  BY DEF Typed, QuotaTypeOK
<1>b. ASSUME NEW r \in Requests, NEW pc \in SendPC \ {"trying"}, SendGoes(r, pc)
      PROVE  req' \in [Requests -> SendState] /\ Trying'
  BY <1>a, <1>b DEF SendGoes, Typed, Trying, SendState
<1>c. ASSUME NEW r \in Requests, NEW reason \in Reason, Block(r, reason)
      PROVE  req' \in [Requests -> SendState] /\ Trying'
  BY <1>a, <1>c DEF Block, Typed, Trying, SendState, SendPC
<1>d. ASSUME NEW r \in Requests, Start(r) PROVE Typed'
  BY <1>a, <1>b, <1>d DEF Start, Typed, QuotaTypeOK, quota, SendPC
<1>e. ASSUME NEW r \in Requests, Refresh(r) PROVE Typed'
  <2>1. row' \in Row
    BY <1>a, <1>e DEF Refresh, Row
  <2>2. req' \in [Requests -> SendState] /\ Trying'
    <3>1. row.allowed \in SUBSET Providers
      BY <1>a DEF Row
    <3> DEFINE q == IF req[r].pc = "refreshed" THEN [req[r] EXCEPT !.pc = "reading"]
                    ELSE [req[r] EXCEPT !.pc = "refreshed", !.allowed = row.allowed]
    <3>2. req[r] \in SendState
      BY <1>a
    <3>3. q \in SendState /\ q.pc \in {"refreshed", "reading"}
      BY <3>1, <3>2 DEF SendState, SendPC
    <3>4. req' = [req EXCEPT ![r] = q]
      BY <1>a, <1>e DEF Refresh
    <3> HIDE DEF q
    <3> QED
      BY <3>3, <3>4, FieldsTyped
  <2> QED
    BY <1>a, <1>e, <2>1, <2>2 DEF Refresh, Typed, QuotaTypeOK
<1>f. ASSUME NEW r \in Requests, Check(r) PROVE Typed'
  BY <1>a, <1>b, <1>c, <1>f DEF Check, Typed, QuotaTypeOK, quota, SendPC, Reason
<1>g. ASSUME NEW r \in Requests, Consume(r) PROVE Typed'
  <2>1. row' \in Row /\ peak' \in Nat /\ charged' \subseteq Requests
    <3>1. row' = row \/ row' = [row EXCEPT !.used = row.used + 1]
      BY <1>g DEF Consume
    <3>2. row.used + 1 \in Nat /\ row.max \in Nat
      BY <1>a DEF Row
    <3>3. row' \in Row
      BY <1>a, <3>1, <3>2, RowTyped
    <3> QED
      BY <1>a, <1>g, <3>2, <3>3 DEF Consume
  <2>2. req' \in [Requests -> SendState] /\ Trying'
    <3>1. Channel[r] \in Seq(Providers)
      BY DEF QuotaAssumption
    <3> QED
      BY <1>a, <1>c, <1>g, <3>1, TryNextTyped DEF Consume, Reason
  <2> QED
    BY <1>a, <1>g, <2>1, <2>2 DEF Consume, Typed, QuotaTypeOK
<1>h. ASSUME NEW r \in Requests, Accept(r) PROVE Typed'
  <2>1. Head(req[r].left) \in Providers
    BY <1>a, <1>h, HeadTailProperties DEF Accept, Typed, Trying, SendState
  <2> QED
    BY <1>a, <1>b, <1>h, <2>1, MarkTyped DEF Accept, Typed, QuotaTypeOK, quota, SendPC
<1>i. ASSUME NEW r \in Requests, AttemptFails(r) PROVE Typed'
  <2>1. Head(req[r].left) \in Providers /\ Tail(req[r].left) \in Seq(Providers)
    BY <1>a, <1>i, HeadTailProperties DEF AttemptFails, Typed, Trying, SendState
  <2>2. CASE req[r].attempt < MaxAttempts
    <3>1. req' \in [Requests -> SendState] /\ Trying'
      <4> DEFINE q == [req[r] EXCEPT !.attempt = @ + 1]
      <4>1. q \in SendState /\ q.pc = req[r].pc /\ q.left = req[r].left
        <5>1. req[r] \in SendState
          BY <1>a
        <5>2. req[r].attempt + 1 \in 0 .. MaxAttempts
          BY <2>2, <5>1 DEF SendState, QuotaAssumption
        <5> QED
          BY <5>1, <5>2 DEF SendState
      <4>2. req' = [req EXCEPT ![r] = q]
        BY <1>a, <1>i, <2>2 DEF AttemptFails, SendState
      <4> HIDE DEF q
      <4> QED
        BY <4>1, <4>2, FieldsTyped DEF Typed, Trying
    <3> QED
      BY <1>a, <1>i, <2>2, <3>1 DEF AttemptFails, Typed, QuotaTypeOK, quota
  <2>3. CASE ~(req[r].attempt < MaxAttempts)
    <3>1. health' \in [Providers -> Health]
      <4>1. health' = MarkFailure(health, Head(req[r].left))
        BY <1>i, <2>3 DEF AttemptFails
      <4> QED
        BY <1>a, <2>1, <4>1, MarkTyped
    <3>2. req' \in [Requests -> SendState] /\ Trying'
      BY <1>i, <2>1, <2>3, <3>1, TryNextTyped DEF AttemptFails
    <3> QED
      BY <1>a, <1>i, <3>1, <3>2 DEF AttemptFails, Typed, QuotaTypeOK, quota
  <2> QED
    BY <2>2, <2>3
<1>j. ASSUME NEW r \in Requests, Refund(r) PROVE Typed'
  <2>1. row' \in Row /\ late' \in Nat /\ charged' \subseteq Requests
    <3> DEFINE n == IF row.used > 0 THEN row.used - 1 ELSE 0
    <3>1. n \in Nat
      BY <1>a DEF Row
    <3>2. row' = [row EXCEPT !.used = n]
      BY <1>j DEF Refund
    <3> HIDE DEF n
    <3>3. row' \in Row
      BY <1>a, <3>1, <3>2, RowTyped
    <3> QED
      BY <1>a, <1>j, <3>3 DEF Refund
  <2>2. req' \in [Requests -> SendState] /\ Trying'
    BY <1>b, <1>j DEF Refund, SendPC
  <2> QED
    BY <1>a, <1>j, <2>1, <2>2 DEF Refund, Typed, QuotaTypeOK
<1>k. ASSUME NEW r \in Requests, RefundFails(r) PROVE Typed'
  <2>1. budget' \in [Kinds -> Nat]
    BY <1>k, SpendTyped DEF RefundFails, Typed, Kinds
  <2>2. req' \in [Requests -> SendState] /\ Trying'
    BY <1>b, <1>k DEF RefundFails, SendPC
  <2> QED
    BY <1>a, <1>k, <2>1, <2>2 DEF RefundFails, Typed, QuotaTypeOK, quota
<1>l. CASE SendsDie
  <2>1. budget' \in [Kinds -> Nat]
    BY <1>l, SpendTyped DEF SendsDie, Typed, Kinds
  <2>2. health' \in [Providers -> Health]
    BY <1>l DEF SendsDie, NewHealth, Health
  <2>3. req' \in [Requests -> SendState] /\ Trying'
    <3>1. \A r \in Requests : req'[r] \in SendState /\ (req'[r].pc = "trying" => FALSE)
      BY <1>a, <1>l DEF SendsDie, SendState, SendPC, Busy, Ended
    <3> QED
      BY <1>l, <3>1 DEF SendsDie, Trying
  <2> QED
    BY <1>a, <1>l, <2>1, <2>2, <2>3 DEF SendsDie, Typed, QuotaTypeOK, quota
<1>m. CASE CycleEnds
  <2>1. budget' \in [Kinds -> Nat]
    BY <1>m, SpendTyped DEF CycleEnds, Typed, Kinds
  <2> QED
    BY <1>a, <1>m, <2>1 DEF CycleEnds, Typed, QuotaTypeOK, Trying
<1>n. ASSUME NEW m \in Limits, NEW on \in BOOLEAN, NEW ps \in SUBSET Providers, ChangeRow(m, on, ps)
      PROVE  Typed'
  <2>1. budget' \in [Kinds -> Nat]
    BY <1>n, SpendTyped DEF ChangeRow, Typed, Kinds
  <2>2. row' \in Row
    BY <1>a, <1>n DEF ChangeRow, Row, QuotaAssumption
  <2> QED
    BY <1>a, <1>n, <2>1, <2>2 DEF ChangeRow, Typed, QuotaTypeOK, Trying
<1>o. ASSUME NEW p \in Providers, Cooldown(p) PROVE Typed'
  <2>1. health' \in [Providers -> Health]
    BY <1>a, <1>o DEF Cooldown, Health
  <2> QED
    BY <1>a, <1>o, <2>1 DEF Cooldown, Typed, QuotaTypeOK, Trying, quota
<1>p. ASSUME NEW p \in Providers, OtherTraffic(p) PROVE Typed'
  <2>1. budget' \in [Kinds -> Nat]
    BY <1>p, SpendTyped DEF OtherTraffic, Typed, Kinds
  <2>2. health' \in [Providers -> Health]
    BY <1>a, <1>p, MarkTyped DEF OtherTraffic
  <2> QED
    BY <1>a, <1>p, <2>1, <2>2 DEF OtherTraffic, Typed, QuotaTypeOK, Trying, quota
<1>q. CASE UNCHANGED quotaVars
  BY <1>a, <1>q DEF quotaVars, Typed, QuotaTypeOK, Trying
<1> QED
  BY <1>d, <1>e, <1>f, <1>g, <1>h, <1>i, <1>j, <1>k, <1>l, <1>m, <1>n, <1>o, <1>p, <1>q DEF QuotaNext, Step

LEMMA AlwaysTyped == QuotaSpec => []Typed
BY InitTyped, TypedStep, PTL DEF QuotaSpec

\* Every reachable state is well typed.
THEOREM TypeCorrect == QuotaSpec => []QuotaTypeOK
<1>1. Typed => QuotaTypeOK
  BY DEF Typed
<1> QED
  BY <1>1, AlwaysTyped, PTL

-----------------------------------------------------------------------------
(* The counter and its units.                                              *)

\* Only a call past Consume has taken a unit.
Charging == \A r \in charged :
              req[r].pc \in {"trying", "refund", "sent", "failed", "gone"}

IInv == Typed /\ Charging /\ UsedMatchesUnits /\ row.max \in Limits

LEMMA ChargedFinite ==
  ASSUME Typed PROVE IsFiniteSet(charged) /\ Cardinality(charged) \in Nat
<1>1. IsFiniteSet(Requests) /\ charged \in SUBSET Requests
  BY QuotaAssumption DEF Typed, QuotaTypeOK
<1> QED
  BY <1>1, FS_Subset, FS_CardinalityType

LEMMA InitUnits == QuotaInit => IInv
<1> SUFFICES ASSUME QuotaInit PROVE IInv
  OBVIOUS
<1>1. Cardinality(charged) = 0 /\ row.used = 0 /\ late = 0
  BY FS_EmptySet DEF QuotaInit
<1>2. row.max \in Limits
  BY DEF QuotaInit
<1> QED
  BY <1>1, <1>2, InitTyped DEF IInv, Charging, UsedMatchesUnits, QuotaInit

\* A step that leaves the row's counter and the units alone.
LEMMA UnitsUntouched ==
  ASSUME UsedMatchesUnits, row'.used = row.used, charged' = charged, late' = late
  PROVE  UsedMatchesUnits'
BY DEF UsedMatchesUnits

LEMMA UnitsStep == IInv /\ [QuotaNext]_quotaVars => IInv'
<1> SUFFICES ASSUME IInv, [QuotaNext]_quotaVars PROVE IInv'
  OBVIOUS
<1> USE DEF IInv
<1>a. Typed' /\ row'.max \in Limits
  <2>1. row'.max \in Limits
    <3>1. row \in Row
      BY DEF Typed, QuotaTypeOK
    <3>2. \/ UNCHANGED row
          \/ \E n \in Int : row' = [row EXCEPT !.used = n]
          \/ \E m \in Limits, on \in BOOLEAN, ps \in SUBSET Providers :
               row' = [row EXCEPT !.max = m, !.active = on, !.allowed = ps]
      <4>1. row.used \in Nat
        BY <3>1 DEF Row
      <4>2. \A r \in Requests :
              Refresh(r) \/ Consume(r) \/ Refund(r) =>
                UNCHANGED row \/ \E n \in Int : row' = [row EXCEPT !.used = n]
        BY <4>1 DEF Refresh, Consume, Refund
      <4> QED
        BY <4>2 DEF QuotaNext, Step, quotaVars, quota, Start, Check, Accept, AttemptFails,
           RefundFails, SendsDie, CycleEnds, ChangeRow, Cooldown, OtherTraffic
    <3> QED
      BY <3>1, <3>2 DEF Row
  <2> QED
    BY <2>1, TypedStep
<1>b. /\ row \in Row /\ late \in Nat /\ row.used \in Nat /\ row.max \in Nat
      /\ req \in [Requests -> SendState] /\ charged \subseteq Requests
  BY DEF Typed, QuotaTypeOK, Row
<1>c. Cardinality(charged) \in Nat /\ IsFiniteSet(charged)
  BY ChargedFinite
<1>d. ASSUME NEW r \in Requests, Refresh(r) PROVE IInv'
  <2>1. CASE due
    <3>1. charged' = {} /\ late' = 0 /\ row'.used = 0
      BY <1>b, <1>d, <2>1 DEF Refresh, Row
    <3> QED
      BY <1>a, <3>1, FS_EmptySet DEF Charging, UsedMatchesUnits
  <2>2. CASE ~due
    <3>1. UNCHANGED <<row, charged, late>> /\ r \notin charged
      BY <1>d, <2>2 DEF Refresh, Charging
    <3>2. Charging'
      BY <1>b, <1>d, <3>1 DEF Refresh, Charging
    <3> QED
      BY <1>a, <3>1, <3>2 DEF UsedMatchesUnits
  <2> QED
    BY <2>1, <2>2
<1>e. ASSUME NEW r \in Requests, Consume(r) PROVE IInv'
  <2>1. r \notin charged
    BY <1>e DEF Consume, Charging
  <2>2. CASE UNCHANGED <<row, charged>>
    <3>1. Charging'
      BY <1>b, <1>e, <2>1, <2>2 DEF Consume, Charging, Block, SendState
    <3> QED
      BY <1>a, <1>e, <2>2, <3>1, UnitsUntouched DEF Consume
  <2>3. CASE /\ row' = [row EXCEPT !.used = @ + 1] /\ charged' = charged \cup {r}
             /\ TryNext(r, Channel[r], health)
    <3>1. Charging'
      <4>1. Channel[r] \in Seq(Providers) /\ health \in [Providers -> Health]
        BY QuotaAssumption DEF QuotaAssumption, Typed, QuotaTypeOK
      <4>2. /\ req'[r].pc \in {"trying", "refund"}
            /\ \A q \in Requests \ {r} : req'[q] = req[q]
        BY <2>3, <4>1, TryNextTyped
      <4> QED
        BY <1>b, <2>3, <4>2 DEF Charging
    <3>2. row'.used = row.used + 1 /\ late' = late
      BY <1>b, <1>e, <2>3 DEF Consume, Row
    <3>3. Cardinality(charged') = Cardinality(charged) + 1
      BY <1>c, <2>1, <2>3, FS_AddElement
    <3> QED
      BY <1>a, <1>b, <1>c, <3>1, <3>2, <3>3 DEF UsedMatchesUnits
  <2> QED
    BY <1>e, <2>2, <2>3 DEF Consume
<1>f. ASSUME NEW r \in Requests, Refund(r) PROVE IInv'
  <2>1. Charging'
    BY <1>b, <1>f DEF Refund, Charging, SendGoes, SendState
  <2>2. row'.used = IF row.used > 0 THEN row.used - 1 ELSE 0
    BY <1>b, <1>f DEF Refund, Row
  <2>3. CASE r \in charged
    <3>1. Cardinality(charged') = Cardinality(charged) - 1 /\ late' = late
      BY <1>c, <1>f, <2>3, FS_RemoveElement DEF Refund
    <3>2. Cardinality(charged) >= 1
      BY <1>c, <2>3, FS_EmptySet
    <3> QED
      BY <1>a, <1>b, <1>c, <2>1, <2>2, <3>1, <3>2 DEF UsedMatchesUnits
  <2>4. CASE r \notin charged
    <3>1. charged' = charged /\ late' = late + 1
      BY <1>f, <2>4 DEF Refund
    <3> QED
      BY <1>a, <1>b, <1>c, <2>1, <2>2, <3>1 DEF UsedMatchesUnits
  <2> QED
    BY <2>3, <2>4
<1>g. ASSUME NEW r \in Requests, AttemptFails(r) PROVE IInv'
  <2>1. UNCHANGED <<row, charged, late>>
    BY <1>g DEF AttemptFails, quota
  <2>2. Charging'
    <3>1. /\ Typed /\ req[r].left \in Seq(Providers) /\ req[r].left # <<>>
          /\ health \in [Providers -> Health]
      BY <1>b, <1>g DEF AttemptFails, Typed, QuotaTypeOK, Trying, SendState
    <3>2. Head(req[r].left) \in Providers /\ Tail(req[r].left) \in Seq(Providers)
      BY <3>1, HeadTailProperties
    <3>3. /\ req'[r].pc \in {"trying", "refund"}
          /\ \A q \in Requests \ {r} : req'[q] = req[q]
      <4>1. CASE req[r].attempt < MaxAttempts
        BY <1>b, <1>g, <4>1 DEF AttemptFails, SendState
      <4>2. CASE ~(req[r].attempt < MaxAttempts)
        <5>1. /\ health' = MarkFailure(health, Head(req[r].left))
              /\ TryNext(r, Tail(req[r].left), health')
          BY <1>g, <4>2 DEF AttemptFails
        <5> QED
          BY <3>1, <3>2, <5>1, MarkTyped, TryNextTyped
      <4> QED
        BY <4>1, <4>2
    <3> QED
      BY <1>b, <2>1, <3>3 DEF Charging
  <2> QED
    BY <1>a, <2>1, <2>2 DEF UsedMatchesUnits
<1>h. ASSUME NEW r \in Requests,
             Start(r) \/ Check(r) \/ Accept(r) \/ RefundFails(r)
      PROVE  IInv'
  <2>1. UNCHANGED <<row, charged, late>>
    BY <1>h DEF Start, Check, Accept, RefundFails, quota
  <2>2. \A q \in Requests \ {r} : req'[q] = req[q]
    BY <1>b, <1>h DEF Start, Check, Accept, RefundFails, SendGoes, Block
  <2>3. r \in charged => req'[r].pc \in {"sent", "failed"}
    BY <1>b, <1>h DEF Start, Check, Accept, RefundFails, SendGoes, Block, Charging, SendState
  <2> QED
    BY <1>a, <1>b, <2>1, <2>2, <2>3 DEF Charging, UsedMatchesUnits
<1>i. CASE SendsDie
  <2>1. UNCHANGED <<row, charged, late>>
    BY <1>i DEF SendsDie, quota
  <2>2. Charging'
    BY <1>b, <1>i, <2>1 DEF SendsDie, Charging, SendState, Busy, Ended, SendPC
  <2> QED
    BY <1>a, <2>1, <2>2 DEF UsedMatchesUnits
<1>j. ASSUME NEW m \in Limits, NEW on \in BOOLEAN, NEW ps \in SUBSET Providers, ChangeRow(m, on, ps)
      PROVE  IInv'
  <2>1. row'.used = row.used
    BY <1>b, <1>j DEF ChangeRow, Row
  <2> QED
    BY <1>a, <1>j, <2>1, UnitsUntouched DEF ChangeRow, Charging
<1>k. CASE CycleEnds \/ UNCHANGED quotaVars \/ \E p \in Providers : Cooldown(p) \/ OtherTraffic(p)
  <2>1. UNCHANGED <<row, charged, late, req>>
    BY <1>k DEF CycleEnds, quotaVars, Cooldown, OtherTraffic, quota
  <2> QED
    BY <1>a, <2>1 DEF Charging, UsedMatchesUnits
<1> QED
  BY <1>d, <1>e, <1>f, <1>g, <1>h, <1>i, <1>j, <1>k DEF QuotaNext, Step

LEMMA AlwaysIInv == QuotaSpec => []IInv
BY InitUnits, UnitsStep, PTL DEF QuotaSpec

\* The counter never runs ahead of the units of the cycle, and lags behind
\* them by at most the refunds of units of earlier cycles.
THEOREM UnitsCounted == QuotaSpec => []UsedMatchesUnits
<1>1. IInv => UsedMatchesUnits
  BY DEF IInv
<1> QED
  BY <1>1, AlwaysIInv, PTL

\* What the counter leaves of the limit bounds the units of the cycle.
LEMMA LimitStep == IInv /\ LimitKept /\ [QuotaNext]_quotaVars => LimitKept'
<1> SUFFICES ASSUME IInv, LimitKept, [QuotaNext]_quotaVars, peak' > 0, 0 \notin Limits
             PROVE  Cardinality(charged') <= peak' + late'
  BY DEF LimitKept
<1>1. /\ row.used \in Nat /\ row.max \in Nat /\ late \in Nat /\ peak \in Nat
  BY DEF IInv, Typed, QuotaTypeOK, Row
<1>2. /\ IsFiniteSet(charged) /\ Cardinality(charged) \in Nat
      /\ Cardinality(charged) <= row.used + late
      /\ peak > 0 => Cardinality(charged) <= peak + late
  BY ChargedFinite DEF IInv, UsedMatchesUnits, LimitKept
<1>3. ASSUME NEW r \in Requests, Consume(r)
      PROVE  Cardinality(charged') <= peak' + late'
  <2>1. CASE UNCHANGED <<charged, peak>>
    BY <1>2, <1>3, <2>1 DEF Consume
  <2>2. CASE /\ row.max = 0 \/ row.used < row.max
             /\ charged' = charged \cup {r}
             /\ peak' = IF row.max > peak THEN row.max ELSE peak
    <3>1. Cardinality(charged') = Cardinality(charged) + 1
      <4>1. r \notin charged
        BY <1>3 DEF Consume, IInv, Charging
      <4> QED
        BY <1>2, <2>2, <4>1, FS_AddElement
    <3>2. row.max > 0 /\ row.max # 0
      BY <1>1 DEF IInv
    <3>3. Cardinality(charged) + 1 <= row.max + late
      BY <1>1, <1>2, <2>2, <3>2
    <3>4. late' = late /\ peak' >= row.max
      BY <1>1, <1>3, <2>2 DEF Consume
    <3>5. peak' \in Nat
      BY <1>1, <2>2
    <3> QED
      BY <1>1, <1>2, <3>1, <3>3, <3>4, <3>5
  <2> QED
    BY <1>3, <2>1, <2>2 DEF Consume
<1>4. ASSUME NEW r \in Requests, Refund(r)
      PROVE  Cardinality(charged') <= peak' + late'
  <2>1. /\ peak' = peak /\ charged' = charged \ {r}
        /\ late' = IF r \in charged THEN late ELSE late + 1
    BY <1>4 DEF Refund
  <2>2. Cardinality(charged') <= Cardinality(charged) /\ Cardinality(charged') \in Nat
    <3>1. Cardinality(charged \ {r}) = IF r \in charged THEN Cardinality(charged) - 1
                                       ELSE Cardinality(charged)
      BY <1>2, FS_RemoveElement
    <3>2. IsFiniteSet(charged \ {r})
      BY <1>2, FS_RemoveElement
    <3>3. Cardinality(charged \ {r}) \in Nat
      BY <3>2, FS_CardinalityType
    <3> QED
      BY <1>2, <2>1, <3>1, <3>3
  <2> QED
    BY <1>1, <1>2, <2>1, <2>2
<1>5. ASSUME NEW r \in Requests, Refresh(r)
      PROVE  Cardinality(charged') <= peak' + late'
  BY <1>2, <1>5 DEF Refresh
<1>6. CASE UNCHANGED <<charged, peak, late>>
  BY <1>2, <1>6
<1> QED
  BY <1>3, <1>4, <1>5, <1>6 DEF QuotaNext, Step, quotaVars, quota, Start, Check, Accept, AttemptFails,
     RefundFails, SendsDie, CycleEnds, ChangeRow, Cooldown, OtherTraffic

\* The sends that keep a unit of the cycle stay within the largest limit they
\* were taken under, but for the refunds of units of earlier cycles.
THEOREM LimitHolds == QuotaSpec => []LimitKept
<1>1. QuotaInit => IInv /\ LimitKept
  <2>1. QuotaInit => LimitKept
    BY DEF QuotaInit, LimitKept
  <2> QED
    BY <2>1, InitUnits
<1>2. IInv /\ LimitKept /\ [QuotaNext]_quotaVars => (IInv /\ LimitKept)'
  BY UnitsStep, LimitStep
<1> QED
  BY <1>1, <1>2, PTL DEF QuotaSpec

\* The counter goes back only at the reset of a due cycle or by the unit of a
\* send that no provider took.
THEOREM CounterResetOnce == QuotaSpec => ResetOnce
<1> DEFINE Returned(r) == req[r].pc = "refund" /\ req'[r].pc = "failed"
<1>1. IInv /\ [QuotaNext]_quotaVars =>
        [row'.used < row.used =>
           \/ due /\ ~due'
           \/ row'.used = row.used - 1 /\ \E r \in Requests : Returned(r)]_quotaVars
  <2> SUFFICES ASSUME IInv, QuotaNext, row'.used < row.used
               PROVE  \/ due /\ ~due'
                      \/ row'.used = row.used - 1 /\ \E r \in Requests : Returned(r)
    OBVIOUS
  <2>1. row \in Row /\ row.used \in Nat /\ req \in [Requests -> SendState]
    BY DEF IInv, Typed, QuotaTypeOK, Row
  <2>2. ASSUME NEW r \in Requests, Refresh(r)
        PROVE  due /\ ~due'
    BY <2>1, <2>2 DEF Refresh
  <2>3. ASSUME NEW r \in Requests, Consume(r)
        PROVE  FALSE
    BY <2>1, <2>3 DEF Consume, Row
  <2>4. ASSUME NEW r \in Requests, Refund(r)
        PROVE  row'.used = row.used - 1 /\ Returned(r)
    <3>1. row'.used = row.used - 1
      BY <2>1, <2>4 DEF Refund, Row
    <3>2. Returned(r)
      BY <2>1, <2>4 DEF Refund, SendGoes, SendState
    <3> QED
      BY <3>1, <3>2
  <2>5. ASSUME NEW m \in Limits, NEW on \in BOOLEAN, NEW ps \in SUBSET Providers, ChangeRow(m, on, ps)
        PROVE  FALSE
    BY <2>1, <2>5 DEF ChangeRow, Row
  <2>6. CASE UNCHANGED row
    BY <2>1, <2>6
  <2> HIDE DEF Returned
  <2> QED
    BY <2>2, <2>3, <2>4, <2>5, <2>6 DEF QuotaNext, Step, quota, Start, Check, Accept, AttemptFails,
       RefundFails, SendsDie, CycleEnds, Cooldown, OtherTraffic
<1> QED
  BY <1>1, AlwaysIInv, PTL DEF QuotaSpec, ResetOnce

-----------------------------------------------------------------------------
(* No unit leaks.                                                          *)

\* Where a send keeps the unit it was charged.
Keeps == {"trying", "refund", "sent"}

\* The faults that are left never grow, and without one every charged send
\* keeps its unit.
Kept ==
  /\ budget["fault"] <= Bound["fault"]
  /\ budget["fault"] = Bound["fault"] => \A r \in charged : req[r].pc \in Keeps

\* A step of r that leaves the other sends alone keeps their units.
LEMMA KeptBy ==
  ASSUME Kept, NEW r \in Requests, budget' = budget, charged' \subseteq charged \cup {r},
         \A q \in Requests \ {r} : req'[q] = req[q], charged \subseteq Requests,
         budget["fault"] = Bound["fault"] /\ r \in charged' => req'[r].pc \in Keeps
  PROVE  Kept'
BY DEF Kept

LEMMA SpendLeaves ==
  ASSUME QuotaTypeOK, Kept, NEW kind \in Kinds, Spend(kind), charged' = charged,
         kind # "fault" => req' = req
  PROVE  Kept'
<1>1. /\ "fault" \in Kinds /\ budget["fault"] \in Nat /\ Bound["fault"] \in Nat
      /\ budget[kind] \in Nat
  BY QuotaAssumption DEF QuotaTypeOK, Kinds
<1>2. CASE kind = "fault"
  <2>1. budget'["fault"] = budget["fault"] - 1
    BY <1>2 DEF Spend, QuotaTypeOK
  <2>2. budget'["fault"] <= Bound["fault"] /\ budget'["fault"] # Bound["fault"]
    BY <1>1, <2>1 DEF Kept
  <2> QED
    BY <2>2 DEF Kept
<1>3. CASE kind # "fault"
  <2>1. budget'["fault"] = budget["fault"]
    BY <1>1, <1>3 DEF Spend, QuotaTypeOK
  <2> QED
    BY <1>3, <2>1 DEF Kept
<1> QED
  BY <1>2, <1>3

LEMMA KeptStep == Typed /\ Kept /\ [QuotaNext]_quotaVars => Kept'
<1> SUFFICES ASSUME Typed, Kept, [QuotaNext]_quotaVars PROVE Kept'
  OBVIOUS
<1>1. /\ QuotaTypeOK /\ charged \subseteq Requests /\ health \in [Providers -> Health]
      /\ req \in [Requests -> SendState]
  BY DEF Typed, QuotaTypeOK
<1>2. ASSUME NEW r \in Requests, NEW pc \in SendPC, SendGoes(r, pc), UNCHANGED budget,
             charged' \in {charged, charged \ {r}},
             pc \in Keeps \/ r \notin charged' \/ req[r].pc \notin Keeps
      PROVE  Kept'
  <2>1. req'[r].pc = pc /\ \A q \in Requests \ {r} : req'[q] = req[q]
    BY <1>1, <1>2 DEF SendGoes, SendState
  <2> QED
    BY <1>1, <1>2, <2>1, KeptBy DEF Kept
<1>3. ASSUME NEW r \in Requests, Start(r) \/ Accept(r) \/ Refund(r)
      PROVE  Kept'
  BY <1>2, <1>3 DEF Start, Accept, Refund, quota, SendPC, Keeps
<1>4. ASSUME NEW r \in Requests, Refresh(r)
      PROVE  Kept'
  <2>1. \A q \in Requests : req'[q].pc = req[q].pc \/ req[q].pc \notin Keeps
    BY <1>1, <1>4 DEF Refresh, Keeps, SendState
  <2> QED
    BY <1>1, <1>4, <2>1 DEF Refresh, Kept
<1>5. ASSUME NEW r \in Requests, Check(r)
      PROVE  Kept'
  <2>1. req[r].pc \notin Keeps /\ UNCHANGED <<charged, budget>>
    BY <1>5 DEF Check, Keeps, quota
  <2>2. \A q \in Requests \ {r} : req'[q] = req[q]
    BY <1>1, <1>5 DEF Check, Block, SendGoes
  <2> QED
    BY <1>1, <2>1, <2>2, KeptBy DEF Kept
<1>6. ASSUME NEW r \in Requests, Consume(r)
      PROVE  Kept'
  <2>1. CASE TryNext(r, Channel[r], health) /\ charged' = charged \cup {r}
    <3>1. req'[r].pc \in Keeps /\ \A q \in Requests \ {r} : req'[q] = req[q]
      BY <1>1, <2>1, TryNextTyped, QuotaAssumption DEF Keeps
    <3> QED
      BY <1>1, <1>6, <2>1, <3>1, KeptBy DEF Consume
  <2>2. CASE Block(r, "quota") /\ UNCHANGED charged
    <3>1. \A q \in Requests \ {r} : req'[q] = req[q]
      BY <1>1, <2>2 DEF Block
    <3> QED
      BY <1>1, <1>6, <2>2, <3>1, KeptBy DEF Consume, Kept, Keeps
  <2> QED
    BY <1>6, <2>1, <2>2 DEF Consume
<1>7. ASSUME NEW r \in Requests, AttemptFails(r)
      PROVE  Kept'
  <2>1. UNCHANGED <<charged, budget>>
    BY <1>7 DEF AttemptFails, quota
  <2>2. CASE req' = [req EXCEPT ![r].attempt = @ + 1]
    <3>1. req'[r].pc = "trying" /\ \A q \in Requests \ {r} : req'[q] = req[q]
      BY <1>1, <1>7, <2>2 DEF AttemptFails, SendState
    <3> QED
      BY <1>1, <2>1, <3>1, KeptBy DEF Keeps
  <2>3. CASE /\ health' = MarkFailure(health, Head(req[r].left))
             /\ TryNext(r, Tail(req[r].left), health')
    <3>1. Head(req[r].left) \in Providers /\ Tail(req[r].left) \in Seq(Providers)
      BY <1>1, <1>7 DEF AttemptFails, Typed, Trying, SendState
    <3>2. health' \in [Providers -> Health]
      BY <1>1, <2>3, <3>1, MarkTyped
    <3>3. req'[r].pc \in Keeps /\ \A q \in Requests \ {r} : req'[q] = req[q]
      BY <2>3, <3>1, <3>2, TryNextTyped DEF Keeps
    <3> QED
      BY <1>1, <2>1, <3>3, KeptBy
  <2> QED
    BY <1>7, <2>2, <2>3 DEF AttemptFails
<1>8. ASSUME NEW kind \in Kinds, Spend(kind), charged' = charged, kind # "fault" => req' = req
      PROVE  Kept'
  BY <1>1, <1>8, SpendLeaves
<1>9. ASSUME NEW r \in Requests, RefundFails(r)
      PROVE  Kept'
  BY <1>8, <1>9 DEF RefundFails, quota, Kinds
<1>10. CASE SendsDie \/ CycleEnds
  BY <1>8, <1>10 DEF SendsDie, CycleEnds, quota, Kinds
<1>11. ASSUME NEW m \in Limits, NEW on \in BOOLEAN, NEW ps \in SUBSET Providers, ChangeRow(m, on, ps)
       PROVE  Kept'
  BY <1>8, <1>11 DEF ChangeRow, Kinds
<1>12. ASSUME NEW p \in Providers, Cooldown(p) \/ OtherTraffic(p)
       PROVE  Kept'
  <2>1. CASE Cooldown(p)
    BY <2>1 DEF Cooldown, quota, Kept
  <2>2. CASE OtherTraffic(p)
    BY <1>8, <2>2 DEF OtherTraffic, quota, Kinds
  <2> QED
    BY <1>12, <2>1, <2>2
<1>13. CASE UNCHANGED quotaVars
  BY <1>13 DEF quotaVars, Kept
<1> QED
  BY <1>3, <1>4, <1>5, <1>6, <1>7, <1>9, <1>10, <1>11, <1>12, <1>13 DEF QuotaNext, Step

\* As long as no process died and no refund's UPDATE failed, every unit of the
\* cycle belongs to a send that is under way or was delivered, whatever was
\* refused, skipped as unhealthy, retried, reset or changed meanwhile.
THEOREM UnitsKept == QuotaSpec => []NoUnitLost
<1>1. QuotaInit => Kept
  BY QuotaAssumption DEF QuotaInit, Kept, Kinds
<1>2. Kept => NoUnitLost
  BY DEF Kept, NoUnitLost, Keeps
<1> QED
  BY <1>1, <1>2, AlwaysTyped, KeptStep, PTL DEF QuotaSpec


-----------------------------------------------------------------------------
(* TenantPlan *)

\* While the row allows one more channel, the clock stands.
ClockStands == MayCreate => barred = 0

\* An entry that allows one more was true not much longer ago than it is old.
EntryTimed ==
  limits # NoLimits /\ Allows(limits.active, limits.plan, limits.count)
    => barred <= limits.age + MaxRun

\* A row that would allow one more with the count of now, then the row and the
\* count that do, and the decision that one of them or an entry led to.
RowTimed(t) ==
  at[t] = "count" /\ Allows(snap[t].active, snap[t].plan, channels) => barred <= snap[t].run
CountTimed(t) ==
  at[t] = "store" /\ Allows(snap[t].active, snap[t].plan, snap[t].count)
    => barred <= snap[t].run
InsertTimed(t) == at[t] = "insert" => barred <= LimitsTTL + MaxRun + snap[t].run

Timed ==
  /\ ClockStands /\ EntryTimed
  /\ \A t \in Tasks : RowTimed(t) /\ CountTimed(t) /\ InsertTimed(t)

\* The places where a decision is on its way.
Deciding == {"count", "store", "insert"}

OthersStay(t) == \A u \in Tasks \ {t} : at'[u] = at[u] /\ snap'[u] = snap[u]

----------------------------------------------------------------------------
\* Types of the operators that the steps are made of.

LEMMA Bounds ==
  /\ LimitsTTL \in Nat \ {0} /\ FeaturesTTL \in Nat \ {0} /\ MaxRun \in Nat
  /\ MaxRequests \in Nat /\ Window \in Nat /\ Window = LimitsTTL + 2 * MaxRun
BY TenantPlanAssumption DEF Window

LEMMA PlanFacts ==
  ASSUME NEW p \in Plans
  PROVE  MaxChannels[p] \in Nat /\ PlanFeatures[p] \subseteq Features
BY DEF Plans, MaxChannels, PlanFeatures

LEMMA NoFlagsTyped == NoFlags \in Overrides
<1>1. NoFlags \in [{} -> BOOLEAN]
  BY DEF NoFlags
<1> QED
  BY <1>1 DEF Overrides

LEMMA OverridesGiven ==
  ASSUME NEW want \in Overrides
  PROVE  /\ DOMAIN want \subseteq Features
         /\ \A f \in DOMAIN want : want[f] \in BOOLEAN
<1>1. PICK S \in SUBSET Features : want \in [S -> BOOLEAN]
  BY DEF Overrides
<1> QED
  BY <1>1

LEMMA SparseTyped ==
  ASSUME NEW want \in Overrides, NEW plan
  PROVE  normalizeSparseOverrides(want, plan) \in Overrides
<1> DEFINE S == {g \in DOMAIN want : want[g] # (g \in PlanFeatures[plan])}
<1>1. S \in SUBSET Features /\ \A f \in S : want[f] \in BOOLEAN
  BY OverridesGiven
<1>2. [f \in S |-> want[f]] \in [S -> BOOLEAN]
  BY <1>1
<1> QED
  BY <1>1, <1>2 DEF normalizeSparseOverrides, Overrides

LEMMA DifferingTyped ==
  ASSUME NEW base \in SUBSET Features, NEW draft \in SUBSET Features
  PROVE  Differing(base, draft) \in Overrides
<1> DEFINE S == (base \ draft) \cup (draft \ base)
<1>1. [f \in S |-> f \in draft] \in [S -> BOOLEAN]
  OBVIOUS
<1>2. S \in SUBSET Features
  OBVIOUS
<1> QED
  BY <1>1, <1>2 DEF Differing, Overrides

LEMMA NothingTyped == Nothing \in Snaps /\ Nothing.run = 0
BY NoFlagsTyped, Bounds DEF Nothing, Snaps, Plans, Origins

LEMMA NonesTyped == NoLimits \in Entries /\ NoFeatures \in Answers
BY Bounds DEF NoLimits, NoFeatures, Entries, Answers

LEMMA GoTyped ==
  ASSUME PlanTypeOK, NEW t \in Tasks, NEW place \in Places, Go(t, place)
  PROVE  /\ at' \in [Tasks -> Places] /\ at'[t] = place
         /\ \A u \in Tasks \ {t} : at'[u] = at[u]
BY DEF PlanTypeOK, Go

LEMMA DoneTyped ==
  ASSUME PlanTypeOK, NEW t \in Tasks, Done(t)
  PROVE  /\ at' \in [Tasks -> Places] /\ snap' \in [Tasks -> Snaps]
         /\ at'[t] = "idle" /\ OthersStay(t)
<1>1. at' \in [Tasks -> Places] /\ at'[t] = "idle" /\ \A u \in Tasks \ {t} : at'[u] = at[u]
  BY GoTyped DEF Done, Places
<1>2. snap' \in [Tasks -> Snaps] /\ \A u \in Tasks \ {t} : snap'[u] = snap[u]
  BY NothingTyped DEF PlanTypeOK, Done
<1> QED
  BY <1>1, <1>2 DEF OthersStay

LEMMA KeepTyped ==
  ASSUME PlanTypeOK, NEW t \in Tasks, NEW held \in Snaps, Keep(t, held)
  PROVE  /\ snap' \in [Tasks -> Snaps] /\ snap'[t].run = snap[t].run
         /\ \A u \in Tasks \ {t} : snap'[u] = snap[u]
<1>1. snap[t] \in Snaps /\ snap[t].run \in 0 .. MaxRun
  BY DEF PlanTypeOK, Snaps
<1>2. [held EXCEPT !.run = snap[t].run] \in Snaps
  BY <1>1 DEF Snaps
<1>3. [held EXCEPT !.run = snap[t].run].run = snap[t].run
  BY DEF Snaps
<1> QED
  BY <1>2, <1>3 DEF PlanTypeOK, Keep

LEMMA CountedTyped == ASSUME PlanTypeOK, Counted PROVE requests' \in 0 .. MaxRequests
BY Bounds DEF PlanTypeOK, Counted

LEMMA WatchTyped ==
  ASSUME PlanTypeOK, Watch
  PROVE  barred' \in 0 .. Window + 1 /\ ClockStands' /\ (barred' = 0 \/ barred' = barred)
BY Bounds DEF PlanTypeOK, Watch, ClockStands

LEMMA OlderLimits ==
  ASSUME NEW e \in Entries
  PROVE  /\ Older(e, LimitsTTL, NoLimits) \in Entries
         /\ \/ Older(e, LimitsTTL, NoLimits) = NoLimits
            \/ /\ e # NoLimits
               /\ Older(e, LimitsTTL, NoLimits).age = e.age + 1
               /\ Older(e, LimitsTTL, NoLimits).plan = e.plan
               /\ Older(e, LimitsTTL, NoLimits).active = e.active
               /\ Older(e, LimitsTTL, NoLimits).count = e.count
<1>1. CASE e # NoLimits /\ e.age + 1 < LimitsTTL
  <2>1. Older(e, LimitsTTL, NoLimits) = [e EXCEPT !.age = e.age + 1]
    BY <1>1 DEF Older
  <2>2. e.age + 1 \in 0 .. LimitsTTL - 1
    BY <1>1, Bounds DEF Entries
  <2> QED
    BY <1>1, <2>1, <2>2 DEF Entries
<1>2. CASE ~(e # NoLimits /\ e.age + 1 < LimitsTTL)
  BY <1>2, NonesTyped DEF Older
<1> QED
  BY <1>1, <1>2

LEMMA OlderFeatures ==
  ASSUME NEW e \in Answers
  PROVE  Older(e, FeaturesTTL, NoFeatures) \in Answers
<1>1. CASE e # NoFeatures /\ e.age + 1 < FeaturesTTL
  <2>1. Older(e, FeaturesTTL, NoFeatures) = [e EXCEPT !.age = e.age + 1]
    BY <1>1 DEF Older
  <2>2. e.age + 1 \in 0 .. FeaturesTTL
    BY <1>1, Bounds DEF Answers
  <2> QED
    BY <2>1, <2>2 DEF Answers
<1>2. CASE ~(e # NoFeatures /\ e.age + 1 < FeaturesTTL)
  BY <1>2, NonesTyped DEF Older
<1> QED
  BY <1>1, <1>2

----------------------------------------------------------------------------
\* Types: one lemma for the actions that change the same variables.

LEMMA SnapTyped ==
  ASSUME NEW h \in Snaps
  PROVE  /\ h.run \in 0 .. MaxRun /\ h.plan \in Plans /\ h.active \in BOOLEAN
         /\ h.count \in Nat /\ h.flags \in Overrides /\ h.want \in Overrides
         /\ \A n \in 0 .. MaxRun : [h EXCEPT !.run = n] \in Snaps
         /\ \A p \in Plans, a \in BOOLEAN : [h EXCEPT !.plan = p, !.active = a] \in Snaps
         /\ \A p \in Plans, f \in Overrides : [h EXCEPT !.plan = p, !.flags = f] \in Snaps
         /\ \A n \in Nat : [h EXCEPT !.count = n] \in Snaps
         /\ \A from \in Origins : [h EXCEPT !.from = from] \in Snaps
         /\ \A w \in Overrides, on \in SUBSET Features, from \in Origins :
              [h EXCEPT !.want = w, !.on = on, !.from = from] \in Snaps
BY DEF Snaps

LEMMA HeldTyped ==
  ASSUME PlanTypeOK, NEW t \in Tasks, NEW held \in Snaps, snap' = [snap EXCEPT ![t] = held]
  PROVE  /\ snap' \in [Tasks -> Snaps] /\ snap'[t] = held
         /\ \A u \in Tasks \ {t} : snap'[u] = snap[u]
BY DEF PlanTypeOK

LEMMA DecideTyped ==
  ASSUME PlanTypeOK, NEW t \in Tasks, NEW e, Decide(t, e)
  PROVE  /\ at' \in [Tasks -> Places] /\ snap' \in [Tasks -> Snaps] /\ OthersStay(t)
         /\ \/ at'[t] = "idle"
            \/ /\ at'[t] = "insert" /\ snap'[t].run = snap[t].run
               /\ Allows(e.active, e.plan, e.count)
<1>1. CASE Allows(e.active, e.plan, e.count)
  <2>1. Go(t, "insert") /\ Keep(t, Nothing)
    BY <1>1 DEF Decide
  <2> QED
    BY <1>1, <2>1, GoTyped, KeepTyped, NothingTyped DEF Places, OthersStay
<1>2. CASE ~Allows(e.active, e.plan, e.count)
  BY <1>2, DoneTyped DEF Decide
<1> QED
  BY <1>1, <1>2

LEMMA CreateTyped ==
  ASSUME PlanTypeOK, NEW t \in Tasks,
         CreateStart(t) \/ LimitsHit(t) \/ LimitsMiss(t) \/ LoadRow(t) \/ LoadCount(t)
           \/ StoreLimits(t) \/ CreateChannel(t)
  PROVE  PlanTypeOK'
<1>1. CASE CreateStart(t)
  BY <1>1, GoTyped, CountedTyped DEF CreateStart, caches, Places, PlanTypeOK
<1>2. CASE LimitsHit(t)
  BY <1>2, DecideTyped DEF LimitsHit, caches, PlanTypeOK
<1>3. CASE LimitsMiss(t)
  BY <1>3, GoTyped DEF LimitsMiss, caches, Places, PlanTypeOK
<1>4. CASE LoadRow(t)
  <2>1. at' \in [Tasks -> Places]
    BY <1>4, GoTyped DEF LoadRow, Places
  <2>2. snap[t] \in Snaps /\ tenant.plan \in Plans /\ tenant.active \in BOOLEAN
    BY DEF PlanTypeOK, Tenants
  <2>3. snap' = [snap EXCEPT ![t] = [snap[t] EXCEPT !.plan = tenant.plan,
                                                     !.active = tenant.active]]
    BY <1>4 DEF LoadRow, PlanTypeOK
  <2>4. snap' \in [Tasks -> Snaps]
    BY <2>2, <2>3, SnapTyped, HeldTyped
  <2> QED
    BY <1>4, <2>1, <2>4 DEF LoadRow, caches, PlanTypeOK
<1>5. CASE LoadCount(t)
  <2>1. at' \in [Tasks -> Places]
    BY <1>5, GoTyped DEF LoadCount, Places
  <2>2. snap' \in [Tasks -> Snaps]
    BY <1>5 DEF LoadCount, PlanTypeOK, Snaps
  <2> QED
    BY <1>5, <2>1, <2>2 DEF LoadCount, caches, PlanTypeOK
<1>6. CASE StoreLimits(t)
  <2>1. limits' \in Entries
    BY <1>6, Bounds DEF StoreLimits, PlanTypeOK, Snaps, Entries
  <2> QED
    BY <1>6, <2>1, DecideTyped DEF StoreLimits, PlanTypeOK
<1>7. CASE CreateChannel(t)
  <2>1. channels' \in Nat
    BY <1>7 DEF CreateChannel, PlanTypeOK
  <2> QED
    BY <1>7, <2>1, DoneTyped, WatchTyped DEF CreateChannel, caches, PlanTypeOK
<1> QED
  BY <1>1, <1>2, <1>3, <1>4, <1>5, <1>6, <1>7

LEMMA FeaturesTyped ==
  ASSUME PlanTypeOK, NEW t \in Tasks, LookFeatures(t) \/ ReadFeatures(t) \/ StoreFeatures(t)
  PROVE  PlanTypeOK'
<1>1. CASE LookFeatures(t)
  BY <1>1, GoTyped DEF LookFeatures, caches, Places, PlanTypeOK
<1>2. CASE ReadFeatures(t)
  <2>1. at' \in [Tasks -> Places]
    BY <1>2, GoTyped DEF ReadFeatures, Places
  <2>2. computeFeaturesForTenantRow(tenant) \subseteq Features
    BY DEF computeFeaturesForTenantRow, Effective
  <2>3. snap' \in [Tasks -> Snaps]
    BY <1>2, <2>2 DEF ReadFeatures, PlanTypeOK, Snaps
  <2> QED
    BY <1>2, <2>1, <2>3 DEF ReadFeatures, caches, PlanTypeOK
<1>3. CASE StoreFeatures(t)
  <2>1. snap[t] \in Snaps
    BY DEF PlanTypeOK
  <2>2. snap[t].run < FeaturesTTL => [age |-> snap[t].run, on |-> snap[t].on] \in Answers
    BY <2>1, Bounds DEF Snaps, Answers
  <2>3. features' \in [Procs -> Answers]
    BY <1>3, <2>2, NonesTyped DEF StoreFeatures, PlanTypeOK
  <2> QED
    BY <1>3, <2>3, DoneTyped DEF StoreFeatures, PlanTypeOK
<1> QED
  BY <1>1, <1>2, <1>3

LEMMA AskTyped ==
  ASSUME PlanTypeOK, NEW t \in Tasks, NEW want \in Overrides, NEW shown \in SUBSET Features,
         NEW from \in Origins, Ask(t, want, shown, from)
  PROVE  PlanTypeOK'
<1>1. at' \in [Tasks -> Places] /\ requests' \in 0 .. MaxRequests
  BY GoTyped, CountedTyped DEF Ask, Places
<1>2. snap' \in [Tasks -> Snaps]
  <2>1. snap[t] \in Snaps
    BY DEF PlanTypeOK
  <2>2. snap' = [snap EXCEPT ![t] = [snap[t] EXCEPT !.want = want, !.on = shown, !.from = from]]
    BY DEF Ask, PlanTypeOK
  <2> QED
    BY <2>1, <2>2, SnapTyped, HeldTyped
<1> QED
  BY <1>1, <1>2 DEF Ask, caches, PlanTypeOK

LEMMA PageAsks ==
  ASSUME PlanTypeOK, NEW t \in Tasks,
         SaveFeatures(t) \/ ResetToPlan(t) \/ ApplyTemplate(t) \/ Revert(t)
  PROVE  \E want \in Overrides, shown \in SUBSET Features, from \in Origins :
           Ask(t, want, shown, from)
<1>1. CASE SaveFeatures(t)
  <2>1. PICK draft \in SUBSET Features : Ask(t, Differing(page, draft), draft, "features")
    BY <1>1 DEF SaveFeatures
  <2>2. Differing(page, draft) \in Overrides
    BY DifferingTyped DEF PlanTypeOK
  <2> QED
    BY <2>1, <2>2 DEF Origins
<1>2. CASE ResetToPlan(t)
  BY <1>2, NoFlagsTyped DEF ResetToPlan, Origins
<1>3. CASE ApplyTemplate(t)
  <2>1. PICK b \in BOOLEAN : Ask(t, [f \in Features |-> b], {}, "history")
    BY <1>3 DEF ApplyTemplate
  <2>2. [f \in Features |-> b] \in [Features -> BOOLEAN]
    OBVIOUS
  <2>3. [f \in Features |-> b] \in Overrides
    BY <2>2 DEF Overrides
  <2> QED
    BY <2>1, <2>3 DEF Origins
<1>4. CASE Revert(t)
  <2>1. PICK change \in audit : Ask(t, change.previous, {}, "history")
    BY <1>4 DEF Revert
  <2>2. change \in [previous : Overrides, next : Overrides]
    BY DEF PlanTypeOK
  <2>3. change.previous \in Overrides
    BY <2>2
  <2> QED
    BY <2>1, <2>3 DEF Origins
<1> QED
  BY <1>1, <1>2, <1>3, <1>4

LEMMA OverridesTyped ==
  ASSUME PlanTypeOK, NEW t \in Tasks,
         ReadTenant(t) \/ Commit(t) \/ Rollback(t) \/ SetPlan(t) \/ Invalidate(t)
           \/ AnswerLost(t) \/ RefreshPage(t)
  PROVE  PlanTypeOK'
<1>1. CASE ReadTenant(t)
  <2>1. at' \in [Tasks -> Places] /\ snap' \in [Tasks -> Snaps]
    <3>1. CASE Done(t)
      BY <3>1, DoneTyped
    <3>2. CASE /\ Go(t, "commit")
               /\ snap' = [snap EXCEPT ![t].plan = tenant.plan, ![t].flags = tenant.flags]
      <4>1. snap[t] \in Snaps /\ tenant.plan \in Plans /\ tenant.flags \in Overrides
        BY DEF PlanTypeOK, Tenants
      <4>2. snap' = [snap EXCEPT ![t] = [snap[t] EXCEPT !.plan = tenant.plan,
                                                         !.flags = tenant.flags]]
        BY <3>2 DEF PlanTypeOK
      <4> QED
        BY <3>2, <4>1, <4>2, GoTyped, SnapTyped, HeldTyped DEF Places
    <3> QED
      BY <1>1, <3>1, <3>2 DEF ReadTenant
  <2> QED
    BY <1>1, <2>1 DEF ReadTenant, caches, PlanTypeOK
<1>2. CASE Commit(t)
  <2> DEFINE next == normalizeSparseOverrides(snap[t].want, snap[t].plan)
  <2>1. snap[t] \in Snaps /\ next \in Overrides
    BY SparseTyped DEF PlanTypeOK, Snaps
  <2> HIDE DEF next
  <2>2. tenant' = [tenant EXCEPT !.flags = next]
        /\ audit' = audit \cup {[previous |-> snap[t].flags, next |-> next]}
    BY <1>2 DEF Commit, next
  <2>7. tenant' \in Tenants
    BY <2>1, <2>2 DEF PlanTypeOK, Tenants
  <2>8. [previous |-> snap[t].flags, next |-> next] \in [previous : Overrides, next : Overrides]
    BY <2>1, SnapTyped
  <2>3. tenant' \in Tenants /\ audit' \subseteq [previous : Overrides, next : Overrides]
    BY <2>2, <2>7, <2>8 DEF PlanTypeOK
  <2>4. at' \in [Tasks -> Places]
    BY <1>2, GoTyped DEF Commit, Places
  <2>5. [Nothing EXCEPT !.from = snap[t].from] \in Snaps
    BY <2>1, NothingTyped DEF Snaps
  <2>6. snap' \in [Tasks -> Snaps]
    BY <1>2, <2>5, KeepTyped DEF Commit
  <2> QED
    BY <1>2, <2>3, <2>4, <2>6 DEF Commit, caches, PlanTypeOK
<1>3. CASE Rollback(t) \/ AnswerLost(t)
  BY <1>3, DoneTyped DEF Rollback, AnswerLost, caches, PlanTypeOK
<1>4. CASE SetPlan(t)
  <2>1. tenant' \in Tenants /\ snap' \in [Tasks -> Snaps]
    <3>1. PICK plan \in Plans, active \in BOOLEAN :
            tenant' = [tenant EXCEPT !.plan = plan, !.active = active]
      BY <1>4 DEF SetPlan
    <3>2. tenant' \in Tenants
      BY <3>1 DEF PlanTypeOK, Tenants
    <3>3. PICK from \in {"none", "form"} : snap' = [snap EXCEPT ![t].from = from]
      BY <1>4 DEF SetPlan
    <3>4. snap[t] \in Snaps /\ snap' = [snap EXCEPT ![t] = [snap[t] EXCEPT !.from = from]]
      BY <3>3 DEF PlanTypeOK
    <3> QED
      BY <3>2, <3>4, SnapTyped, HeldTyped DEF Origins
  <2>2. at' \in [Tasks -> Places] /\ requests' \in 0 .. MaxRequests
    BY <1>4, GoTyped, CountedTyped DEF SetPlan, Places
  <2>3. barred' \in 0 .. Window + 1
    BY <1>4, WatchTyped DEF SetPlan
  <2> QED
    BY <1>4, <2>1, <2>2, <2>3 DEF SetPlan, caches, PlanTypeOK
<1>5. CASE Invalidate(t)
  <2>1. limits' \in Entries /\ features' \in [Procs -> Answers] /\ page' \subseteq Features
    BY <1>5, NonesTyped DEF Invalidate, PlanTypeOK, DefaultFeatures
  <2>2. at' \in [Tasks -> Places] /\ snap' \in [Tasks -> Snaps]
    BY <1>5, GoTyped, DoneTyped DEF Invalidate, PlanTypeOK, Places
  <2> QED
    BY <1>5, <2>1, <2>2 DEF Invalidate, PlanTypeOK
<1>6. CASE RefreshPage(t)
  <2>1. page' \subseteq Features
    BY <1>6, PlanFacts DEF RefreshPage, PlanTypeOK, Tenants, Shown
  <2> QED
    BY <1>6, <2>1, DoneTyped DEF RefreshPage, caches, PlanTypeOK
<1> QED
  BY <1>1, <1>2, <1>3, <1>4, <1>5, <1>6

LEMMA TickTyped ==
  ASSUME PlanTypeOK, Tick
  PROVE  /\ PlanTypeOK'
         /\ \A t \in Tasks : at[t] # "idle" => snap'[t] = [snap[t] EXCEPT !.run = @ + 1]
<1>1. limits' \in Entries
  BY OlderLimits DEF Tick, PlanTypeOK
<1>2. features' \in [Procs -> Answers]
  BY OlderFeatures DEF Tick, PlanTypeOK
<1>3. snap' = [t \in Tasks |-> IF at[t] = "idle" THEN snap[t]
                              ELSE [snap[t] EXCEPT !.run = @ + 1]]
  BY DEF Tick
<1>4. ASSUME NEW t \in Tasks, at[t] # "idle" PROVE [snap[t] EXCEPT !.run = @ + 1] \in Snaps
  <2>1. snap[t] \in Snaps /\ snap[t].run < MaxRun
    BY <1>4 DEF Tick, PlanTypeOK
  <2>3. snap[t].run \in 0 .. MaxRun
    BY <2>1, SnapTyped
  <2>2. snap[t].run + 1 \in 0 .. MaxRun
    BY <2>1, <2>3, Bounds
  <2> QED
    BY <2>1, <2>2, SnapTyped
<1>5. snap' \in [Tasks -> Snaps]
  BY <1>3, <1>4 DEF PlanTypeOK
<1>6. barred' \in 0 .. Window + 1
  BY Bounds DEF Tick, PlanTypeOK
<1> QED
  BY <1>1, <1>2, <1>3, <1>5, <1>6 DEF Tick, PlanTypeOK

LEMMA PlanTypeStep == ASSUME PlanTypeOK, [PlanNext]_planVars PROVE PlanTypeOK'
<1>1. ASSUME NEW t \in Tasks, PlanStep(t) PROVE PlanTypeOK'
  BY <1>1, CreateTyped, FeaturesTyped, OverridesTyped DEF PlanStep
<1>2. ASSUME NEW t \in Tasks,
             SaveFeatures(t) \/ ResetToPlan(t) \/ ApplyTemplate(t) \/ Revert(t)
      PROVE  PlanTypeOK'
  BY <1>2, PageAsks, AskTyped
<1>3. ASSUME NEW t \in Tasks, CreateStart(t) \/ LookFeatures(t) \/ SetPlan(t) PROVE PlanTypeOK'
  BY <1>3, CreateTyped, FeaturesTyped, OverridesTyped
<1>4. CASE DeleteChannel
  BY <1>4, CountedTyped, Bounds DEF DeleteChannel, caches, PlanTypeOK
<1>5. CASE AdminCreateChannel
  <2>1. channels' \in Nat
    BY <1>5 DEF AdminCreateChannel, PlanTypeOK
  <2> QED
    BY <1>5, <2>1, CountedTyped, WatchTyped DEF AdminCreateChannel, caches, PlanTypeOK
<1>6. CASE OpenPage
  <2>1. page' \subseteq Features
    BY <1>6, PlanFacts DEF OpenPage, PlanTypeOK, Tenants, Shown
  <2> QED
    BY <1>6, <2>1 DEF OpenPage, caches, PlanTypeOK
<1>7. CASE UNCHANGED planVars
  BY <1>7 DEF planVars, caches, PlanTypeOK
<1>8. CASE Restart
  <2>1. limits' \in Entries /\ features' \in [Procs -> Answers]
    BY <1>8, NonesTyped DEF Restart, PlanTypeOK
  <2>2. at' \in [Tasks -> Places] /\ snap' \in [Tasks -> Snaps]
    BY <1>8, NothingTyped DEF Restart, PlanTypeOK, Places
  <2> QED
    BY <1>8, <2>1, <2>2 DEF Restart, PlanTypeOK
<1> QED
  BY <1>1, <1>2, <1>3, <1>4, <1>5, <1>6, <1>7, <1>8, TickTyped DEF PlanNext

LEMMA PlanTypeInit == PlanInit => PlanTypeOK
<1> SUFFICES ASSUME PlanInit PROVE PlanTypeOK
  OBVIOUS
<1>1. tenant \in Tenants
  BY NoFlagsTyped DEF PlanInit, Tenants, Plans
<1>2. page \subseteq Features
  BY <1>1, PlanFacts DEF PlanInit, Tenants
<1> QED
  BY <1>1, <1>2, NonesTyped, NothingTyped, Bounds DEF PlanInit, PlanTypeOK, Places

----------------------------------------------------------------------------
\* The clock of `barred`, against the ages of what may still let a request through.

\* A step that puts no task where it decides, fills no entry and lets the clock stand
\* or starts it again, keeps what is known of the others.
LEMMA TimedKept ==
  ASSUME PlanTypeOK, PlanTypeOK', Timed, ClockStands', limits' \in {limits, NoLimits},
         \A u \in Tasks : at'[u] \in Deciding => at'[u] = at[u] /\ snap'[u] = snap[u],
         barred' = 0 \/ (barred' = barred /\ channels' >= channels)
  PROVE  Timed'
<1>1. EntryTimed'
  BY Bounds DEF Timed, EntryTimed, PlanTypeOK, Entries
<1>2. ASSUME NEW t \in Tasks PROVE RowTimed(t)' /\ CountTimed(t)' /\ InsertTimed(t)'
  <2>1. snap'[t] \in Snaps /\ snap'[t].run \in 0 .. MaxRun
    BY SnapTyped DEF PlanTypeOK
  <2>2. RowTimed(t)'
    <3> SUFFICES ASSUME at'[t] = "count", Allows(snap'[t].active, snap'[t].plan, channels'),
                        barred' # 0
                 PROVE  barred' <= snap'[t].run
      BY <2>1, Bounds DEF RowTimed
    <3>1. at[t] = "count" /\ snap'[t] = snap[t] /\ barred' = barred /\ channels' >= channels
      BY DEF Deciding
    <3>2. channels \in Nat /\ channels' \in Nat /\ MaxChannels[snap[t].plan] \in Nat
      BY SnapTyped, PlanFacts DEF PlanTypeOK
    <3>3. Allows(snap[t].active, snap[t].plan, channels)
      BY <3>1, <3>2 DEF Allows
    <3> QED
      BY <3>1, <3>3 DEF Timed, RowTimed
  <2>3. CountTimed(t)'
    BY <2>1, Bounds DEF Timed, CountTimed, Deciding
  <2>4. InsertTimed(t)'
    BY <2>1, Bounds DEF Timed, InsertTimed, Deciding
  <2> QED
    BY <2>2, <2>3, <2>4
<1> QED
  BY <1>1, <1>2 DEF Timed

\* What is decided by an entry that is not older than it may be.
LEMMA TimedDecision ==
  ASSUME PlanTypeOK, PlanTypeOK', Timed, NEW t \in Tasks, NEW e \in Entries, Decide(t, e),
         Allows(e.active, e.plan, e.count) => barred <= e.age + MaxRun,
         EntryTimed', UNCHANGED <<tenant, channels, barred>>
  PROVE  Timed'
<1>1. /\ OthersStay(t)
      /\ \/ at'[t] = "idle"
         \/ /\ at'[t] = "insert" /\ snap'[t].run = snap[t].run
            /\ Allows(e.active, e.plan, e.count)
  BY DecideTyped
<1>2. ClockStands'
  BY DEF Timed, ClockStands, MayCreate
<1>3. RowTimed(t)' /\ CountTimed(t)'
  BY <1>1 DEF RowTimed, CountTimed
<1>4. InsertTimed(t)'
  <2>1. snap'[t].run \in 0 .. MaxRun /\ barred \in 0 .. Window + 1 /\ e.age \in 0 .. LimitsTTL - 1
    BY SnapTyped DEF PlanTypeOK, Entries
  <2>2. CASE at'[t] = "idle"
    BY <2>2 DEF InsertTimed
  <2>3. CASE Allows(e.active, e.plan, e.count)
    <3>1. barred <= e.age + MaxRun
      BY <2>3
    <3>2. barred <= LimitsTTL + MaxRun + snap'[t].run
      BY <3>1, <2>1, Bounds
    <3> QED
      BY <3>2 DEF InsertTimed
  <2> QED
    BY <1>1, <2>2, <2>3
<1>5. ASSUME NEW u \in Tasks \ {t} PROVE RowTimed(u)' /\ CountTimed(u)' /\ InsertTimed(u)'
  <2>1. at'[u] = at[u] /\ snap'[u] = snap[u]
    BY <1>1 DEF OthersStay
  <2> QED
    BY <2>1 DEF Timed, RowTimed, CountTimed, InsertTimed
<1> QED
  BY <1>2, <1>3, <1>4, <1>5 DEF Timed

LEMMA TimedHit ==
  ASSUME PlanTypeOK, PlanTypeOK', Timed, NEW t \in Tasks, LimitsHit(t)
  PROVE  Timed'
<1>1. limits \in Entries /\ EntryTimed /\ EntryTimed'
  BY DEF PlanTypeOK, Timed, EntryTimed, LimitsHit, caches
<1>2. Allows(limits.active, limits.plan, limits.count) => barred <= limits.age + MaxRun
  BY <1>1 DEF EntryTimed, LimitsHit
<1> QED
  BY <1>1, <1>2, TimedDecision DEF LimitsHit

LEMMA TimedRow ==
  ASSUME PlanTypeOK, PlanTypeOK', Timed, NEW t \in Tasks, LoadRow(t)
  PROVE  Timed'
<1>1. /\ at'[t] = "count" /\ OthersStay(t)
      /\ UNCHANGED <<tenant, channels, limits, barred>>
  BY GoTyped DEF LoadRow, caches, Places, PlanTypeOK, OthersStay
<1>2. ClockStands' /\ EntryTimed'
  BY <1>1 DEF Timed, ClockStands, MayCreate, EntryTimed
<1>3. snap[t] \in Snaps /\ snap'[t].plan = tenant.plan /\ snap'[t].active = tenant.active
  BY DEF LoadRow, PlanTypeOK, Snaps
<1>4. Allows(snap'[t].active, snap'[t].plan, channels') => barred' = 0
  BY <1>1, <1>3 DEF Timed, ClockStands, MayCreate, Allows
<1>5. snap'[t].run \in 0 .. MaxRun
  BY SnapTyped DEF PlanTypeOK
<1>6. RowTimed(t)' /\ CountTimed(t)' /\ InsertTimed(t)'
  BY <1>1, <1>4, <1>5, Bounds DEF RowTimed, CountTimed, InsertTimed
<1>7. ASSUME NEW u \in Tasks \ {t} PROVE RowTimed(u)' /\ CountTimed(u)' /\ InsertTimed(u)'
  BY <1>1 DEF Timed, RowTimed, CountTimed, InsertTimed, OthersStay
<1> QED
  BY <1>2, <1>6, <1>7 DEF Timed

LEMMA TimedCount ==
  ASSUME PlanTypeOK, PlanTypeOK', Timed, NEW t \in Tasks, LoadCount(t)
  PROVE  Timed'
<1>1. /\ at[t] = "count" /\ at'[t] = "store" /\ OthersStay(t)
      /\ UNCHANGED <<tenant, channels, limits, barred>>
  BY GoTyped DEF LoadCount, caches, Places, PlanTypeOK, OthersStay
<1>2. ClockStands' /\ EntryTimed'
  BY <1>1 DEF Timed, ClockStands, MayCreate, EntryTimed
<1>3. /\ snap'[t].plan = snap[t].plan /\ snap'[t].active = snap[t].active
      /\ snap'[t].run = snap[t].run /\ snap'[t].count = channels
  BY DEF LoadCount, PlanTypeOK, Snaps
<1>4. CountTimed(t)'
  BY <1>1, <1>3 DEF Timed, RowTimed, CountTimed
<1>5. RowTimed(t)' /\ InsertTimed(t)'
  BY <1>1 DEF RowTimed, InsertTimed
<1>6. ASSUME NEW u \in Tasks \ {t} PROVE RowTimed(u)' /\ CountTimed(u)' /\ InsertTimed(u)'
  BY <1>1 DEF Timed, RowTimed, CountTimed, InsertTimed, OthersStay
<1> QED
  BY <1>2, <1>4, <1>5, <1>6 DEF Timed

LEMMA TimedStore ==
  ASSUME PlanTypeOK, PlanTypeOK', Timed, NEW t \in Tasks, StoreLimits(t)
  PROVE  Timed'
<1>1. /\ limits' \in Entries /\ limits'.age = 0
      /\ limits'.plan = snap[t].plan /\ limits'.active = snap[t].active
      /\ limits'.count = snap[t].count
  BY DEF StoreLimits, PlanTypeOK
<1>2. at[t] = "store" /\ snap[t].run \in 0 .. MaxRun /\ barred \in Nat
  <2>1. snap[t] \in Snaps /\ barred \in 0 .. Window + 1
    BY DEF PlanTypeOK
  <2> QED
    <3>1. snap[t].run \in 0 .. MaxRun
      BY <2>1, SnapTyped
    <3>2. barred \in Nat
      BY <2>1, Bounds
    <3> QED
      BY <3>1, <3>2 DEF StoreLimits
<1>3. Allows(limits'.active, limits'.plan, limits'.count) => barred <= limits'.age + MaxRun
  <2> SUFFICES ASSUME Allows(limits'.active, limits'.plan, limits'.count)
               PROVE  barred <= MaxRun
    BY <1>1, Bounds
  <2>1. barred <= snap[t].run
    BY <1>1, <1>2 DEF Timed, CountTimed
  <2> QED
    BY <1>2, <2>1, Bounds
<1>4. EntryTimed'
  BY <1>3 DEF EntryTimed, StoreLimits
<1> QED
  BY <1>1, <1>3, <1>4, TimedDecision DEF StoreLimits

LEMMA TimedTick ==
  ASSUME PlanTypeOK, PlanTypeOK', Timed, Tick
  PROVE  Timed'
<1>1. UNCHANGED <<tenant, channels, at>>
  BY DEF Tick
<1>2. barred \in Nat /\ barred' \in {barred, barred + 1} /\ (MayCreate => barred' = barred)
  BY Bounds DEF Tick, PlanTypeOK
<1>3. ClockStands'
  BY <1>1, <1>2 DEF Timed, ClockStands, MayCreate
<1>4. EntryTimed'
  <2>1. limits' = Older(limits, LimitsTTL, NoLimits) /\ limits \in Entries
    BY DEF Tick, PlanTypeOK
  <2>2. limits.age \in Nat
    BY <2>1 DEF Entries
  <2> QED
    BY <1>2, <2>1, <2>2, OlderLimits, Bounds DEF Timed, EntryTimed
<1>5. ASSUME NEW t \in Tasks PROVE RowTimed(t)' /\ CountTimed(t)' /\ InsertTimed(t)'
  <2> SUFFICES ASSUME at[t] # "idle" PROVE RowTimed(t)' /\ CountTimed(t)' /\ InsertTimed(t)'
    BY <1>1 DEF RowTimed, CountTimed, InsertTimed
  <2>1. snap[t] \in Snaps /\ snap'[t] = [snap[t] EXCEPT !.run = @ + 1]
    BY TickTyped DEF PlanTypeOK
  <2>2. /\ snap[t].run \in Nat /\ snap'[t].run = snap[t].run + 1
        /\ snap'[t].plan = snap[t].plan /\ snap'[t].active = snap[t].active
        /\ snap'[t].count = snap[t].count
    BY <2>1 DEF Snaps
  <2> QED
    BY <1>1, <1>2, <2>2, Bounds DEF Timed, RowTimed, CountTimed, InsertTimed
<1> QED
  BY <1>3, <1>4, <1>5 DEF Timed

\* The steps that put nothing where it decides.
LEMMA TimedQuiet ==
  ASSUME PlanTypeOK, PlanTypeOK', Timed, NEW t \in Tasks, NEW place \in Places \ Deciding,
         at' = [at EXCEPT ![t] = place],
         \A u \in Tasks \ {t} : snap'[u] = snap[u],
         limits' \in {limits, NoLimits},
         ClockStands', barred' = 0 \/ (barred' = barred /\ channels' >= channels)
  PROVE  Timed'
<1>1. ASSUME NEW u \in Tasks, at'[u] \in Deciding PROVE at'[u] = at[u] /\ snap'[u] = snap[u]
  <2>1. u # t
    BY <1>1 DEF PlanTypeOK, Places
  <2> QED
    BY <2>1 DEF PlanTypeOK
<1> QED
  BY <1>1, TimedKept

LEMMA StandsStill ==
  ASSUME Timed, PlanTypeOK, barred' = barred, channels' = channels,
         tenant'.plan = tenant.plan, tenant'.active = tenant.active
  PROVE  ClockStands' /\ channels' >= channels
BY DEF Timed, ClockStands, MayCreate, PlanTypeOK

LEMMA TimedTask ==
  ASSUME PlanTypeOK, PlanTypeOK', Timed, NEW t \in Tasks,
         CreateStart(t) \/ LookFeatures(t) \/ SaveFeatures(t) \/ ResetToPlan(t)
           \/ ApplyTemplate(t) \/ Revert(t) \/ SetPlan(t) \/ PlanStep(t)
  PROVE  Timed'
<1>1. CASE CreateStart(t)
  <2>1. UNCHANGED <<tenant, channels, limits, snap, barred>>
    BY <1>1 DEF CreateStart, caches
  <2>2. CASE tenant.active
    BY <1>1, <2>1, <2>2, TimedQuiet, StandsStill DEF CreateStart, Go, Places, Deciding
  <2>3. CASE ~tenant.active
    BY <1>1, <2>1, <2>3, TimedKept, StandsStill DEF CreateStart
  <2> QED
    BY <2>2, <2>3
<1>2. CASE LookFeatures(t) \/ LimitsMiss(t) \/ ReadFeatures(t)
  <2>1. UNCHANGED <<tenant, channels, limits, barred>>
    BY <1>2 DEF LookFeatures, LimitsMiss, ReadFeatures, caches
  <2>2. \A u \in Tasks \ {t} : snap'[u] = snap[u]
    BY <1>2 DEF LookFeatures, LimitsMiss, ReadFeatures, PlanTypeOK
  <2>3. PICK place \in Places \ Deciding : at' = [at EXCEPT ![t] = place]
    BY <1>2 DEF LookFeatures, LimitsMiss, ReadFeatures, Go, Places, Deciding
  <2> QED
    BY <2>1, <2>2, <2>3, TimedQuiet, StandsStill
<1>3. CASE SaveFeatures(t) \/ ResetToPlan(t) \/ ApplyTemplate(t) \/ Revert(t)
  <2>1. PICK want \in Overrides, shown \in SUBSET Features, from \in Origins :
           Ask(t, want, shown, from)
    BY <1>3, PageAsks
  <2>2. UNCHANGED <<tenant, channels, limits, barred>>
    BY <2>1 DEF Ask, caches
  <2>3. \A u \in Tasks \ {t} : snap'[u] = snap[u]
    BY <2>1 DEF Ask, PlanTypeOK
  <2>4. at' = [at EXCEPT ![t] = "read"] /\ "read" \in Places \ Deciding
    BY <2>1 DEF Ask, Go, Places, Deciding
  <2> QED
    BY <2>2, <2>3, <2>4, TimedQuiet, StandsStill
<1>4. CASE SetPlan(t)
  <2>1. UNCHANGED <<channels, limits>> /\ Watch
    BY <1>4 DEF SetPlan, caches
  <2>2. \A u \in Tasks \ {t} : snap'[u] = snap[u]
    BY <1>4 DEF SetPlan, PlanTypeOK
  <2>3. at' = [at EXCEPT ![t] = "invalidate"] /\ "invalidate" \in Places \ Deciding
    BY <1>4 DEF SetPlan, Go, Places, Deciding
  <2>4. channels' >= channels
    BY <2>1 DEF PlanTypeOK
  <2> QED
    BY <2>1, <2>2, <2>3, <2>4, TimedQuiet, WatchTyped
<1>5. CASE CreateChannel(t)
  <2>1. limits' = limits /\ Watch /\ Done(t) /\ channels' >= channels
    BY <1>5 DEF CreateChannel, caches, PlanTypeOK
  <2>2. at' = [at EXCEPT ![t] = "idle"] /\ "idle" \in Places \ Deciding
    BY <2>1 DEF Done, Go, Places, Deciding
  <2> QED
    BY <2>1, <2>2, TimedQuiet, WatchTyped, DoneTyped DEF OthersStay
<1>6. CASE StoreFeatures(t) \/ Rollback(t) \/ AnswerLost(t) \/ RefreshPage(t)
  <2>1. UNCHANGED <<tenant, channels, limits, barred>> /\ Done(t)
    BY <1>6 DEF StoreFeatures, Rollback, AnswerLost, RefreshPage, caches
  <2>2. at' = [at EXCEPT ![t] = "idle"] /\ "idle" \in Places \ Deciding
    BY <2>1 DEF Done, Go, Places, Deciding
  <2> QED
    BY <2>1, <2>2, TimedQuiet, StandsStill, DoneTyped DEF OthersStay
<1>7. CASE ReadTenant(t)
  <2>1. UNCHANGED <<tenant, channels, limits, barred>>
    BY <1>7 DEF ReadTenant, caches
  <2>2. \A u \in Tasks \ {t} : snap'[u] = snap[u]
    BY <1>7, DoneTyped DEF ReadTenant, PlanTypeOK, OthersStay
  <2>3. PICK place \in Places \ Deciding : at' = [at EXCEPT ![t] = place]
    BY <1>7 DEF ReadTenant, Done, Go, Places, Deciding
  <2> QED
    BY <2>1, <2>2, <2>3, TimedQuiet, StandsStill
<1>8. CASE Commit(t)
  <2>1. UNCHANGED <<channels, limits, barred>>
    BY <1>8 DEF Commit, caches
  <2>2. tenant'.plan = tenant.plan /\ tenant'.active = tenant.active
    BY <1>8 DEF Commit, PlanTypeOK, Tenants
  <2>3. \A u \in Tasks \ {t} : snap'[u] = snap[u]
    BY <1>8 DEF Commit, Keep, PlanTypeOK
  <2>4. at' = [at EXCEPT ![t] = "invalidate"] /\ "invalidate" \in Places \ Deciding
    BY <1>8 DEF Commit, Go, Places, Deciding
  <2> QED
    BY <2>1, <2>2, <2>3, <2>4, TimedQuiet, StandsStill
<1>9. CASE Invalidate(t)
  <2>1. UNCHANGED <<tenant, channels, barred>> /\ limits' = NoLimits
    BY <1>9 DEF Invalidate
  <2>2. \A u \in Tasks \ {t} : snap'[u] = snap[u]
    BY <1>9, DoneTyped DEF Invalidate, OthersStay
  <2>3. PICK place \in Places \ Deciding : at' = [at EXCEPT ![t] = place]
    BY <1>9 DEF Invalidate, Done, Go, Places, Deciding
  <2> QED
    BY <2>1, <2>2, <2>3, TimedQuiet, StandsStill
<1> QED
  BY <1>1, <1>2, <1>3, <1>4, <1>5, <1>6, <1>7, <1>8, <1>9,
     TimedHit, TimedRow, TimedCount, TimedStore DEF PlanStep

LEMMA TimedStep == ASSUME PlanTypeOK, Timed, [PlanNext]_planVars PROVE Timed'
<1>1. PlanTypeOK'
  BY PlanTypeStep
<1>2. CASE DeleteChannel
  <2>1. limits' = limits /\ barred' = 0 /\ at' = at /\ snap' = snap
    BY <1>2 DEF DeleteChannel, caches
  <2>2. ClockStands'
    BY <2>1 DEF ClockStands
  <2> QED
    BY <1>1, <2>1, <2>2, TimedKept
<1>3. CASE AdminCreateChannel
  <2>1. limits' = limits /\ Watch /\ at' = at /\ snap' = snap /\ channels' >= channels
    BY <1>3 DEF AdminCreateChannel, caches, PlanTypeOK
  <2> QED
    BY <1>1, <2>1, WatchTyped, TimedKept
<1>4. CASE OpenPage \/ UNCHANGED planVars
  <2>1. UNCHANGED <<tenant, channels, limits, barred, at, snap>>
    BY <1>4 DEF OpenPage, planVars, caches
  <2> QED
    BY <1>1, <2>1, StandsStill, TimedKept
<1>5. CASE Tick
  BY <1>1, <1>5, TimedTick
<1>6. ASSUME NEW t \in Tasks,
             CreateStart(t) \/ LookFeatures(t) \/ SaveFeatures(t) \/ ResetToPlan(t)
               \/ ApplyTemplate(t) \/ Revert(t) \/ SetPlan(t) \/ PlanStep(t)
      PROVE  Timed'
  BY <1>1, <1>6, TimedTask
<1>7. CASE Restart
  <2>1. UNCHANGED <<tenant, channels, barred>> /\ limits' = NoLimits
    BY <1>7 DEF Restart
  <2>2. \A u \in Tasks : at'[u] \in Deciding => at'[u] = at[u] /\ snap'[u] = snap[u]
    BY <1>7 DEF Restart, Deciding
  <2> QED
    BY <1>1, <2>1, <2>2, StandsStill, TimedKept
<1> QED
  BY <1>2, <1>3, <1>4, <1>5, <1>6, <1>7 DEF PlanNext

LEMMA TimedInit == PlanInit => Timed
BY Bounds DEF PlanInit, Timed, ClockStands, EntryTimed, RowTimed, CountTimed, InsertTimed

----------------------------------------------------------------------------
\* What the two processes cache and what their requests hold keep their types, the
\* ages below the times to live (tenantLimitsCache, tenantFeatures.service).
THEOREM PlanTypes == PlanSpec => []PlanTypeOK
BY PlanTypeInit, PlanTypeStep, PTL DEF PlanSpec

\* Whatever overlaps, no request of the tenant adds a channel once the row has
\* refused one for the life of an entry and twice the time of a request, but where a
\* channel was deleted meanwhile (assertCanCreateChannel, loadTenantLimitsContext).
THEOREM SoonRefused == PlanSpec => []RefusedSoon
<1>1. PlanInit => PlanTypeOK /\ Timed
  BY PlanTypeInit, TimedInit
<1>2. (PlanTypeOK /\ Timed) /\ [PlanNext]_planVars => (PlanTypeOK /\ Timed)'
  BY PlanTypeStep, TimedStep
<1>3. PlanTypeOK /\ Timed => RefusedSoon
  <2> SUFFICES ASSUME PlanTypeOK, Timed, NEW t \in Tasks, at[t] = "insert" PROVE barred <= Window
    BY DEF RefusedSoon
  <2>1. snap[t].run \in 0 .. MaxRun /\ barred \in Nat
    <3>1. snap[t] \in Snaps /\ barred \in 0 .. Window + 1
      BY DEF PlanTypeOK
    <3> QED
      <4>1. snap[t].run \in 0 .. MaxRun
        BY <3>1, SnapTyped
      <4>2. barred \in Nat
        BY <3>1, Bounds
      <4> QED
        BY <4>1, <4>2
  <2>2. barred <= LimitsTTL + MaxRun + snap[t].run
    BY DEF Timed, InsertTimed
  <2> QED
    BY <2>1, <2>2, Bounds
<1> QED
  BY <1>1, <1>2, <1>3, PTL DEF PlanSpec
===============================================================================
