------------------------------ MODULE WahaProofs ------------------------------
(***************************************************************************)
(* Proofs about what stands between the platform and WAHA.                 *)
(*                                                                         *)
(* Circuits: what holds a refusal up is always a failure of WAHA not       *)
(* longer ago than the time that is left of it allows; each part of Inv    *)
(* says so of one timer, and Settles follows.                              *)
(*                                                                         *)
(* WahaQr: the callers of getQrCode are told what was so while their call, *)
(* or the preparation it joined, ran, and those that joined another call   *)
(* wait for one that will tell them.                                       *)
(***************************************************************************)
EXTENDS Circuits, WahaQr, TLAPS

----------------------------------------------------------------------------
(* Circuits *)

\* The session circuit opens at the latest when the last refusal of the health
\* circuit, or the last row of the log, ends a connect.
BreakerTimed == Refuses(breaker) => calm + breaker.left <= Patience

HealthTimed == ShortCircuits(health) => calm + health.shut <= StepTime + HealthOpen

CacheTimed ==
  health.fresh > 0 /\ health.answer = "error" => calm + health.fresh <= HealthOpen

\* A reconnect began with a failed probe; while it is being logged, the provider
\* is down only if another probe has failed since.
RetryTimed(c) == calls[c].at = "retry" => calm + calls[c].left <= StepTime
NoteTimed(c) ==
  calls[c].at = "note" =>
    /\ calm + calls[c].left <= StepTime + HealthOpen
    /\ Down(health) => calm + calls[c].left <= StepTime

Inv ==
  /\ TypeOK
  /\ BreakerTimed /\ HealthTimed /\ CacheTimed
  /\ \A c \in Calls : RetryTimed(c) /\ NoteTimed(c)

Breakers == [phase : {"closed", "open", "half_open"}, failures : 0..Threshold,
             left : 0..SessionOpen, attempts : 0..3]
Healths == [answer : {"none", "ok", "error"}, fresh : 0..CacheTTL,
            failures : 0..3, shut : 0..HealthOpen]
CallStates == [op : {"none", "connect", "check"},
           at : {"idle", "reset", "probe", "retry", "note", "prepare"},
           left : 0..StepTime]

LEMMA Typed == TypeOK <=>
  /\ calls \in [Calls -> CallStates] /\ breaker \in Breakers /\ health \in Healths
  /\ cooldown \in 0..Cooldown /\ inFlight \in BOOLEAN /\ calm \in 0..(Patience + 1)
  BY DEF TypeOK, CallStates, Breakers, Healths

-----------------------------------------------------------------------------
(* The two circuits.                                                       *)

\* The bounds are natural numbers.
LEMMA Bounds ==
  /\ Threshold \in Nat \ {0} /\ SessionOpen \in Nat \ {0} /\ CacheTTL \in Nat \ {0}
  /\ HealthOpen \in Nat \ {0} /\ Cooldown \in Nat \ {0} /\ StepTime \in Nat
  /\ CacheTTL <= HealthOpen /\ StepTime <= HealthOpen
  /\ Patience \in Nat
  BY CircuitsAssumption DEF CircuitsAssumption, Patience

LEMMA ClosedCircuit == Closed \in Breakers /\ ~Refuses(Closed)
  BY Bounds DEF Closed, Breakers, Refuses

\* An admitted connect leaves a circuit that refuses nothing.
LEMMA AdmitOpens ==
  ASSUME NEW b \in Breakers, ~Refuses(b)
  PROVE  Admit(b) \in Breakers /\ ~Refuses(Admit(b))
<1>1. CASE b.phase = "closed"
  BY <1>1 DEF Admit
<1>2. CASE b.phase = "open"
  BY <1>2, Bounds, ClosedCircuit DEF Admit, Breakers, Refuses
<1>3. CASE b.phase = "half_open" /\ b.attempts + 1 > 3
  BY <1>3, ClosedCircuit DEF Admit
<1>4. CASE b.phase = "half_open" /\ ~(b.attempts + 1 > 3)
  BY <1>4, Bounds DEF Admit, Breakers, Refuses
<1>5. b.phase \in {"closed", "open", "half_open"}
  BY DEF Breakers
<1> QED
  BY <1>1, <1>2, <1>3, <1>4, <1>5

\* A failure recorded n ticks after WAHA's, n within the time of the health
\* circuit and of a row of the log, leaves a circuit that refuses within Patience.
LEMMA RecordedTimed ==
  ASSUME NEW b \in Breakers, NEW e \in Errors, NEW n \in Nat,
         n <= StepTime + HealthOpen,
         Refuses(b) => n + b.left <= Patience
  PROVE  /\ Recorded(b, e) \in Breakers
         /\ Refuses(Recorded(b, e)) => n + Recorded(b, e).left <= Patience
<1> DEFINE f == Fewer(b.failures + 1, Threshold)
<1>1. f \in 0..Threshold
  BY Bounds DEF Fewer, Breakers
<1>2. Open(f) \in Breakers /\ n + Open(f).left <= Patience
  BY <1>1, Bounds DEF Open, Breakers, Patience
<1> DEFINE g == [b EXCEPT !.failures = f]
<1>4. g \in Breakers /\ (Refuses(g) => n + g.left <= Patience)
  BY <1>1 DEF Breakers, Refuses
<1>5. Failed(b) = Open(f) \/ Failed(b) = g
  BY DEF Failed
<1>6. Recorded(b, e) \in {Failed(b), Closed, b}
  BY DEF Recorded
<1> QED
  BY <1>2, <1>4, <1>5, <1>6, ClosedCircuit

\* What the checks leave of the health is typed.
LEMMA HealthTypes ==
  ASSUME NEW h \in Healths
  PROVE  /\ Unknown \in Healths /\ Shut(h) \in Healths /\ Succeeded(h) \in Healths
         /\ Succeeded(Cached(h, "ok")) \in Healths /\ FailedProbe(h) \in Healths
<1>0. /\ 0 \in 0..HealthOpen /\ HealthOpen \in 0..HealthOpen
      /\ 0 \in 0..CacheTTL /\ CacheTTL \in 0..CacheTTL /\ 0 \in 0..3
  BY Bounds
<1>1. Unknown \in Healths /\ Shut(h) \in Healths
  BY <1>0 DEF Unknown, Shut, Healths
<1>2. Cached(h, "ok") \in Healths /\ Cached(h, "error") \in Healths
  BY <1>0 DEF Cached, Healths
<1>3. ASSUME NEW k \in Healths PROVE Succeeded(k) \in Healths
  BY <1>0 DEF Succeeded, Healths
<1>4. FailedProbe(h) \in Healths
  <2> DEFINE k == Cached(h, "error")
             n == Fewer(k.failures + 1, 3)
  <2>1. n \in 0..3
    BY <1>2 DEF Fewer, Healths
  <2>2. [k EXCEPT !.failures = n] \in Healths
    BY <1>2, <2>1 DEF Healths
  <2> QED
    BY <2>2 DEF FailedProbe
<1> QED
  BY <1>1, <1>2, <1>3, <1>4

\* An answer of WAHA leaves neither a circuit nor an old error.
LEMMA AnswerClears ==
  ASSUME NEW h \in Healths
  PROVE  /\ ~Down(Unknown) /\ ~Down(Succeeded(h)) /\ ~Down(Succeeded(Cached(h, "ok")))
         /\ ~(Unknown.fresh > 0)
         /\ Succeeded(h).fresh = h.fresh /\ Succeeded(h).answer = h.answer
         /\ Succeeded(Cached(h, "ok")).answer = "ok"
  BY DEF Down, Unknown, Succeeded, Cached, Healths

-----------------------------------------------------------------------------
(* One step.                                                               *)

\* What a step needs to show, when it changes one request at most.
Kept(c) ==
  /\ calls'[c] \in CallStates
  /\ RetryTimed(c)' /\ NoteTimed(c)'

\* A step that leaves time alone changes one request.
OneCall(c) == calls' = [calls EXCEPT ![c] = calls'[c]]

LEMMA CallsKept ==
  ASSUME Inv, NEW c \in Calls, OneCall(c), Kept(c),
         \A d \in Calls \ {c} : RetryTimed(d)' /\ NoteTimed(d)'
  PROVE  calls' \in [Calls -> CallStates] /\ \A d \in Calls : RetryTimed(d)' /\ NoteTimed(d)'
  BY Typed DEF Inv, OneCall, Kept

\* Where calm stays and the provider does not become down, the timers of the
\* other requests say what they said.
LEMMA OthersKept ==
  ASSUME Inv, NEW c \in Calls, OneCall(c), calm' = calm, Down(health)' => Down(health)
  PROVE  \A d \in Calls \ {c} : RetryTimed(d)' /\ NoteTimed(d)'
<1> SUFFICES ASSUME NEW d \in Calls \ {c} PROVE RetryTimed(d)' /\ NoteTimed(d)'
  OBVIOUS
<1>1. calls'[d] = calls[d]
  BY Typed DEF OneCall, Inv
<1> QED
  BY <1>1 DEF Inv, RetryTimed, NoteTimed

\* A failure of WAHA starts the time again for all of them.
LEMMA OthersRestart ==
  ASSUME Inv, NEW c \in Calls, OneCall(c), calm' = 0
  PROVE  \A d \in Calls \ {c} : RetryTimed(d)' /\ NoteTimed(d)'
<1> SUFFICES ASSUME NEW d \in Calls \ {c} PROVE RetryTimed(d)' /\ NoteTimed(d)'
  OBVIOUS
<1>1. calls'[d] = calls[d] /\ calls[d] \in CallStates
  BY Typed DEF OneCall, Inv
<1>2. calls[d].left \in 0..StepTime
  BY <1>1 DEF CallStates
<1> QED
  BY <1>1, <1>2, Bounds DEF RetryTimed, NoteTimed

\* A request that ends, or goes on with a step of the given kind.
LEMMA EndsCall ==
  ASSUME Inv, NEW c \in Calls, Ends(c)
  PROVE  OneCall(c) /\ Kept(c)
<1>1. calls'[c] = Idle /\ OneCall(c)
  BY Typed DEF Ends, OneCall, Inv
<1>2. Idle \in CallStates /\ Idle.at = "idle"
  BY Bounds DEF Idle, CallStates
<1> QED
  BY <1>1, <1>2 DEF Kept, RetryTimed, NoteTimed

LEMMA BecomeCall ==
  ASSUME Inv, NEW c \in Calls,
         NEW op \in {"none", "connect", "check"},
         NEW place \in {"idle", "reset", "probe", "prepare", "retry", "note"},
         Become(c, op, place)
  PROVE  /\ OneCall(c)
         /\ calls'[c] = [op |-> op, at |-> place, left |-> StepTime]
         /\ calls'[c] \in CallStates
<1>1. calls'[c] = [op |-> op, at |-> place, left |-> StepTime] /\ OneCall(c)
  BY Typed DEF Become, OneCall, Inv
<1>2. [op |-> op, at |-> place, left |-> StepTime] \in CallStates
  BY Bounds DEF CallStates
<1> QED
  BY <1>1, <1>2

LEMMA QuietCall ==
  ASSUME Inv, NEW c \in Calls,
         NEW op \in {"none", "connect", "check"},
         NEW place \in {"idle", "reset", "probe", "prepare"},
         Become(c, op, place)
  PROVE  OneCall(c) /\ Kept(c)
<1>1. calls'[c] = [op |-> op, at |-> place, left |-> StepTime] /\ calls'[c] \in CallStates /\ OneCall(c)
  BY BecomeCall
<1>2. calls'[c].at = place
  BY <1>1
<1> QED
  BY <1>1, <1>2 DEF Kept, RetryTimed, NoteTimed

\* The circuit after a check that passed or threw while calm is small enough.
LEMMA PassesKept ==
  ASSUME Inv, NEW c \in Calls, NEW op \in {"none", "connect", "check"}, Passes(c, op)
  PROVE  OneCall(c) /\ Kept(c) /\ breaker' = breaker
<1>1. CASE op = "connect"
  BY <1>1, QuietCall DEF Passes
<1>2. CASE op # "connect"
  BY <1>2, EndsCall DEF Passes
<1> QED
  BY <1>1, <1>2 DEF Passes

LEMMA ThrowsKept ==
  ASSUME Inv, NEW c \in Calls, NEW op, Throws(c, op), calm <= StepTime + HealthOpen \/ calm' = 0,
         calm' \in Nat, calm' <= calm
  PROVE  /\ OneCall(c) /\ Kept(c) /\ breaker' \in Breakers /\ BreakerTimed'
<1>1. OneCall(c) /\ Kept(c)
  BY EndsCall DEF Throws
<1>2. breaker \in Breakers /\ calm \in Nat /\ breaker.left \in Nat
  BY Typed, Bounds DEF Inv, Breakers
<1>3. calm' <= StepTime + HealthOpen
  BY <1>2, Bounds
<1>4. Refuses(breaker) => calm' + breaker.left <= Patience
  BY <1>2, Bounds DEF Inv, BreakerTimed
<1>5. "trouble" \in Errors
  BY DEF Errors
<1>6. /\ Recorded(breaker, "trouble") \in Breakers
      /\ Refuses(Recorded(breaker, "trouble")) =>
           calm' + Recorded(breaker, "trouble").left <= Patience
  BY <1>2, <1>3, <1>4, <1>5, RecordedTimed
<1>7. CASE op = "connect"
  BY <1>1, <1>6, <1>7 DEF Throws, BreakerTimed, Refuses
<1>8. CASE op # "connect"
  BY <1>1, <1>2, <1>4, <1>8 DEF Throws, BreakerTimed, Refuses
<1> QED
  BY <1>7, <1>8

\* What there is to show of a step of one request.
LEMMA Together ==
  ASSUME Inv, NEW c \in Calls, OneCall(c), Kept(c),
         \A d \in Calls \ {c} : RetryTimed(d)' /\ NoteTimed(d)',
         breaker' \in Breakers, BreakerTimed',
         health' \in Healths, HealthTimed', CacheTimed',
         cooldown' \in 0..Cooldown, inFlight' \in BOOLEAN, calm' \in 0..(Patience + 1)
  PROVE  Inv'
<1>1. /\ calls' \in [Calls -> CallStates]
      /\ \A d \in Calls : RetryTimed(d)' /\ NoteTimed(d)'
  BY CallsKept
<1>2. TypeOK'
  BY <1>1 DEF TypeOK, CallStates, Breakers, Healths
<1> QED
  BY <1>1, <1>2 DEF Inv

\* The start of a check, or its answer from the cache.
LEMMA CheckKept ==
  ASSUME Inv, NEW c \in Calls, NEW op \in {"none", "connect", "check"},
         CheckBegins(c, op), UNCHANGED <<cooldown, inFlight, calm>>
  PROVE  Inv'
<1> DEFINE Good == OneCall(c) /\ Kept(c) /\ breaker' \in Breakers /\ BreakerTimed'
<1>1. /\ breaker \in Breakers /\ health \in Healths /\ calm \in Nat
      /\ BreakerTimed /\ HealthTimed /\ CacheTimed
  BY Typed, Bounds DEF Inv
<1>2. health' = health /\ calm' = calm
  BY DEF CheckBegins
<1>3. ASSUME Throws(c, op), calm <= StepTime + HealthOpen PROVE Good
  BY <1>1, <1>2, <1>3, ThrowsKept
<1>4. ASSUME Passes(c, op) PROVE Good
  BY <1>1, <1>2, <1>4, PassesKept DEF BreakerTimed, Refuses
<1>5. ASSUME Become(c, op, "probe"), UNCHANGED breaker PROVE Good
  BY <1>1, <1>2, <1>5, QuietCall DEF BreakerTimed, Refuses
<1>6. ShortCircuits(health) => calm <= StepTime + HealthOpen
  BY <1>1, Bounds DEF HealthTimed, ShortCircuits, Healths
<1>7. health.fresh > 0 /\ health.answer = "error" => calm <= StepTime + HealthOpen
  BY <1>1, Bounds DEF CacheTimed, Healths
<1> HIDE DEF Good
<1>8. Good
  BY <1>3, <1>4, <1>5, <1>6, <1>7 DEF CheckBegins
<1> USE DEF Good
<1>9. HealthTimed' /\ CacheTimed' /\ (Down(health)' => Down(health))
  BY <1>1, <1>2 DEF HealthTimed, CacheTimed, ShortCircuits, Down
<1>10. \A d \in Calls \ {c} : RetryTimed(d)' /\ NoteTimed(d)'
  BY <1>2, <1>8, <1>9, OthersKept
<1>11. cooldown' \in 0..Cooldown /\ inFlight' \in BOOLEAN /\ calm' \in 0..(Patience + 1)
  BY Typed DEF Inv
<1> QED
  BY <1>1, <1>2, <1>8, <1>9, <1>10, <1>11, Together

-----------------------------------------------------------------------------
(* Every step keeps Inv.                                                   *)

LEMMA InitInv == Init => Inv
<1> SUFFICES ASSUME Init PROVE Inv
  OBVIOUS
<1>1. calls \in [Calls -> CallStates] /\ \A c \in Calls : calls[c].at = "idle"
  BY Bounds DEF Init, Idle, CallStates
<1>2. breaker \in Breakers /\ ~Refuses(breaker)
  BY ClosedCircuit DEF Init
<1>3. health \in Healths /\ ~Down(health) /\ health.fresh = 0
  BY Bounds DEF Init, Unknown, Healths, Down
<1>4. calm \in 0..(Patience + 1) /\ cooldown \in 0..Cooldown
  BY Bounds DEF Init
<1>8. inFlight \in BOOLEAN
  BY DEF Init
<1>5. TypeOK
  BY <1>1, <1>2, <1>3, <1>4, <1>8, Typed
<1>6. BreakerTimed /\ HealthTimed /\ CacheTimed
  BY <1>2, <1>3 DEF BreakerTimed, HealthTimed, CacheTimed, ShortCircuits
<1>7. \A c \in Calls : RetryTimed(c) /\ NoteTimed(c)
  BY <1>1 DEF RetryTimed, NoteTimed
<1> QED
  BY <1>5, <1>6, <1>7 DEF Inv

LEMMA RestartInv == Inv /\ Restart => Inv'
<1> SUFFICES ASSUME Inv, Restart PROVE Inv'
  OBVIOUS
<1>1. calls' \in [Calls -> CallStates] /\ \A c \in Calls : calls'[c].at = "idle"
  BY Bounds DEF Restart, Idle, CallStates
<1>2. breaker' \in Breakers /\ ~Refuses(breaker')
  BY ClosedCircuit DEF Restart
<1>3. health' \in Healths /\ ~Down(health') /\ health'.fresh = 0
  BY Bounds DEF Restart, Unknown, Healths, Down
<1>4. calm' \in 0..(Patience + 1) /\ cooldown' \in 0..Cooldown
  BY Bounds, Typed DEF Restart, Inv
<1>8. inFlight' \in BOOLEAN
  BY DEF Restart
<1>5. TypeOK'
  BY <1>1, <1>2, <1>3, <1>4, <1>8 DEF TypeOK, CallStates, Breakers, Healths
<1>6. BreakerTimed' /\ HealthTimed' /\ CacheTimed'
  BY <1>2, <1>3 DEF BreakerTimed, HealthTimed, CacheTimed, ShortCircuits, Refuses, Down
<1>7. \A c \in Calls : RetryTimed(c)' /\ NoteTimed(c)'
  BY <1>1 DEF RetryTimed, NoteTimed
<1> QED
  BY <1>5, <1>6, <1>7 DEF Inv

\* Time runs: what is left of each timer goes down as calm goes up.
LEMMA TickInv == Inv /\ Tick => Inv'
<1> SUFFICES ASSUME Inv, Tick PROVE Inv'
  OBVIOUS
<1>1. /\ calls \in [Calls -> CallStates] /\ breaker \in Breakers /\ health \in Healths
      /\ cooldown \in 0..Cooldown /\ inFlight \in BOOLEAN /\ calm \in 0..(Patience + 1)
  BY Typed DEF Inv
<1>2. calm' \in 0..(Patience + 1) /\ calm' <= calm + 1
  BY <1>1, Bounds DEF Tick, Fewer
<1>3. \A n \in Nat : Less(n) \in Nat /\ Less(n) <= n /\ (Less(n) > 0 => n = Less(n) + 1)
  BY DEF Less
<1>4. /\ breaker' \in Breakers /\ breaker'.phase = breaker.phase
      /\ breaker'.left = Less(breaker.left)
  BY <1>1, <1>3, Bounds DEF Tick, Breakers
<1>5. /\ health' \in Healths /\ health'.failures = health.failures
      /\ health'.shut = Less(health.shut) /\ health'.fresh = Less(health.fresh)
      /\ health'.answer = "error" => health.answer = "error"
  <2>1. health.fresh \in 0..CacheTTL /\ health.shut \in 0..HealthOpen
    BY <1>1 DEF Healths
  <2>2. Less(health.fresh) \in 0..CacheTTL /\ Less(health.shut) \in 0..HealthOpen
    BY <1>3, <2>1, Bounds
  <2>3. health' \in Healths
    BY <1>1, <2>2 DEF Tick, Healths
  <2> QED
    BY <1>1, <2>3 DEF Tick, Healths
<1>6. BreakerTimed'
  <2>1. SUFFICES ASSUME Refuses(breaker') PROVE calm' + breaker'.left <= Patience
    BY DEF BreakerTimed, Refuses
  <2>2. breaker.left \in Nat /\ breaker.left = breaker'.left + 1 /\ breaker'.left \in Nat
    BY <1>1, <1>3, <1>4, <2>1, Bounds DEF Breakers, Refuses
  <2>3. calm + breaker.left <= Patience
    BY <1>4, <2>1, <2>2 DEF Inv, BreakerTimed, Refuses
  <2> QED
    BY <1>1, <1>2, <2>2, <2>3, Bounds
<1>7. HealthTimed'
  <2>1. SUFFICES ASSUME ShortCircuits(health') PROVE calm' + health'.shut <= StepTime + HealthOpen
    BY DEF HealthTimed, ShortCircuits, Down
  <2>2. health.shut \in Nat /\ health.shut = health'.shut + 1 /\ health'.shut \in Nat
    BY <1>1, <1>3, <1>5, <2>1, Bounds DEF Healths, ShortCircuits
  <2>3. ShortCircuits(health)
    BY <1>5, <2>1, <2>2 DEF ShortCircuits, Down
  <2>4. calm + health.shut <= StepTime + HealthOpen
    BY <2>3 DEF Inv, HealthTimed
  <2> QED
    BY <1>1, <1>2, <2>2, <2>4, Bounds
<1>8. CacheTimed'
  <2>1. SUFFICES ASSUME health'.fresh > 0, health'.answer = "error"
                 PROVE calm' + health'.fresh <= HealthOpen
    BY DEF CacheTimed
  <2>2. health.fresh \in Nat /\ health.fresh = health'.fresh + 1 /\ health'.fresh \in Nat
    BY <1>1, <1>3, <1>5, <2>1, Bounds DEF Healths
  <2>3. calm + health.fresh <= HealthOpen
    BY <1>5, <2>1, <2>2 DEF Inv, CacheTimed
  <2> QED
    BY <1>1, <1>2, <2>2, <2>3, Bounds
<1>9. calls' \in [Calls -> CallStates]
  BY <1>1, Bounds DEF Tick, Waits, CallStates
<1>10. ASSUME NEW c \in Calls PROVE RetryTimed(c)' /\ NoteTimed(c)'
  <2>1. /\ calls'[c].at = calls[c].at
        /\ calls[c].left \in 0..StepTime
        /\ Waits(c) => calls'[c].left = calls[c].left - 1
    BY <1>1 DEF Tick, CallStates
  <2>2. calls[c].at = "retry" => calm' + calls'[c].left <= StepTime
    BY <1>1, <1>2, <2>1, Bounds DEF Inv, RetryTimed, Waits
  <2>3. calls[c].at = "note" => calm' + calls'[c].left <= StepTime + HealthOpen
    BY <1>1, <1>2, <2>1, Bounds DEF Inv, NoteTimed, Waits
  <2>4. calls[c].at = "note" /\ Down(health) => calm' + calls'[c].left <= StepTime
    BY <1>1, <1>2, <2>1, Bounds DEF Inv, NoteTimed, Waits
  <2>5. Down(health)' <=> Down(health)
    BY <1>5 DEF Down
  <2> QED
    BY <2>1, <2>2, <2>3, <2>4, <2>5 DEF RetryTimed, NoteTimed
<1>11. cooldown' \in 0..Cooldown /\ inFlight' \in BOOLEAN
  BY <1>1, <1>3, Bounds DEF Tick
<1>12. TypeOK'
  BY <1>2, <1>4, <1>5, <1>9, <1>11 DEF TypeOK, CallStates, Breakers, Healths
<1> QED
  BY <1>6, <1>7, <1>8, <1>10, <1>12 DEF Inv

\* Steps that leave the health and the time alone.
LEMMA ConnectInv == ASSUME Inv, NEW c \in Calls, Connect(c) PROVE Inv'
<1>1. OneCall(c) /\ Kept(c)
  BY QuietCall DEF Connect
<1>2. breaker' \in Breakers /\ BreakerTimed'
  BY Typed, AdmitOpens DEF Connect, Inv, BreakerTimed, Refuses
<1>3. \A d \in Calls \ {c} : RetryTimed(d)' /\ NoteTimed(d)'
  BY <1>1, OthersKept DEF Connect, Down
<1>4. health' \in Healths /\ HealthTimed' /\ CacheTimed'
  BY Typed DEF Connect, Inv, HealthTimed, CacheTimed, ShortCircuits, Down
<1>5. cooldown' \in 0..Cooldown /\ inFlight' \in BOOLEAN /\ calm' \in 0..(Patience + 1)
  BY Typed DEF Connect, Inv
<1> QED
  BY <1>1, <1>2, <1>3, <1>4, <1>5, Together

LEMMA PreparedInv == ASSUME Inv, NEW c \in Calls, Prepared(c) PROVE Inv'
<1>1. OneCall(c) /\ Kept(c)
  BY EndsCall DEF Prepared
<1>2. breaker' \in Breakers /\ BreakerTimed'
  BY ClosedCircuit DEF Prepared, BreakerTimed, Refuses
<1>3. \A d \in Calls \ {c} : RetryTimed(d)' /\ NoteTimed(d)'
  BY <1>1, OthersKept DEF Prepared, Down
<1>4. health' \in Healths /\ HealthTimed' /\ CacheTimed'
  BY Typed DEF Prepared, Inv, HealthTimed, CacheTimed, ShortCircuits, Down
<1>5. cooldown' \in 0..Cooldown /\ inFlight' \in BOOLEAN /\ calm' \in 0..(Patience + 1)
  BY Typed DEF Prepared, Inv
<1> QED
  BY <1>1, <1>2, <1>3, <1>4, <1>5, Together

\* A failure counted now, when calm is zero or says what it did.
LEMMA FailureKept ==
  ASSUME Inv, NEW e \in Errors, breaker' = Recorded(breaker, e),
         calm' \in Nat, calm' <= calm, calm' <= StepTime + HealthOpen
  PROVE  breaker' \in Breakers /\ BreakerTimed'
<1>1. breaker \in Breakers /\ calm \in Nat /\ breaker.left \in Nat
  BY Typed, Bounds DEF Inv, Breakers
<1>2. Refuses(breaker) => calm' + breaker.left <= Patience
  BY <1>1, Bounds DEF Inv, BreakerTimed
<1>3. /\ Recorded(breaker, e) \in Breakers
      /\ Refuses(Recorded(breaker, e)) => calm' + Recorded(breaker, e).left <= Patience
  BY <1>1, <1>2, RecordedTimed
<1> QED
  BY <1>3 DEF BreakerTimed, Refuses

LEMMA PrepareFailsInv ==
  ASSUME Inv, NEW c \in Calls, NEW e \in Errors, PrepareFails(c, e) PROVE Inv'
<1>1. OneCall(c) /\ Kept(c)
  BY EndsCall DEF PrepareFails
<1>2. /\ breaker \in Breakers /\ health \in Healths /\ calm \in 0..(Patience + 1)
      /\ calm \in Nat /\ BreakerTimed /\ HealthTimed /\ CacheTimed
  BY Typed, Bounds DEF Inv
<1>3. CASE Counts(e)
  <2>1. calm' = 0
    BY <1>3 DEF PrepareFails
  <2>2. breaker' \in Breakers /\ BreakerTimed'
    BY <1>2, <2>1, FailureKept, Bounds DEF PrepareFails
  <2>3. \A d \in Calls \ {c} : RetryTimed(d)' /\ NoteTimed(d)'
    BY <1>1, <2>1, OthersRestart
  <2>4. health' \in Healths /\ health' = health
    BY <1>2 DEF PrepareFails
  <2>5. HealthTimed'
    BY <2>1, <2>4, Bounds DEF HealthTimed, Healths
  <2>6. CacheTimed'
    BY <2>1, <2>4, Bounds DEF CacheTimed, Healths
  <2>7. cooldown' \in 0..Cooldown /\ inFlight' \in BOOLEAN
    BY Typed DEF PrepareFails, Inv
  <2> QED
    BY <1>1, <2>1, <2>2, <2>3, <2>4, <2>5, <2>6, <2>7, Together, Bounds
<1>4. CASE ~Counts(e)
  <2>1. calm' = calm /\ health' = health
    BY <1>4 DEF PrepareFails
  <2>2. breaker' \in {breaker, Closed}
    BY <1>4 DEF PrepareFails, Recorded
  <2>3. breaker' \in Breakers /\ BreakerTimed'
    BY <1>2, <2>1, <2>2, ClosedCircuit DEF BreakerTimed, Refuses
  <2>4. \A d \in Calls \ {c} : RetryTimed(d)' /\ NoteTimed(d)'
    BY <1>1, <2>1, OthersKept DEF Down
  <2>5. health' \in Healths /\ HealthTimed' /\ CacheTimed'
    BY <1>2, <2>1 DEF HealthTimed, CacheTimed, ShortCircuits, Down
  <2>6. cooldown' \in 0..Cooldown /\ inFlight' \in BOOLEAN /\ calm' \in 0..(Patience + 1)
    BY <1>2, <2>1, Typed DEF PrepareFails, Inv
  <2> QED
    BY <1>1, <2>3, <2>4, <2>5, <2>6, Together
<1> QED
  BY <1>3, <1>4

LEMMA HealthTimeoutInv == ASSUME Inv, NEW c \in Calls, HealthTimeout(c) PROVE Inv'
<1>1. /\ breaker \in Breakers /\ health \in Healths /\ calm \in 0..(Patience + 1)
      /\ calm \in Nat /\ calls \in [Calls -> CallStates] /\ calls[c] \in CallStates
      /\ BreakerTimed /\ HealthTimed /\ CacheTimed /\ RetryTimed(c) /\ NoteTimed(c)
  BY Typed, Bounds DEF Inv
<1>2. /\ OneCall(c) /\ calls'[c] \in CallStates
      /\ calls'[c].at = calls[c].at /\ calls'[c].left = calls[c].left
  BY <1>1 DEF HealthTimeout, OneCall, CallStates
<1>3. health' = health /\ cooldown' = cooldown /\ inFlight' = inFlight
  BY DEF HealthTimeout
<1>4. "trouble" \in Errors
  BY DEF Errors
<1>5. calls[c].left \in Nat /\ calls[c].left <= StepTime
  BY <1>1, Bounds DEF CallStates
<1>6. cooldown' \in 0..Cooldown /\ inFlight' \in BOOLEAN
  BY <1>3, Typed DEF Inv
<1>7. CASE calls[c].at = "note"
  <2>1. calm' = calm /\ calm <= StepTime + HealthOpen
    BY <1>1, <1>5, <1>7, Bounds DEF HealthTimeout, NoteTimed
  <2>2. breaker' \in Breakers /\ BreakerTimed'
    BY <1>1, <1>4, <2>1, FailureKept DEF HealthTimeout
  <2>3. Kept(c)
    BY <1>1, <1>2, <1>3, <2>1 DEF Kept, RetryTimed, NoteTimed, Down
  <2>4. \A d \in Calls \ {c} : RetryTimed(d)' /\ NoteTimed(d)'
    BY <1>2, <1>3, <2>1, OthersKept DEF Down
  <2>5. HealthTimed' /\ CacheTimed'
    BY <1>1, <1>3, <2>1 DEF HealthTimed, CacheTimed, ShortCircuits, Down
  <2> QED
    BY <1>1, <1>2, <1>3, <1>6, <2>1, <2>2, <2>3, <2>4, <2>5, Together
<1>8. CASE calls[c].at # "note"
  <2>1. calm' = 0
    BY <1>8 DEF HealthTimeout
  <2>2. breaker' \in Breakers /\ BreakerTimed'
    BY <1>1, <1>4, <2>1, FailureKept, Bounds DEF HealthTimeout
  <2>3. Kept(c)
    BY <1>2, <1>5, <1>8, <2>1 DEF Kept, RetryTimed, NoteTimed
  <2>4. \A d \in Calls \ {c} : RetryTimed(d)' /\ NoteTimed(d)'
    BY <1>2, <2>1, OthersRestart
  <2>5. HealthTimed'
    BY <1>1, <1>3, <2>1, Bounds DEF HealthTimed, Healths
  <2>6. CacheTimed'
    BY <1>1, <1>3, <2>1, Bounds DEF CacheTimed, Healths
  <2> QED
    BY <1>1, <1>2, <1>3, <1>6, <2>1, <2>2, <2>3, <2>4, <2>5, <2>6, Together, Bounds
<1> QED
  BY <1>7, <1>8

LEMMA ReconnectInv == ASSUME Inv, NEW c \in Calls, Reconnect(c) PROVE Inv'
<1>1. OneCall(c) /\ Kept(c)
  BY QuietCall DEF Reconnect
<1>2. health' = Unknown /\ breaker' = breaker /\ calm' = calm
  BY DEF Reconnect
<1>3. breaker' \in Breakers /\ BreakerTimed'
  BY <1>2, Typed DEF Inv, BreakerTimed, Refuses
<1>4. Unknown \in Healths /\ ~Down(Unknown) /\ ~(Unknown.fresh > 0)
  BY Typed, HealthTypes, AnswerClears DEF Inv
<1>5. health' \in Healths /\ HealthTimed' /\ CacheTimed'
  BY <1>2, <1>4 DEF HealthTimed, CacheTimed, ShortCircuits, Down
<1>6. ~Down(health)'
  BY <1>2, <1>4 DEF Down
<1>7. \A d \in Calls \ {c} : RetryTimed(d)' /\ NoteTimed(d)'
  BY <1>1, <1>2, <1>6, OthersKept
<1>8. cooldown' \in 0..Cooldown /\ inFlight' \in BOOLEAN /\ calm' \in 0..(Patience + 1)
  BY Typed DEF Reconnect, Inv
<1> QED
  BY <1>1, <1>3, <1>5, <1>7, <1>8, Together

LEMMA ProbeAnswersInv == ASSUME Inv, NEW c \in Calls, ProbeAnswers(c) PROVE Inv'
<1>1. /\ health \in Healths /\ calls[c] \in CallStates
      /\ calls[c].op \in {"none", "connect", "check"}
  BY Typed DEF Inv, CallStates
<1>2. OneCall(c) /\ Kept(c) /\ breaker' = breaker
  BY <1>1, PassesKept DEF ProbeAnswers
<1>3. health' = Succeeded(Cached(health, "ok")) /\ calm' = calm
  BY DEF ProbeAnswers
<1>4. breaker' \in Breakers /\ BreakerTimed'
  BY <1>2, <1>3, Typed DEF Inv, BreakerTimed, Refuses
<1>5. health' \in Healths /\ ~Down(health)' /\ health'.answer # "error"
  BY <1>1, <1>3, HealthTypes, AnswerClears DEF Down
<1>6. HealthTimed' /\ CacheTimed'
  BY <1>5 DEF HealthTimed, CacheTimed, ShortCircuits, Down
<1>7. \A d \in Calls \ {c} : RetryTimed(d)' /\ NoteTimed(d)'
  BY <1>2, <1>3, <1>5, OthersKept
<1>8. cooldown' \in 0..Cooldown /\ inFlight' \in BOOLEAN /\ calm' \in 0..(Patience + 1)
  BY Typed DEF ProbeAnswers, Inv
<1> QED
  BY <1>2, <1>4, <1>5, <1>6, <1>7, <1>8, Together

LEMMA RetryAnswersInv == ASSUME Inv, NEW c \in Calls, RetryAnswers(c) PROVE Inv'
<1>1. /\ health \in Healths /\ calls[c] \in CallStates /\ calm \in Nat
      /\ calls[c].op \in {"none", "connect", "check"} /\ calls[c].left \in Nat
      /\ RetryTimed(c)
  BY Typed, Bounds DEF Inv, CallStates
<1>2. OneCall(c) /\ calls'[c].at = "note" /\ calls'[c].left = StepTime /\ calls'[c] \in CallStates
  BY <1>1, BecomeCall DEF RetryAnswers
<1>3. health' = Succeeded(health) /\ calm' = calm /\ breaker' = breaker
  BY DEF RetryAnswers
<1>4. breaker' \in Breakers /\ BreakerTimed'
  BY <1>3, Typed DEF Inv, BreakerTimed, Refuses
<1>5. /\ health' \in Healths /\ ~Down(health)'
      /\ health'.answer = health.answer /\ health'.fresh = health.fresh
  BY <1>1, <1>3, HealthTypes, AnswerClears DEF Down
<1>6. HealthTimed' /\ CacheTimed'
  BY <1>3, <1>5 DEF Inv, HealthTimed, CacheTimed, ShortCircuits, Down
<1>7. calm' + calls'[c].left <= StepTime + HealthOpen
  BY <1>1, <1>2, <1>3, Bounds DEF RetryAnswers, RetryTimed
<1>8. Kept(c)
  BY <1>2, <1>5, <1>7 DEF Kept, RetryTimed, NoteTimed
<1>9. \A d \in Calls \ {c} : RetryTimed(d)' /\ NoteTimed(d)'
  BY <1>2, <1>3, <1>5, OthersKept
<1>10. cooldown' \in 0..Cooldown /\ inFlight' \in BOOLEAN /\ calm' \in 0..(Patience + 1)
  BY Typed DEF RetryAnswers, Inv
<1> QED
  BY <1>2, <1>4, <1>5, <1>6, <1>8, <1>9, <1>10, Together

LEMMA RetryFailsInv == ASSUME Inv, NEW c \in Calls, RetryFails(c) PROVE Inv'
<1>1. /\ health \in Healths /\ calls[c] \in CallStates /\ breaker \in Breakers
      /\ calls[c].op \in {"none", "connect", "check"}
  BY Typed DEF Inv, CallStates
<1>2. OneCall(c) /\ calls'[c].at = "note" /\ calls'[c].left = StepTime /\ calls'[c] \in CallStates
  BY <1>1, BecomeCall DEF RetryFails
<1>3. health' = health /\ calm' = 0 /\ breaker' = breaker
  BY DEF RetryFails
<1>4. BreakerTimed'
  BY <1>1, <1>3, Bounds DEF BreakerTimed, Refuses, Breakers, Patience
<1>5. HealthTimed'
  BY <1>1, <1>3, Bounds DEF HealthTimed, Healths
<1>6. CacheTimed'
  BY <1>1, <1>3, Bounds DEF CacheTimed, Healths
<1>7. Kept(c)
  BY <1>2, <1>3, Bounds DEF Kept, RetryTimed, NoteTimed
<1>8. \A d \in Calls \ {c} : RetryTimed(d)' /\ NoteTimed(d)'
  BY <1>2, <1>3, OthersRestart
<1>9. cooldown' \in 0..Cooldown /\ inFlight' \in BOOLEAN
  BY Typed DEF RetryFails, Inv
<1> QED
  BY <1>1, <1>2, <1>3, <1>4, <1>5, <1>6, <1>7, <1>8, <1>9, Together, Bounds

LEMMA ProbeFailsInv == ASSUME Inv, NEW c \in Calls, ProbeFails(c) PROVE Inv'
<1> DEFINE h == FailedProbe(health)
<1>1. /\ health \in Healths /\ calls[c] \in CallStates /\ breaker \in Breakers
      /\ calls[c].op \in {"none", "connect", "check"} /\ calm \in Nat
  BY Typed, Bounds DEF Inv, CallStates
<1>2. calm' = 0
  BY DEF ProbeFails
<1>3. h \in Healths /\ Unknown \in Healths
  BY <1>1, HealthTypes
<1>4. Shut(h) \in Healths
  BY <1>3, HealthTypes
<1>5. health' \in Healths
  BY <1>3, <1>4 DEF ProbeFails
<1>6. HealthTimed'
  BY <1>2, <1>5, Bounds DEF HealthTimed, Healths
<1>7. CacheTimed'
  BY <1>2, <1>5, Bounds DEF CacheTimed, Healths
<1>8. CASE MayRetry(h)
  <2>1. Become(c, calls[c].op, "retry") /\ breaker' = breaker
        /\ inFlight' = TRUE /\ cooldown' = Cooldown
    BY <1>8 DEF ProbeFails
  <2>2. OneCall(c) /\ calls'[c].at = "retry" /\ calls'[c].left = StepTime /\ calls'[c] \in CallStates
    BY <1>1, <2>1, BecomeCall
  <2>3. Kept(c)
    BY <1>2, <2>2, Bounds DEF Kept, RetryTimed, NoteTimed
  <2>4. BreakerTimed'
    BY <1>1, <1>2, <2>1, Bounds DEF BreakerTimed, Refuses, Breakers, Patience
  <2>5. \A d \in Calls \ {c} : RetryTimed(d)' /\ NoteTimed(d)'
    BY <1>2, <2>2, OthersRestart
  <2>6. cooldown' \in 0..Cooldown
    BY <2>1, Bounds
  <2>7. inFlight' \in BOOLEAN
    BY <2>1
  <2> QED
    BY <1>1, <1>2, <1>5, <1>6, <1>7, <2>1, <2>2, <2>3, <2>4, <2>5, <2>6, <2>7, Together, Bounds
<1>9. CASE ~MayRetry(h)
  <2>1. Throws(c, calls[c].op) /\ inFlight' = inFlight /\ cooldown' = cooldown
    BY <1>9 DEF ProbeFails
  <2>2. OneCall(c) /\ Kept(c) /\ breaker' \in Breakers /\ BreakerTimed'
    BY <1>1, <1>2, <2>1, ThrowsKept
  <2>3. \A d \in Calls \ {c} : RetryTimed(d)' /\ NoteTimed(d)'
    BY <1>2, <2>2, OthersRestart
  <2>4. cooldown' \in 0..Cooldown /\ inFlight' \in BOOLEAN
    BY <2>1, Typed DEF Inv
  <2> QED
    BY <1>2, <1>5, <1>6, <1>7, <2>2, <2>3, <2>4, Together, Bounds
<1> QED
  BY <1>8, <1>9

LEMMA NoteDoneInv == ASSUME Inv, NEW c \in Calls, NoteDone(c) PROVE Inv'
<1>1. /\ health \in Healths /\ calls[c] \in CallStates /\ calm \in Nat /\ calls[c].left \in Nat
      /\ NoteTimed(c) /\ calm' = calm /\ calls[c].at = "note"
  BY Typed, Bounds DEF Inv, CallStates, NoteDone
<1>2. calm <= StepTime + HealthOpen /\ (Down(health) => calm <= StepTime)
  BY <1>1, Bounds DEF NoteTimed
<1>3. OneCall(c) /\ Kept(c) /\ breaker' \in Breakers /\ BreakerTimed'
  BY <1>1, <1>2, ThrowsKept DEF NoteDone
<1>4. /\ Shut(health).failures = health.failures /\ Shut(health).shut = HealthOpen
      /\ Shut(health).fresh = health.fresh /\ Shut(health).answer = health.answer
      /\ Shut(health) \in Healths
  BY <1>1, HealthTypes DEF Shut, Healths
<1>5. /\ health' \in Healths /\ health'.failures = health.failures
      /\ health'.fresh = health.fresh /\ health'.answer = health.answer
      /\ Down(health) => health'.shut = HealthOpen
  BY <1>1, <1>4 DEF NoteDone
<1>6. Down(health)' <=> Down(health)
  BY <1>5 DEF Down
<1>7. HealthTimed'
  BY <1>1, <1>2, <1>5, <1>6, Bounds DEF HealthTimed, ShortCircuits, Down
<1>8. CacheTimed'
  BY <1>1, <1>5 DEF Inv, CacheTimed
<1>9. \A d \in Calls \ {c} : RetryTimed(d)' /\ NoteTimed(d)'
  BY <1>1, <1>3, <1>6, OthersKept
<1>10. cooldown' \in 0..Cooldown /\ calm' \in 0..(Patience + 1)
  BY Typed DEF NoteDone, Inv
<1>11. inFlight' \in BOOLEAN
  BY DEF NoteDone
<1> QED
  BY <1>3, <1>5, <1>7, <1>8, <1>9, <1>10, <1>11, Together

LEMMA StepInv == Inv /\ [Next]_vars => Inv'
<1> SUFFICES ASSUME Inv, [Next]_vars PROVE Inv'
  OBVIOUS
<1>1. CASE Tick
  BY <1>1, TickInv
<1>2. CASE Restart
  BY <1>2, RestartInv
<1>3. ASSUME NEW c \in Calls, ResetDone(c) \/ Panel(c) PROVE Inv'
  BY <1>3, CheckKept DEF ResetDone, Panel
<1>4. CASE UNCHANGED vars
  BY <1>4 DEF vars, Inv, TypeOK, BreakerTimed, HealthTimed, CacheTimed, RetryTimed, NoteTimed,
              Refuses, ShortCircuits, Down
<1> QED
  BY <1>1, <1>2, <1>3, <1>4, ConnectInv, HealthTimeoutInv, PreparedInv, PrepareFailsInv,
     ReconnectInv, ProbeAnswersInv, ProbeFailsInv, RetryAnswersInv, RetryFailsInv, NoteDoneInv
     DEF Next

\* The circuits have their types, and the session circuit is half open for three
\* tests at most (assertSessionCircuitClosed).
THEOREM Types == Spec => []TypeOK
<1>1. Inv => TypeOK
  BY DEF Inv
<1> QED
  BY <1>1, InitInv, StepInv, PTL DEF Spec

\* Once WAHA has failed nothing for the time of a row of the log, of the health
\* circuit and of the session circuit together, neither circuit and no cached
\* error refuses anything (connectWahaChannel, checkProviderHealth).
THEOREM Settled == Spec => []Settles
<1>1. Inv => Settles
  <2> SUFFICES ASSUME Inv, calm > Patience, Blocked PROVE FALSE
    BY DEF Settles
  <2>1. breaker \in Breakers /\ health \in Healths /\ calm \in Nat
    BY Typed, Bounds DEF Inv
  <2>2. ~Refuses(breaker)
    BY <2>1, Bounds DEF Inv, BreakerTimed, Breakers, Refuses
  <2>3. ~ShortCircuits(health)
    BY <2>1, Bounds DEF Inv, HealthTimed, Healths, ShortCircuits, Patience
  <2>4. ~(health.fresh > 0 /\ health.answer = "error")
    BY <2>1, Bounds DEF Inv, CacheTimed, Healths, Patience
  <2> QED
    BY <2>2, <2>3, <2>4 DEF Blocked
<1> QED
  BY <1>1, InitInv, StepInv, PTL DEF Spec
----------------------------------------------------------------------------
(* WahaQr *)

\* Where no failure of the loop that ends it has been counted.
Early == {"idle", "joined", "ensure", "poll"} \cup Gates

\* A call that runs is about a session, and counts failures below the limit.
Placed(c) ==
  /\ at[c] # "idle" => about[c] \in Sessions
  /\ at[c] \in Early => fails[c] < FailStop

\* A reply is one that WAHA gave while the call ran, or none was heard.
Heard(c) ==
  /\ at[c] # "idle" => Kind(status[about[c]]) \in been[c]
  /\ reply[c] \in Statuses => Kind(reply[c]) \in been[c]
  /\ reply[c] = GaveUp => ~heard[c]
  /\ at[c] \in {"idle", "joined", "logs"} => reply[c] = NoReply

\* The run in hand knows the kind of status the session has, and of its outcome.
RunKnows(s) ==
  /\ prep[s] # "no" => Kind(status[s]) \in ran[s]
  /\ prep[s] \in {"SCAN_QR_CODE", "WORKING"} => Kind(prep[s]) \in ran[s]

QrInv ==
  /\ QrTypeOK
  /\ \A c \in QrCalls : Placed(c) /\ Heard(c)
  /\ \A s \in Sessions : RunKnows(s)

\* What AnswersTrue says of an answer.
True(t) ==
  /\ t.state = "CONNECTED" => "up" \in t.been
  /\ t.state = "QR_AVAILABLE" /\ ~t.logs => "waiting" \in t.been
  /\ t.state = "PENDING" /\ t.heard => t.been \cap {"waiting", "down"} # {}
  /\ t.state = "OFFLINE" /\ t.heard => "down" \in t.been

Answer(c, state, logs) ==
  [state |-> state, logs |-> logs, been |-> been[c], heard |-> heard[c]]

Holds == Locked \cup {"logs"}

PrepTypeOK ==
  /\ prep \in [Sessions -> {"no"} \cup Stages \cup Outcomes]
  /\ ran \in [Sessions -> SUBSET Kinds]

----------------------------------------------------------------------------
\* The operators that the steps of a call are made of.

LEMMA KindType == \A st : Kind(st) \in Kinds
BY DEF Kind, Kinds

\* finalize ends c and those that joined it, and leaves every other call alone.
LEMMA TellFacts ==
  ASSUME QrInv, NEW c \in QrCalls, NEW state, NEW logs, Tell(c, state, logs)
  PROVE  /\ told' = Answer(c, state, logs)
         /\ at'[c] = "idle"
         /\ \A s \in Sessions : lock'[s] = IF lock[s] = c THEN NoCall ELSE lock[s]
         /\ \A d \in QrCalls :
              \/ /\ at'[d] = "idle" /\ reply'[d] = NoReply /\ been'[d] = {}
                 /\ d = c \/ (at[d] = "joined" /\ lock[about[d]] = c)
                 /\ fails'[d] = IF d = c THEN 0 ELSE fails[d]
              \/ /\ d # c /\ ~(at[d] = "joined" /\ lock[about[d]] = c)
                 /\ at'[d] = at[d] /\ about'[d] = about[d] /\ reply'[d] = reply[d]
                 /\ been'[d] = been[d] /\ heard'[d] = heard[d] /\ fails'[d] = fails[d]
<1> DEFINE out == {c} \cup {d \in QrCalls : at[d] = "joined" /\ lock[about[d]] = c}
<1>1. /\ told' = Answer(c, state, logs)
      /\ lock' = [s \in Sessions |-> IF lock[s] = c THEN NoCall ELSE lock[s]]
      /\ at' = [d \in QrCalls |-> IF d \in out THEN "idle" ELSE at[d]]
      /\ about' = [d \in QrCalls |-> IF d \in out THEN NoSession ELSE about[d]]
      /\ reply' = [reply EXCEPT ![c] = NoReply]
      /\ fails' = [fails EXCEPT ![c] = 0]
      /\ been' = [d \in QrCalls |-> IF d \in out THEN {} ELSE been[d]]
      /\ heard' = [d \in QrCalls |-> d \in out \/ heard[d]]
  BY DEF Tell, Answer
<1>2. \A d \in out : d = c \/ reply[d] = NoReply
  BY DEF QrInv, Heard
<1>3. /\ reply \in [QrCalls -> Statuses \cup {NoReply, GaveUp}]
      /\ fails \in [QrCalls -> 0 .. FailStop] /\ heard \in [QrCalls -> BOOLEAN]
  BY DEF QrInv, QrTypeOK
<1>4. /\ at'[c] = "idle"
      /\ \A s \in Sessions : lock'[s] = IF lock[s] = c THEN NoCall ELSE lock[s]
  BY <1>1
<1>5. ASSUME NEW d \in out
      PROVE  /\ at'[d] = "idle" /\ reply'[d] = NoReply /\ been'[d] = {}
             /\ d = c \/ (at[d] = "joined" /\ lock[about[d]] = c)
             /\ fails'[d] = IF d = c THEN 0 ELSE fails[d]
  BY <1>1, <1>2, <1>3
<1>6. ASSUME NEW d \in QrCalls, d \notin out
      PROVE  /\ d # c /\ ~(at[d] = "joined" /\ lock[about[d]] = c)
             /\ at'[d] = at[d] /\ about'[d] = about[d] /\ reply'[d] = reply[d]
             /\ been'[d] = been[d] /\ fails'[d] = fails[d]
  BY <1>1, <1>3, <1>6
<1>7. ASSUME NEW d \in QrCalls, d \notin out PROVE heard'[d] = heard[d]
  BY <1>1, <1>3, <1>7, Zenon
<1> HIDE DEF out
<1>8. SUFFICES ASSUME NEW d \in QrCalls
               PROVE  \/ /\ at'[d] = "idle" /\ reply'[d] = NoReply /\ been'[d] = {}
                         /\ d = c \/ (at[d] = "joined" /\ lock[about[d]] = c)
                         /\ fails'[d] = IF d = c THEN 0 ELSE fails[d]
                      \/ /\ d # c /\ ~(at[d] = "joined" /\ lock[about[d]] = c)
                         /\ at'[d] = at[d] /\ about'[d] = about[d] /\ reply'[d] = reply[d]
                         /\ been'[d] = been[d] /\ heard'[d] = heard[d] /\ fails'[d] = fails[d]
  BY <1>1, <1>4, Zenon
<1>9. CASE d \in out
  BY <1>5, <1>9, Zenon
<1>10. CASE d \notin out
  BY <1>6, <1>7, <1>10, Zenon
<1> QED
  BY <1>9, <1>10, Zenon

LEMMA TellTypes ==
  ASSUME QrTypeOK, NEW c \in QrCalls, NEW state \in States,
         NEW logs \in BOOLEAN, Tell(c, state, logs), UNCHANGED <<waha, lost>>
  PROVE  QrTypeOK'
<1> DEFINE out == {c} \cup {d \in QrCalls : at[d] = "joined" /\ lock[about[d]] = c}
<1>1. told' \in [state : States, logs : BOOLEAN, been : SUBSET Kinds, heard : BOOLEAN]
  <2>1. been[c] \in SUBSET Kinds
    BY DEF QrTypeOK
  <2>2. heard[c] \in BOOLEAN
    BY DEF QrTypeOK
  <2>3. told' = Answer(c, state, logs)
    BY DEF Tell, Answer
  <2> QED
    BY <2>1, <2>2, <2>3, Zenon DEF Answer
<1>2. heard' \in [QrCalls -> BOOLEAN]
  BY DEF Tell
<1>3. /\ lock' = [s \in Sessions |-> IF lock[s] = c THEN NoCall ELSE lock[s]]
      /\ at' = [d \in QrCalls |-> IF d \in out THEN "idle" ELSE at[d]]
      /\ about' = [d \in QrCalls |-> IF d \in out THEN NoSession ELSE about[d]]
      /\ reply' = [reply EXCEPT ![c] = NoReply]
      /\ tries' = [tries EXCEPT ![c] = 0] /\ fails' = [fails EXCEPT ![c] = 0]
      /\ been' = [d \in QrCalls |-> IF d \in out THEN {} ELSE been[d]]
  BY DEF Tell
<1> HIDE DEF out
<1>4. lock' \in [Sessions -> QrCalls \cup {NoCall}] /\ at' \in [QrCalls -> Places]
  BY <1>3 DEF QrTypeOK, Places
<1>5. about' \in [QrCalls -> Sessions \cup {NoSession}] /\ been' \in [QrCalls -> SUBSET Kinds]
  BY <1>3 DEF QrTypeOK
<1>6. /\ reply' \in [QrCalls -> Statuses \cup {NoReply, GaveUp}]
      /\ tries' \in [QrCalls -> 0 .. Tries] /\ fails' \in [QrCalls -> 0 .. FailStop]
  BY <1>3, QrAssumption DEF QrTypeOK
<1>7. /\ status' \in [Sessions -> Statuses] /\ captured' \in BOOLEAN
      /\ moves' \in 0 .. MaxMoves /\ lost' \in 0 .. MaxLost
  BY DEF QrTypeOK, waha
<1>8. PrepTypeOK'
  BY DEF Tell, QrTypeOK, preparation, PrepTypeOK
<1> QED
  BY <1>1, <1>2, <1>4, <1>5, <1>6, <1>7, <1>8, Zenon DEF QrTypeOK, PrepTypeOK

\* Every other step of a call is a passage between places.
Through(c, p) ==
  /\ Took(c, p) /\ UNCHANGED <<preparation, lock, about, history>>
  /\ tries' \in [QrCalls -> 0 .. Tries] /\ fails' \in [QrCalls -> 0 .. FailStop]
  /\ \A d \in QrCalls \ {c} : fails'[d] = fails[d]
  /\ p \in Early => fails'[c] < FailStop

Answered(c) ==
  \E state \in States, logs \in BOOLEAN :
    Tell(c, state, logs) /\ True(Answer(c, state, logs))

\* Each decision of getQrCode is what the last look at the session allows.
LEMMA DecidesTruly ==
  ASSUME QrInv, NEW c \in QrCalls, reply[c] # NoReply,
         NEW state \in States, Decides(c, state), True(Answer(c, state, FALSE))
  PROVE  Answered(c)
BY Zenon DEF Decides, Answered

LEMMA TakenReply ==
  ASSUME QrInv, NEW c \in QrCalls, reply[c] # NoReply
  PROVE  /\ (reply[c] = GaveUp /\ ~heard[c]) \/ (reply[c] \in Statuses /\ reply[c] # GaveUp)
         /\ reply[c] \in Waiting => "waiting" \in been[c]
         /\ reply[c] = "WORKING" => "up" \in been[c]
         /\ reply[c] \in Statuses \ (Waiting \cup {"WORKING"}) => "down" \in been[c]
<1>1. /\ reply[c] \in Statuses \cup {NoReply, GaveUp}
      /\ reply[c] \in Statuses => Kind(reply[c]) \in been[c]
      /\ reply[c] = GaveUp => ~heard[c]
  BY DEF QrInv, QrTypeOK, Heard
<1> QED
  BY <1>1 DEF Kind, Statuses, Waiting, Dead, QrAssumption

LEMMA ReconciledTruly ==
  ASSUME QrInv, NEW c \in QrCalls, reply[c] # NoReply,
         NEW otherwise \in {"OFFLINE", "PENDING"}, Reconciled(c, otherwise)
  PROVE  Answered(c)
<1> USE TakenReply
<1>1. CASE Snapshot(c) \in Waiting /\ Decides(c, "PENDING")
  BY <1>1, DecidesTruly, QrAssumption DEF Snapshot, True, Answer, States, Waiting
<1>2. CASE Snapshot(c) = "WORKING" /\ Decides(c, "CONNECTED")
  BY <1>2, DecidesTruly, QrAssumption DEF Snapshot, True, Answer, States
<1>3. CASE Snapshot(c) \notin Waiting \cup {"WORKING"} /\ Decides(c, otherwise)
  <2>1. heard[c] => "down" \in been[c]
    BY <1>3 DEF Snapshot, Statuses, Waiting, Dead
  <2> QED
    BY <1>3, <2>1, DecidesTruly DEF True, Answer, States
<1> QED
  BY <1>1, <1>2, <1>3, Zenon DEF Reconciled

LEMMA GoesPasses ==
  ASSUME QrInv, NEW c \in QrCalls, NEW p \in Places, Goes(c, p),
         p \in Early => at[c] \in Early
  PROVE  Through(c, p)
BY DEF Goes, Through, QrInv, QrTypeOK, Placed, loop

\* What a step of a call may be.
LEMMA StepKinds ==
  ASSUME QrInv, NEW c \in QrCalls, Step(c)
  PROVE  \/ at[c] \in Gates \cup Holds /\ Answered(c)
         \/ at[c] \in Gates /\ Enter(c)
         \/ at[c] \in Gates /\ \E p \in Gates : Through(c, p)
         \/ at[c] \in Holds /\ \E p \in Holds : Through(c, p)
<1>0. \/ Gate(c) \/ Alive(c) \/ Retry(c) \/ Final(c) \/ Ensure(c) \/ Poll(c)
      \/ Stop(c) \/ Again(c) \/ Rest(c) \/ Logs(c) \/ End(c)
  BY Zenon DEF Step
<1>1. reply[c] # NoReply \/ at[c] = "logs"
  BY Zenon DEF Step
<1>2. CASE Gate(c)
  <2>1. CASE Snapshot(c) \in Dead /\ Decides(c, "OFFLINE")
    BY <1>1, <1>2, <2>1, TakenReply, DecidesTruly
    DEF Gate, Gates, Snapshot, True, Answer, States, Dead, Statuses, Waiting
  <2>2. CASE Goes(c, "alive")
    BY <1>2, <2>2, GoesPasses DEF Gate, Gates, Places, Early
  <2> QED
    BY <1>2, <2>1, <2>2 DEF Gate, Gates
<1>3. CASE Alive(c)
  <2>1. CASE Goes(c, "retry")
    BY <1>3, <2>1, GoesPasses DEF Alive, Gates, Places, Early
  <2> QED
    BY <1>3, <2>1 DEF Alive, Gates
<1>4. CASE Retry(c)
  <2>1. CASE Goes(c, "final")
    BY <1>4, <2>1, GoesPasses DEF Retry, Gates, Places, Early
  <2> QED
    BY <1>4, <2>1 DEF Retry, Gates
<1>5. CASE Final(c)
  BY <1>1, <1>5, ReconciledTruly DEF Final, Gates
<1>6. CASE Ensure(c)
  <2>1. CASE reply[c] = GaveUp /\ Decides(c, "error")
    BY <1>1, <1>6, <2>1, DecidesTruly DEF Ensure, Holds, Locked, True, Answer, States
  <2>2. CASE reply[c] = "WORKING" /\ Decides(c, "CONNECTED")
    BY <1>1, <1>6, <2>2, TakenReply, DecidesTruly
    DEF Ensure, Holds, Locked, True, Answer, States
  <2>3. CASE /\ Took(c, "poll") /\ tries' = [tries EXCEPT ![c] = 1]
             /\ UNCHANGED <<preparation, lock, about, fails, history>>
    <3>1. Through(c, "poll")
      <4>1. fails[c] < FailStop
        BY <1>6 DEF Ensure, QrInv, Placed, Early
      <4> QED
        BY <2>3, <4>1, QrAssumption DEF Through, QrInv, QrTypeOK
    <3> QED
      BY <1>6, <3>1 DEF Ensure, Holds, Locked
  <2> QED
    BY <1>6, <2>1, <2>2, <2>3, Zenon DEF Ensure
<1>7. CASE Poll(c)
  <2>1. CASE HasCode(c) /\ Decides(c, "QR_AVAILABLE")
    BY <1>1, <1>7, <2>1, TakenReply, DecidesTruly
    DEF Poll, HasCode, Holds, Locked, True, Answer, States, Waiting
  <2>2. CASE ~(HasCode(c) /\ Decides(c, "QR_AVAILABLE"))
    <3>1. PICK n \in {0, fails[c] + 1} :
             /\ fails' = [fails EXCEPT ![c] = n]
             /\ \/ n = FailStop /\ Took(c, "stop") /\ UNCHANGED tries
                \/ n < FailStop /\ tries[c] = Tries /\ Took(c, "rest")
                   /\ UNCHANGED tries
                \/ n < FailStop /\ tries[c] < Tries /\ Took(c, "poll")
                   /\ tries' = [tries EXCEPT ![c] = @ + 1]
      BY <1>7, <2>2 DEF Poll
    <3>2. UNCHANGED <<preparation, lock, about, history>>
      BY <1>7, <2>2, Zenon DEF Poll
    <3>3. /\ fails[c] \in 0 .. FailStop /\ fails[c] < FailStop /\ tries[c] \in 0 .. Tries
          /\ tries \in [QrCalls -> 0 .. Tries] /\ fails \in [QrCalls -> 0 .. FailStop]
      BY <1>7 DEF Poll, QrInv, QrTypeOK, Placed, Early
    <3>4. \E p \in {"stop", "rest", "poll"} : Through(c, p)
      BY <3>1, <3>2, <3>3, QrAssumption DEF Through, Early, Gates
    <3> QED
      BY <1>7, <3>4 DEF Poll, Holds, Locked
  <2> QED
    BY <2>1, <2>2
<1>8. CASE Stop(c)
  <2>1. \E p \in {"rest", "again"} : Goes(c, p)
    BY <1>8 DEF Stop
  <2>2. \E p \in {"rest", "again"} : Through(c, p)
    BY <2>1, GoesPasses DEF Places, Locked, Early, Gates
  <2> QED
    BY <1>8, <2>2 DEF Stop, Holds, Locked
<1>9. CASE Again(c)
  BY <1>1, <1>9, ReconciledTruly DEF Again, Holds, Locked
<1>10. CASE Rest(c)
  <2>1. CASE HasCode(c) /\ Decides(c, "QR_AVAILABLE")
    BY <1>1, <1>10, <2>1, TakenReply, DecidesTruly
    DEF Rest, HasCode, Holds, Locked, True, Answer, States, Waiting
  <2>2. CASE Goes(c, "logs")
    BY <1>10, <2>2, GoesPasses DEF Rest, Holds, Locked, Places, Early, Gates
  <2> QED
    BY <1>10, <2>1, <2>2, Zenon DEF Rest
<1>11. CASE Logs(c)
  <2>1. CASE Tell(c, "QR_AVAILABLE", TRUE)
    BY <1>11, <2>1 DEF Logs, Holds, Answered, True, Answer, States
  <2>2. CASE Goes(c, "end")
    BY <1>11, <2>2, GoesPasses DEF Logs, Holds, Locked, Places, Early, Gates
  <2> QED
    BY <1>11, <2>1, <2>2, Zenon DEF Logs
<1>12. CASE End(c)
  <2>0. at[c] = "end" /\ reply[c] # NoReply
    BY <1>1, <1>12 DEF End
  <2>1. CASE Snapshot(c) \in Dead /\ Decides(c, "OFFLINE")
    BY <2>0, <2>1, TakenReply, DecidesTruly
    DEF Holds, Locked, Snapshot, True, Answer, States, Dead, Statuses, Waiting
  <2>2. CASE Reconciled(c, "PENDING")
    BY <2>0, <2>2, ReconciledTruly DEF Holds, Locked
  <2> QED
    BY <1>12, <2>1, <2>2, Zenon DEF End
<1> QED
  BY <1>0, <1>2, <1>3, <1>4, <1>5, <1>6, <1>7, <1>8, <1>9, <1>10, <1>11, <1>12, Zenon

----------------------------------------------------------------------------
\* The invariant of a call, step by step.

\* Neither the session nor the run that prepares it moves.
LEMMA PrepLeft ==
  ASSUME QrInv, UNCHANGED <<status, preparation>>
  PROVE  PrepTypeOK' /\ \A s \in Sessions : RunKnows(s)'
BY DEF QrInv, QrTypeOK, PrepTypeOK, RunKnows, preparation

\* A run begins, or the one in hand is joined.
LEMMA PrepBegun ==
  ASSUME QrInv, NEW s \in Sessions, Prepares(s), UNCHANGED status
  PROVE  PrepTypeOK' /\ \A t \in Sessions : RunKnows(t)'
<1>1. CASE prep[s] = "no"
  <2>1. /\ prep' = [prep EXCEPT ![s] = "first"]
        /\ ran' = [ran EXCEPT ![s] = {Kind(status[s])}]
    BY <1>1 DEF Prepares
  <2>2. PrepTypeOK'
    BY <2>1, KindType DEF QrInv, QrTypeOK, PrepTypeOK, Stages
  <2> QED
    BY <2>1, <2>2 DEF QrInv, QrTypeOK, RunKnows
<1>2. CASE prep[s] # "no"
  BY <1>2, PrepLeft DEF Prepares
<1> QED
  BY <1>1, <1>2

\* A step of c that tells no one keeps what is so of the others, too.
LEMMA OthersLeft ==
  ASSUME QrInv, NEW c \in QrCalls, NEW p \in Places, Took(c, p),
         UNCHANGED <<waha, about, history>>,
         \A d \in QrCalls \ {c} : fails'[d] = fails[d]
  PROVE  /\ at' \in [QrCalls -> Places] /\ reply' \in [QrCalls -> Statuses \cup {NoReply, GaveUp}]
         /\ told' = Nothing /\ at'[c] = p /\ reply'[c] = NoReply
         /\ \A d \in QrCalls \ {c} : (Placed(d) /\ Heard(d))'
<1>1. /\ at' \in [QrCalls -> Places] /\ reply' \in [QrCalls -> Statuses \cup {NoReply, GaveUp}]
      /\ told' = Nothing /\ at'[c] = p /\ reply'[c] = NoReply
      /\ \A d \in QrCalls \ {c} : at'[d] = at[d] /\ reply'[d] = reply[d]
  BY DEF Took, QrInv, QrTypeOK
<1>2. \A d \in QrCalls \ {c} : (Placed(d) /\ Heard(d))'
  BY <1>1 DEF QrInv, Placed, Heard, waha, history
<1> QED
  BY <1>1, <1>2, Zenon

LEMMA PassesKeep ==
  ASSUME QrInv, NEW c \in QrCalls, at[c] # "idle", NEW p \in Places \ {"idle"},
         Through(c, p), UNCHANGED <<waha, lost>>
  PROVE  QrInv'
<1>1. /\ UNCHANGED <<preparation, lock, about, history>> /\ Took(c, p)
      /\ tries' \in [QrCalls -> 0 .. Tries] /\ fails' \in [QrCalls -> 0 .. FailStop]
      /\ \A d \in QrCalls \ {c} : fails'[d] = fails[d]
      /\ p \in Early => fails'[c] < FailStop
  BY Zenon DEF Through
<1>2. /\ at' \in [QrCalls -> Places] /\ reply' \in [QrCalls -> Statuses \cup {NoReply, GaveUp}]
      /\ told' = Nothing /\ at'[c] = p /\ reply'[c] = NoReply
      /\ \A d \in QrCalls \ {c} : (Placed(d) /\ Heard(d))'
  BY <1>1, OthersLeft, Zenon
<1>0. PrepTypeOK' /\ \A s \in Sessions : RunKnows(s)'
  BY <1>1, PrepLeft DEF waha
<1>3. QrTypeOK'
  BY <1>0, <1>1, <1>2 DEF QrInv, QrTypeOK, PrepTypeOK, waha, history
<1>4. Placed(c)'
  BY <1>1, <1>2 DEF QrInv, Placed
<1>5. Heard(c)'
  BY <1>1, <1>2, QrAssumption DEF QrInv, Heard, waha, history
<1> QED
  BY <1>0, <1>2, <1>3, <1>4, <1>5, Zenon DEF QrInv

LEMMA EnterKeeps ==
  ASSUME QrInv, NEW c \in QrCalls, at[c] \in Gates, Enter(c),
         UNCHANGED <<waha, lost>>
  PROVE  QrInv'
<1>1. PICK p \in {"ensure", "joined"} : Took(c, p)
  BY DEF Enter
<1>2. UNCHANGED <<about, loop, history>> /\ fails' = fails /\ tries' = tries
  BY DEF Enter, loop
<1>3. p \in Places \ {"idle"} /\ p \in Early
  BY DEF Places, Locked, Early
<1>4. /\ at' \in [QrCalls -> Places] /\ reply' \in [QrCalls -> Statuses \cup {NoReply, GaveUp}]
      /\ told' = Nothing /\ at'[c] = p /\ reply'[c] = NoReply
      /\ \A d \in QrCalls \ {c} : (Placed(d) /\ Heard(d))'
  BY <1>1, <1>2, <1>3, OthersLeft
<1>5. lock' \in [Sessions -> QrCalls \cup {NoCall}]
  BY DEF Enter, QrInv, QrTypeOK
<1>0. PrepTypeOK' /\ \A s \in Sessions : RunKnows(s)'
  <2>1. status' = status /\ about[c] \in Sessions
    BY DEF waha, QrInv, Placed, Gates
  <2>2. CASE Prepares(about[c])
    BY <2>1, <2>2, PrepBegun
  <2>3. CASE UNCHANGED preparation
    BY <2>1, <2>3, PrepLeft
  <2> QED
    BY <2>2, <2>3 DEF Enter
<1>6. QrTypeOK'
  BY <1>0, <1>2, <1>4, <1>5 DEF QrInv, QrTypeOK, PrepTypeOK, waha, history
<1>7. at[c] # "idle" /\ at[c] \in Early
  BY DEF Gates, Early
<1>8. Placed(c)'
  BY <1>2, <1>3, <1>4, <1>7 DEF QrInv, Placed
<1>9. Heard(c)'
  BY <1>2, <1>3, <1>4, <1>7, QrAssumption DEF QrInv, Heard, waha, history
<1> QED
  BY <1>0, <1>4, <1>6, <1>8, <1>9, Zenon DEF QrInv

LEMMA AnsweredKeeps ==
  ASSUME QrInv, NEW c \in QrCalls, Answered(c), UNCHANGED <<waha, lost>>
  PROVE  QrInv' /\ True(told')
<1>1. PICK state \in States, logs \in BOOLEAN :
        Tell(c, state, logs) /\ True(Answer(c, state, logs))
  BY Zenon DEF Answered
<1>2. QrTypeOK'
  BY <1>1, TellTypes DEF QrInv
<1>3. told' = Answer(c, state, logs)
  BY <1>1, TellFacts
<1>4. ASSUME NEW d \in QrCalls PROVE Placed(d)' /\ Heard(d)'
  <2>1. CASE /\ at'[d] = "idle" /\ reply'[d] = NoReply /\ been'[d] = {}
             /\ d = c \/ (at[d] = "joined" /\ lock[about[d]] = c)
             /\ fails'[d] = IF d = c THEN 0 ELSE fails[d]
    <3>1. fails'[d] < FailStop
      BY <2>1, QrAssumption DEF QrInv, Placed, Early
    <3> QED
      BY <2>1, <3>1, QrAssumption DEF Placed, Heard
  <2>2. CASE /\ d # c /\ ~(at[d] = "joined" /\ lock[about[d]] = c)
             /\ at'[d] = at[d] /\ about'[d] = about[d] /\ reply'[d] = reply[d]
             /\ been'[d] = been[d] /\ heard'[d] = heard[d] /\ fails'[d] = fails[d]
    BY <2>2 DEF QrInv, Placed, Heard, waha
  <2> QED
    BY <1>1, <2>1, <2>2, TellFacts
<1>5. \A s \in Sessions : RunKnows(s)'
  BY <1>1, PrepLeft DEF Tell, waha
<1> QED
  BY <1>1, <1>2, <1>3, <1>4, <1>5, Zenon DEF QrInv

LEMMA StepKeeps ==
  ASSUME QrInv, NEW c \in QrCalls, Step(c)
  PROVE  QrInv' /\ (told' = Nothing \/ True(told'))
<1>1. UNCHANGED <<waha, lost>>
  BY Zenon DEF Step
<1>2. CASE Answered(c)
  BY <1>1, <1>2, AnsweredKeeps, Zenon
<1>3. CASE at[c] \in Gates /\ Enter(c)
  <2>1. told' = Nothing
    BY <1>3 DEF Enter, Took
  <2> QED
    BY <1>1, <1>3, <2>1, EnterKeeps, Zenon
<1>4. ASSUME NEW p \in Gates \cup Holds, at[c] \in Gates \cup Holds, Through(c, p)
      PROVE  QrInv' /\ told' = Nothing
  <2>1. at[c] # "idle" /\ p \in Places \ {"idle"}
    BY <1>4 DEF Gates, Holds, Locked, Places
  <2>2. told' = Nothing
    BY <1>4 DEF Through, Took
  <2> QED
    BY <1>1, <1>4, <2>1, <2>2, PassesKeep, Zenon
<1> QED
  BY <1>2, <1>3, <1>4, StepKinds

\* What WAHA does, and a call that begins.
LEMMA MovesKeeps ==
  ASSUME QrInv, NEW s \in Sessions, NEW new \in Statuses, Becomes(s, new)
  PROVE  /\ status' \in [Sessions -> Statuses] /\ been' \in [QrCalls -> SUBSET Kinds]
         /\ status'[s] = new
         /\ \A c \in QrCalls : about[c] = s => Kind(new) \in been'[c]
         /\ \A c \in QrCalls : been[c] \subseteq been'[c]
         /\ \A c \in QrCalls : (at[c] # "idle" => Kind(status'[about[c]]) \in been'[c])
         /\ ran' \in [Sessions -> SUBSET Kinds]
         /\ \A t \in Sessions : (prep[t] # "no" =>
              Kind(status'[t]) \in ran'[t] /\ ran[t] \subseteq ran'[t])
<1>1. /\ status' = [status EXCEPT ![s] = new]
      /\ been' = [c \in QrCalls |-> IF about[c] = s THEN been[c] \cup {Kind(new)} ELSE been[c]]
  BY DEF Becomes
<1>2. status \in [Sessions -> Statuses] /\ been \in [QrCalls -> SUBSET Kinds]
  BY DEF QrInv, QrTypeOK
<1>3. /\ status' \in [Sessions -> Statuses] /\ been' \in [QrCalls -> SUBSET Kinds]
      /\ status'[s] = new
      /\ \A c \in QrCalls : about[c] = s => Kind(new) \in been'[c]
      /\ \A c \in QrCalls : been[c] \subseteq been'[c]
  BY <1>1, <1>2, KindType
<1>4. ASSUME NEW c \in QrCalls, at[c] # "idle" PROVE Kind(status'[about[c]]) \in been'[c]
  <2>1. about[c] \in Sessions /\ Kind(status[about[c]]) \in been[c]
    BY <1>4 DEF QrInv, Placed, Heard
  <2>2. CASE about[c] = s
    BY <1>3, <2>2
  <2>3. CASE about[c] # s
    BY <1>1, <1>2, <1>3, <2>1, <2>3
  <2> QED
    BY <2>2, <2>3
<1>5. ran' = [ran EXCEPT ![s] = IF prep[s] = "no" THEN {} ELSE ran[s] \cup {Kind(new)}]
  BY DEF Becomes
<1>6. ran \in [Sessions -> SUBSET Kinds] /\ Kind(new) \in Kinds
  BY KindType DEF QrInv, QrTypeOK
<1>7. ran' \in [Sessions -> SUBSET Kinds]
  BY <1>5, <1>6
<1>8. ASSUME NEW t \in Sessions, prep[t] # "no"
      PROVE  Kind(status'[t]) \in ran'[t] /\ ran[t] \subseteq ran'[t]
  <2>1. CASE t = s
    BY <1>3, <1>5, <1>6, <1>8, <2>1
  <2>2. CASE t # s
    <3>1. Kind(status[t]) \in ran[t]
      BY <1>8 DEF QrInv, RunKnows
    <3> QED
      BY <1>1, <1>2, <1>5, <1>6, <2>2, <3>1
  <2> QED
    BY <2>1, <2>2
<1> QED
  BY <1>3, <1>4, <1>7, <1>8, Zenon

\* What a run that goes on knows.
LEMMA StageKeeps ==
  ASSUME QrInv, NEW s \in Sessions, prep[s] # "no",
         NEW next \in Stages \cup Outcomes, prep' = [prep EXCEPT ![s] = next],
         next \in {"SCAN_QR_CODE", "WORKING"} => next = status[s] /\ UNCHANGED status,
         ran' \in [Sessions -> SUBSET Kinds],
         \A t \in Sessions : (prep[t] # "no" =>
           Kind(status'[t]) \in ran'[t] /\ ran[t] \subseteq ran'[t])
  PROVE  PrepTypeOK' /\ \A t \in Sessions : RunKnows(t)'
<1>1. prep \in [Sessions -> {"no"} \cup Stages \cup Outcomes]
  BY DEF QrInv, QrTypeOK
<1>2. PrepTypeOK'
  BY <1>1 DEF PrepTypeOK
<1>3. ASSUME NEW t \in Sessions PROVE RunKnows(t)'
  <2>1. CASE t = s
    <3>1. prep'[t] = next /\ Kind(status'[t]) \in ran'[t]
      BY <1>1, <2>1
    <3> QED
      BY <2>1, <3>1 DEF RunKnows
  <2>2. CASE t # s
    <3>1. prep'[t] = prep[t] /\ RunKnows(t)
      BY <1>1, <2>2 DEF QrInv
    <3>2. prep[t] \in {"SCAN_QR_CODE", "WORKING"} => prep[t] # "no"
      OBVIOUS
    <3> QED
      BY <3>1, <3>2 DEF RunKnows
  <2> QED
    BY <2>1, <2>2
<1> QED
  BY <1>2, <1>3

LEMMA WorldKeeps ==
  ASSUME QrInv, NEW s \in Sessions, Moves(s) \/ LogShows(s)
  PROVE  QrInv' /\ told' = Nothing
<1>1. CASE Moves(s)
  <2>1. /\ UNCHANGED <<captured, prep, lock, at, about, reply, loop, heard, lost>>
        /\ told' = Nothing /\ moves' = moves + 1 /\ moves < MaxMoves
    BY <1>1, Zenon DEF Moves
  <2>2. PICK new \in Statuses : Becomes(s, new)
    BY <1>1, Zenon DEF Moves
  <2>3. moves' \in 0 .. MaxMoves
    BY <2>1, QrAssumption DEF QrInv, QrTypeOK
  <2>4. status' \in [Sessions -> Statuses] /\ been' \in [QrCalls -> SUBSET Kinds]
    BY <2>2, MovesKeeps, Zenon
  <2>0. /\ ran' \in [Sessions -> SUBSET Kinds]
        /\ \A t \in Sessions : (prep[t] # "no" =>
             Kind(status'[t]) \in ran'[t] /\ ran[t] \subseteq ran'[t])
    BY <2>2, MovesKeeps, Zenon
  <2>5. QrTypeOK'
    BY <2>0, <2>1, <2>3, <2>4 DEF QrInv, QrTypeOK, loop
  <2>7. \A t \in Sessions : RunKnows(t)'
    BY <2>0, <2>1 DEF QrInv, RunKnows
  <2>6. ASSUME NEW c \in QrCalls PROVE Placed(c)' /\ Heard(c)'
    <3>1. Placed(c)'
      BY <2>1 DEF QrInv, Placed, loop
    <3>2. /\ at[c] # "idle" => Kind(status'[about[c]]) \in been'[c]
          /\ been[c] \subseteq been'[c]
      BY <2>2, MovesKeeps, Zenon
    <3>3. Heard(c)'
      BY <2>1, <3>2 DEF QrInv, Heard
    <3> QED
      BY <3>1, <3>3
  <2> QED
    BY <2>1, <2>5, <2>6, <2>7, Zenon DEF QrInv
<1>2. CASE LogShows(s)
  <2>1. /\ UNCHANGED <<status, moves, preparation, lock, at, about, reply, loop, history, lost>>
        /\ told' = Nothing /\ captured' = TRUE
    BY <1>2, Zenon DEF LogShows
  <2> QED
    BY <2>1 DEF QrInv, QrTypeOK, Placed, Heard, RunKnows, loop, history, preparation
<1> QED
  BY <1>1, <1>2

LEMMA ServeKeeps ==
  ASSUME QrInv, NEW c \in QrCalls, Serve(c)
  PROVE  QrInv' /\ told' = Nothing
<1> DEFINE s == about[c]
<1>1. /\ at[c] \in Gates \cup Locked
      /\ reply' = [reply EXCEPT ![c] = status[s]]
      /\ told' = Nothing
      /\ UNCHANGED <<waha, preparation, lock, at, about, loop, history, lost>>
  BY DEF Serve, Asking
<1>2. at[c] \notin {"idle", "joined", "logs"} /\ s \in Sessions
  BY <1>1 DEF Gates, Locked, QrInv, Placed
<1>3. /\ reply' \in [QrCalls -> Statuses \cup {NoReply, GaveUp}]
      /\ reply'[c] = status[s] /\ reply'[c] \in Statuses
      /\ \A d \in QrCalls \ {c} : reply'[d] = reply[d]
  BY <1>1, <1>2 DEF QrInv, QrTypeOK
<1>4. PrepTypeOK' /\ \A t \in Sessions : RunKnows(t)'
  BY <1>1, PrepLeft DEF waha
<1>5. QrTypeOK'
  BY <1>1, <1>3, <1>4 DEF QrInv, QrTypeOK, PrepTypeOK, loop, waha, history
<1>6. ASSUME NEW d \in QrCalls PROVE Placed(d)' /\ Heard(d)'
  <2>1. Placed(d)'
    BY <1>1 DEF QrInv, Placed, loop
  <2>2. /\ at' = at /\ about' = about /\ heard' = heard /\ been' = been /\ status' = status
        /\ at[d] # "idle" => Kind(status'[about[d]]) \in been'[d]
    BY <1>1 DEF waha, history, QrInv, Heard
  <2>3. CASE d = c
    <3>1. Kind(status[s]) \in been[c]
      BY <1>2 DEF QrInv, Heard
    <3>2. Kind(reply'[d]) \in been'[d] /\ reply'[d] \notin {GaveUp, NoReply}
      BY <1>3, <2>2, <2>3, <3>1, QrAssumption
    <3> QED
      BY <1>2, <2>1, <2>2, <2>3, <3>2 DEF Heard
  <2>4. CASE d # c
    <3>1. reply'[d] = reply[d] /\ Heard(d)
      BY <1>3, <2>4 DEF QrInv
    <3> QED
      BY <2>1, <2>2, <3>1 DEF Heard
  <2> QED
    BY <2>1, <2>3, <2>4
<1> QED
  BY <1>1, <1>4, <1>5, <1>6, Zenon DEF QrInv

LEMMA LoseKeeps ==
  ASSUME QrInv, NEW c \in QrCalls, Lose(c)
  PROVE  QrInv' /\ told' = Nothing
<1>1. /\ at[c] \in Gates \cup Locked
      /\ lost < MaxLost /\ lost' = lost + 1
      /\ reply' = [reply EXCEPT ![c] = GaveUp]
      /\ heard' = [heard EXCEPT ![c] = FALSE]
      /\ told' = Nothing
      /\ UNCHANGED <<waha, preparation, lock, at, about, loop, been>>
  BY Zenon DEF Lose, Asking
<1>2. at[c] \notin {"idle", "joined", "logs"}
  BY <1>1 DEF Gates, Locked
<1>3. /\ reply' \in [QrCalls -> Statuses \cup {NoReply, GaveUp}] /\ reply'[c] = GaveUp
      /\ \A d \in QrCalls \ {c} : reply'[d] = reply[d]
  BY <1>1 DEF QrInv, QrTypeOK
<1>4. /\ heard' \in [QrCalls -> BOOLEAN] /\ ~heard'[c]
      /\ \A d \in QrCalls \ {c} : heard'[d] = heard[d]
  BY <1>1, Zenon DEF QrInv, QrTypeOK
<1>5. lost' \in 0 .. MaxLost
  BY <1>1, QrAssumption DEF QrInv, QrTypeOK
<1>0. PrepTypeOK' /\ \A t \in Sessions : RunKnows(t)'
  BY <1>1, PrepLeft DEF waha
<1>6. QrTypeOK'
  BY <1>0, <1>1, <1>3, <1>4, <1>5 DEF QrInv, QrTypeOK, PrepTypeOK, loop, waha
<1>7. ASSUME NEW d \in QrCalls PROVE Placed(d)' /\ Heard(d)'
  <2>1. Placed(d)'
    BY <1>1 DEF QrInv, Placed, loop
  <2>2. /\ at' = at /\ about' = about /\ status' = status /\ been' = been /\ Heard(d)
    BY <1>1 DEF waha, QrInv
  <2>3. CASE d = c
    <3>1. reply'[d] \notin Statuses /\ reply'[d] # NoReply /\ ~heard'[d]
      BY <1>3, <1>4, <2>3, QrAssumption
    <3> QED
      BY <1>2, <2>1, <2>2, <2>3, <3>1 DEF Heard
  <2>4. CASE d # c
    <3>1. reply'[d] = reply[d] /\ heard'[d] = heard[d]
      BY <1>3, <1>4, <2>4
    <3> QED
      BY <2>1, <2>2, <3>1 DEF Heard
  <2> QED
    BY <2>1, <2>3, <2>4
<1> QED
  BY <1>0, <1>1, <1>6, <1>7, Zenon DEF QrInv

\* The run that prepares a session.
LEMMA ConnectKeeps ==
  ASSUME QrInv, NEW s \in Sessions, ConnectPrepares(s)
  PROVE  QrInv' /\ told' = Nothing
<1>1. /\ moves < MaxMoves /\ moves' = moves + 1 /\ Prepares(s) /\ told' = Nothing
      /\ UNCHANGED <<status, captured, lock, at, about, reply, loop, history, lost>>
  BY DEF ConnectPrepares
<1>2. PrepTypeOK' /\ \A t \in Sessions : RunKnows(t)'
  BY <1>1, PrepBegun
<1>3. moves' \in 0 .. MaxMoves
  BY <1>1, QrAssumption DEF QrInv, QrTypeOK
<1>4. QrTypeOK'
  BY <1>1, <1>2, <1>3 DEF QrInv, QrTypeOK, PrepTypeOK, loop, history
<1>5. \A c \in QrCalls : Placed(c)' /\ Heard(c)'
  BY <1>1 DEF QrInv, Placed, Heard, loop, history
<1> QED
  BY <1>1, <1>2, <1>4, <1>5, Zenon DEF QrInv

\* A step of a run that changes the session, or only how far the run is.
LEMMA RunKeeps ==
  ASSUME QrInv, NEW s \in Sessions, prep[s] # "no",
         NEW next \in Stages \cup Outcomes, prep' = [prep EXCEPT ![s] = next],
         next \in {"SCAN_QR_CODE", "WORKING"} => next = status[s] /\ UNCHANGED status,
         \/ UNCHANGED <<status, been, ran>>
         \/ \E new \in Statuses : Becomes(s, new),
         UNCHANGED <<captured, moves, lock, at, about, reply, loop, heard, lost>>,
         told' = Nothing
  PROVE  QrInv'
<1>1. /\ status' \in [Sessions -> Statuses] /\ been' \in [QrCalls -> SUBSET Kinds]
      /\ \A c \in QrCalls : been[c] \subseteq been'[c]
      /\ \A c \in QrCalls : (at[c] # "idle" => Kind(status'[about[c]]) \in been'[c])
      /\ ran' \in [Sessions -> SUBSET Kinds]
      /\ \A t \in Sessions : (prep[t] # "no" =>
           Kind(status'[t]) \in ran'[t] /\ ran[t] \subseteq ran'[t])
  <2>1. CASE UNCHANGED <<status, been, ran>>
    BY <2>1 DEF QrInv, QrTypeOK, Heard, RunKnows
  <2>2. ASSUME NEW new \in Statuses, Becomes(s, new)
        PROVE  /\ status' \in [Sessions -> Statuses] /\ been' \in [QrCalls -> SUBSET Kinds]
               /\ \A c \in QrCalls : been[c] \subseteq been'[c]
               /\ \A c \in QrCalls : (at[c] # "idle" => Kind(status'[about[c]]) \in been'[c])
               /\ ran' \in [Sessions -> SUBSET Kinds]
               /\ \A t \in Sessions : (prep[t] # "no" =>
                    Kind(status'[t]) \in ran'[t] /\ ran[t] \subseteq ran'[t])
    BY <2>2, MovesKeeps, Zenon
  <2> QED
    BY <2>1, <2>2
<1>2. PrepTypeOK' /\ \A t \in Sessions : RunKnows(t)'
  BY <1>1, StageKeeps
<1>3. QrTypeOK'
  BY <1>1, <1>2 DEF QrInv, QrTypeOK, PrepTypeOK, loop
<1>4. ASSUME NEW c \in QrCalls PROVE Placed(c)' /\ Heard(c)'
  <2>1. Placed(c)'
    BY DEF QrInv, Placed, loop
  <2>2. /\ at[c] # "idle" => Kind(status'[about[c]]) \in been'[c]
        /\ been[c] \subseteq been'[c]
    BY <1>1
  <2>3. Heard(c)'
    BY <2>2 DEF QrInv, Heard
  <2> QED
    BY <2>1, <2>3
<1> QED
  BY <1>2, <1>3, <1>4, Zenon DEF QrInv

LEMMA PrepGoesKeeps ==
  ASSUME QrInv, NEW s \in Sessions, PrepGoes(s) \/ PrepFails(s)
  PROVE  QrInv' /\ told' = Nothing
<1>1. /\ told' = Nothing
      /\ UNCHANGED <<captured, moves, lock, at, about, reply, loop, heard, lost>>
  BY Zenon DEF PrepGoes, PrepFails
<1>2. prep[s] # "no"
  BY DEF PrepGoes, PrepFails, Stages
<1>3. ASSUME NEW next \in Stages \cup Outcomes, Stage(s, next),
             next \in {"SCAN_QR_CODE", "WORKING"} => next = status[s]
      PROVE  QrInv'
  <2>1. prep' = [prep EXCEPT ![s] = next] /\ UNCHANGED <<status, been, ran>>
    BY <1>3 DEF Stage
  <2> QED
    BY <1>1, <1>2, <1>3, <2>1, RunKeeps
<1>4. ASSUME NEW new \in Statuses, Becomes(s, new),
             NEW next \in Stages, prep' = [prep EXCEPT ![s] = next]
      PROVE  QrInv'
  <2>1. next \in Stages \cup Outcomes /\ next \notin {"SCAN_QR_CODE", "WORKING"}
    BY DEF Stages
  <2> QED
    BY <1>1, <1>2, <1>4, <2>1, RunKeeps
<1>5. \/ \E new \in {"STOPPED", "STARTING"} : Becomes(s, new) /\
            \E next \in Stages : prep' = [prep EXCEPT ![s] = next]
      \/ \E next \in Stages \cup {GaveUp} : Stage(s, next)
      \/ \E next \in {"SCAN_QR_CODE", "WORKING"} : Stage(s, next) /\ next = status[s]
  BY DEF PrepGoes, PrepFails, Stages
<1>6. CASE \E next \in Stages \cup {GaveUp} : Stage(s, next)
  <2>1. PICK next \in Stages \cup {GaveUp} : Stage(s, next)
    BY <1>6
  <2>2. next \in Stages \cup Outcomes /\ next \notin {"SCAN_QR_CODE", "WORKING"}
    BY QrAssumption DEF Stages, Outcomes, Statuses, Waiting
  <2> QED
    BY <1>1, <1>3, <2>1, <2>2
<1>7. CASE \E next \in {"SCAN_QR_CODE", "WORKING"} : Stage(s, next) /\ next = status[s]
  BY <1>1, <1>3, <1>7 DEF Outcomes
<1>8. CASE \E new \in {"STOPPED", "STARTING"} : Becomes(s, new) /\
             \E next \in Stages : prep' = [prep EXCEPT ![s] = next]
  <2>1. {"STOPPED", "STARTING"} \subseteq Statuses
    BY DEF Statuses, Waiting, Dead
  <2> QED
    BY <1>1, <1>4, <1>8, <2>1
<1> QED
  BY <1>5, <1>6, <1>7, <1>8

LEMMA PrepEndsKeeps ==
  ASSUME QrInv, NEW s \in Sessions, PrepEnds(s)
  PROVE  QrInv' /\ told' = Nothing
<1>1. /\ prep[s] \in Outcomes
      /\ prep' = [prep EXCEPT ![s] = "no"] /\ ran' = [ran EXCEPT ![s] = {}]
      /\ reply' = [c \in QrCalls |-> IF Joins(c, s) THEN prep[s] ELSE reply[c]]
      /\ been' = [c \in QrCalls |-> IF Joins(c, s) THEN been[c] \cup ran[s] ELSE been[c]]
      /\ told' = Nothing
      /\ UNCHANGED <<waha, lock, at, about, loop, lost>>
  BY Zenon DEF PrepEnds
<1>2. heard' = [c \in QrCalls |-> heard[c] /\ ~(Joins(c, s) /\ prep[s] = GaveUp)]
  BY Zenon DEF PrepEnds
<1>3. heard' \in [QrCalls -> BOOLEAN]
  BY <1>2, Zenon
<1>4. \A c \in QrCalls : heard'[c] => (heard[c] /\ ~(Joins(c, s) /\ prep[s] = GaveUp))
  BY <1>2, Zenon
<1>5. PrepTypeOK'
  BY <1>1 DEF QrInv, QrTypeOK, PrepTypeOK
<1>6. ASSUME NEW t \in Sessions PROVE RunKnows(t)'
  BY <1>1 DEF QrInv, QrTypeOK, RunKnows, waha
<1>7. /\ reply' \in [QrCalls -> Statuses \cup {NoReply, GaveUp}]
      /\ been' \in [QrCalls -> SUBSET Kinds]
  BY <1>1 DEF QrInv, QrTypeOK, Outcomes, Statuses, Waiting
<1>8. QrTypeOK'
  BY <1>1, <1>3, <1>5, <1>7 DEF QrInv, QrTypeOK, PrepTypeOK, loop, waha
<1>9. ASSUME NEW c \in QrCalls PROVE Placed(c)' /\ Heard(c)'
  <2>1. Placed(c)'
    BY <1>1 DEF QrInv, Placed, loop
  <2>2. at' = at /\ about' = about /\ status' = status /\ Heard(c)
    BY <1>1 DEF waha, QrInv
  <2>3. CASE Joins(c, s)
    <3>1. reply'[c] = prep[s] /\ been'[c] = been[c] \cup ran[s] /\ at[c] = "ensure"
      BY <1>1, <2>3 DEF Joins
    <3>2. CASE prep[s] = GaveUp
      <4>1. ~heard'[c]
        BY <1>4, <2>3, <3>2
      <4>2. reply'[c] \notin Statuses
        BY <3>1, <3>2, QrAssumption
      <4> QED
        BY <2>1, <2>2, <3>1, <4>1, <4>2 DEF Heard
    <3>3. CASE prep[s] \in {"SCAN_QR_CODE", "WORKING"}
      <4>1. Kind(prep[s]) \in ran[s] /\ prep[s] # GaveUp
        BY <3>3, QrAssumption DEF QrInv, RunKnows, Statuses, Waiting
      <4> QED
        BY <2>1, <2>2, <3>1, <4>1 DEF Heard
    <3> QED
      BY <1>1, <3>2, <3>3 DEF Outcomes
  <2>4. CASE ~Joins(c, s)
    <3>1. reply'[c] = reply[c] /\ been'[c] = been[c]
      BY <1>1, <2>4
    <3>2. heard'[c] => heard[c]
      BY <1>4
    <3> QED
      BY <2>1, <2>2, <3>1, <3>2 DEF Heard
  <2> QED
    BY <2>3, <2>4
<1> QED
  BY <1>1, <1>6, <1>8, <1>9, Zenon DEF QrInv

LEMMA StartKeeps ==
  ASSUME QrInv, NEW c \in QrCalls, NEW s \in Sessions, Start(c, s)
  PROVE  QrInv' /\ told' = Nothing
<1>1. /\ at[c] = "idle" /\ told' = Nothing
      /\ at' = [at EXCEPT ![c] = "gate"] /\ about' = [about EXCEPT ![c] = s]
      /\ been' = [been EXCEPT ![c] = {Kind(status[s])}]
      /\ UNCHANGED <<waha, preparation, lock, reply, loop, heard, lost>>
  BY Zenon DEF Start
<1>0. PrepTypeOK' /\ \A t \in Sessions : RunKnows(t)'
  BY <1>1, PrepLeft DEF waha
<1>2. QrTypeOK'
  BY <1>0, <1>1, KindType DEF QrInv, QrTypeOK, PrepTypeOK, waha, loop, Places, Gates
<1>3. ASSUME NEW d \in QrCalls PROVE Placed(d)' /\ Heard(d)'
  <2>1. CASE d = c
    <3>1. at'[d] = "gate" /\ about'[d] = s /\ been'[d] = {Kind(status[s])} /\ at[d] = "idle"
      BY <1>1, <2>1 DEF QrInv, QrTypeOK
    <3>2. reply'[d] = NoReply
      BY <1>1, <3>1 DEF QrInv, Heard
    <3> QED
      BY <1>1, <3>1, <3>2, QrAssumption DEF QrInv, Placed, Heard, Early, waha, loop
  <2>2. CASE d # c
    BY <1>1, <2>2 DEF QrInv, QrTypeOK, Placed, Heard, waha, loop
  <2> QED
    BY <2>1, <2>2
<1> QED
  BY <1>0, <1>1, <1>2, <1>3, Zenon DEF QrInv

LEMMA QrInvStep ==
  ASSUME QrInv, [QrNext]_qrVars
  PROVE  QrInv' /\ (told' = told \/ told' = Nothing \/ True(told'))
<1>1. ASSUME NEW s \in Sessions, Moves(s) \/ LogShows(s) PROVE QrInv' /\ told' = Nothing
  BY <1>1, WorldKeeps
<1>0. ASSUME NEW s \in Sessions, Preparing(s) PROVE QrInv' /\ told' = Nothing
  BY <1>0, ConnectKeeps, PrepGoesKeeps, PrepEndsKeeps DEF Preparing
<1>2. ASSUME NEW c \in QrCalls, NEW s \in Sessions, Start(c, s) PROVE QrInv' /\ told' = Nothing
  BY <1>2, StartKeeps
<1>3. ASSUME NEW c \in QrCalls, Serve(c) \/ Lose(c) PROVE QrInv' /\ told' = Nothing
  BY <1>3, ServeKeeps, LoseKeeps
<1>4. ASSUME NEW c \in QrCalls, Step(c) PROVE QrInv' /\ (told' = Nothing \/ True(told'))
  BY <1>4, StepKeeps
<1>5. CASE UNCHANGED qrVars
  BY <1>5 DEF qrVars, waha, preparation, loop, history, QrInv, QrTypeOK, Placed, Heard, RunKnows
<1> QED
  BY <1>0, <1>1, <1>2, <1>3, <1>4, <1>5, Zenon DEF QrNext

LEMMA QrInvInit == ASSUME QrInit PROVE QrInv /\ told = Nothing
<1>1. QrTypeOK
  <2>1. heard \in [QrCalls -> BOOLEAN] /\ captured \in BOOLEAN
    BY Zenon DEF QrInit
  <2>2. status \in [Sessions -> Statuses]
    BY DEF QrInit, Statuses, Waiting, Dead
  <2>3. /\ lock \in [Sessions -> QrCalls \cup {NoCall}]
        /\ at \in [QrCalls -> Places] /\ about \in [QrCalls -> Sessions \cup {NoSession}]
        /\ reply \in [QrCalls -> Statuses \cup {NoReply, GaveUp}]
        /\ been \in [QrCalls -> SUBSET Kinds]
    BY DEF QrInit, Places
  <2>4. /\ tries \in [QrCalls -> 0 .. Tries] /\ fails \in [QrCalls -> 0 .. FailStop]
        /\ moves \in 0 .. MaxMoves /\ lost \in 0 .. MaxLost
    BY QrAssumption DEF QrInit
  <2>5. PrepTypeOK
    BY DEF QrInit, PrepTypeOK
  <2> QED
    BY <2>1, <2>2, <2>3, <2>4, <2>5, Zenon DEF QrInit, QrTypeOK, PrepTypeOK
<1>2. ASSUME NEW c \in QrCalls PROVE Placed(c) /\ Heard(c)
  BY QrAssumption DEF QrInit, Placed, Heard
<1>3. \A s \in Sessions : RunKnows(s)
  BY DEF QrInit, RunKnows
<1> QED
  BY <1>1, <1>2, <1>3, Zenon DEF QrInv, QrInit

LEMMA NothingTrue == True(Nothing)
BY DEF True, Nothing

----------------------------------------------------------------------------
\* The locks: each is held by a call that works on its session, and each call
\* that joined has one.

\* Steps after which every lock is as it was, and every call that holds one or
\* joined is where it was, or still holds it.
LEMMA LocksKept ==
  ASSUME QrInv, JoinedAreServed, lock' = lock,
         \A d \in QrCalls : at[d] \in Holds => at'[d] \in Holds /\ about'[d] = about[d],
         \A d \in QrCalls : at'[d] = "joined" => at[d] = "joined" /\ about'[d] = about[d]
  PROVE  JoinedAreServed'
<1>1. ASSUME NEW s \in Sessions, lock[s] # NoCall
      PROVE  about'[lock[s]] = s /\ at'[lock[s]] \in Holds
  <2>1. lock[s] \in QrCalls /\ about[lock[s]] = s /\ at[lock[s]] \in Holds
    BY <1>1 DEF QrInv, QrTypeOK, JoinedAreServed, Holds
  <2> QED
    BY <2>1
<1> QED
  BY <1>1 DEF JoinedAreServed, Holds

LEMMA EnterLocks ==
  ASSUME QrInv, JoinedAreServed, NEW c \in QrCalls, at[c] \in Gates, Enter(c)
  PROVE  JoinedAreServed'
<1> DEFINE s == about[c]
<1>1. /\ at' = [at EXCEPT ![c] = IF lock[s] = NoCall THEN "ensure" ELSE "joined"]
      /\ lock' = [lock EXCEPT ![s] = IF lock[s] = NoCall THEN c ELSE lock[s]]
      /\ about' = about
  <2>1. lock \in [Sessions -> QrCalls \cup {NoCall}]
    BY DEF QrInv, QrTypeOK
  <2> QED
    BY <2>1 DEF Enter, Took
<1>2. s \in Sessions /\ at[c] \notin Holds /\ lock \in [Sessions -> QrCalls \cup {NoCall}]
  BY DEF QrInv, QrTypeOK, Placed, Gates, Holds, Locked
<1>3. at \in [QrCalls -> Places] /\ c # NoCall
  BY QrAssumption DEF QrInv, QrTypeOK
<1> HIDE DEF s
<1>4. ASSUME NEW t \in Sessions, lock'[t] # NoCall
      PROVE  about'[lock'[t]] = t /\ at'[lock'[t]] \in Holds
  <2>1. CASE t = s /\ lock[s] = NoCall
    <3>1. lock'[t] = c /\ at'[c] = "ensure"
      BY <1>1, <1>2, <1>3, <2>1
    <3> QED
      BY <1>1, <2>1, <3>1 DEF Holds, Locked, s
  <2>2. CASE ~(t = s /\ lock[s] = NoCall)
    <3>1. lock'[t] = lock[t]
      BY <1>1, <1>2, <2>2
    <3>2. lock[t] \in QrCalls /\ about[lock[t]] = t /\ at[lock[t]] \in Holds
      BY <1>2, <1>4, <3>1 DEF JoinedAreServed, Holds
    <3> QED
      BY <1>1, <1>2, <1>3, <3>1, <3>2
  <2> QED
    BY <2>1, <2>2
<1>5. ASSUME NEW d \in QrCalls, at'[d] = "joined"
      PROVE  lock'[about'[d]] # NoCall
  <2>1. CASE d = c
    BY <1>1, <1>2, <1>3, <2>1 DEF s
  <2>2. CASE d # c
    <3>1. at[d] = "joined" /\ lock[about[d]] # NoCall /\ about[d] \in Sessions
      BY <1>1, <1>3, <1>5, <2>2 DEF JoinedAreServed, QrInv, Placed
    <3> QED
      BY <1>1, <1>2, <1>3, <3>1
  <2> QED
    BY <2>1, <2>2
<1> QED
  BY <1>4, <1>5 DEF JoinedAreServed, Holds

LEMMA AnsweredLocks ==
  ASSUME QrInv, JoinedAreServed, NEW c \in QrCalls, Answered(c)
  PROVE  JoinedAreServed'
<1>1. PICK state \in States, logs \in BOOLEAN : Tell(c, state, logs)
  BY Zenon DEF Answered
<1>2. /\ \A s \in Sessions : lock'[s] = IF lock[s] = c THEN NoCall ELSE lock[s]
      /\ \A d \in QrCalls :
           \/ at'[d] = "idle" /\ (d = c \/ (at[d] = "joined" /\ lock[about[d]] = c))
           \/ /\ d # c /\ ~(at[d] = "joined" /\ lock[about[d]] = c)
              /\ at'[d] = at[d] /\ about'[d] = about[d]
  BY <1>1, TellFacts
<1>3. ASSUME NEW s \in Sessions, lock'[s] # NoCall
      PROVE  about'[lock'[s]] = s /\ at'[lock'[s]] \in Holds
  <2>1. lock'[s] = lock[s] /\ lock[s] # c
    BY <1>2, <1>3
  <2>2. lock[s] \in QrCalls /\ about[lock[s]] = s /\ at[lock[s]] \in Holds
    BY <1>3, <2>1 DEF QrInv, QrTypeOK, JoinedAreServed, Holds
  <2>3. at[lock[s]] # "joined"
    BY <2>2 DEF Holds, Locked
  <2> QED
    BY <1>2, <2>1, <2>2, <2>3
<1>4. ASSUME NEW d \in QrCalls, at'[d] = "joined"
      PROVE  lock'[about'[d]] # NoCall
  <2>1. at[d] = "joined" /\ about'[d] = about[d] /\ lock[about[d]] # c
    BY <1>2, <1>4
  <2>2. about[d] \in Sessions /\ lock[about[d]] # NoCall
    BY <2>1 DEF QrInv, Placed, JoinedAreServed
  <2> QED
    BY <1>2, <2>1, <2>2
<1> QED
  BY <1>3, <1>4 DEF JoinedAreServed, Holds

LEMMA LocksStep ==
  ASSUME QrInv, JoinedAreServed, [QrNext]_qrVars
  PROVE  JoinedAreServed'
<1>1. ASSUME NEW c \in QrCalls, Step(c) PROVE JoinedAreServed'
  <2>1. CASE Answered(c)
    BY <2>1, AnsweredLocks
  <2>2. CASE at[c] \in Gates /\ Enter(c)
    BY <2>2, EnterLocks
  <2>3. ASSUME NEW p \in Places, Through(c, p),
               (at[c] \in Gates /\ p \in Gates) \/ (at[c] \in Holds /\ p \in Holds)
        PROVE  JoinedAreServed'
    <3>1. lock' = lock /\ about' = about /\ at' = [at EXCEPT ![c] = p]
      BY <2>3 DEF Through, Took
    <3>2. p # "joined" /\ (at[c] \in Holds => p \in Holds) /\ at \in [QrCalls -> Places]
      BY <2>3 DEF Gates, Holds, Locked, QrInv, QrTypeOK
    <3> QED
      BY <3>1, <3>2, LocksKept
  <2> QED
    BY <1>1, <2>1, <2>2, <2>3, StepKinds DEF Places, Holds
<1>2. ASSUME NEW s \in Sessions, Moves(s) \/ LogShows(s) PROVE JoinedAreServed'
  BY <1>2 DEF Moves, LogShows, JoinedAreServed
<1>0. ASSUME NEW s \in Sessions, Preparing(s) PROVE JoinedAreServed'
  <2>1. UNCHANGED <<lock, at, about>>
    BY <1>0, Zenon DEF Preparing, ConnectPrepares, PrepGoes, PrepFails, PrepEnds
  <2> QED
    BY <2>1 DEF JoinedAreServed
<1>3. ASSUME NEW c \in QrCalls, Serve(c) \/ Lose(c) PROVE JoinedAreServed'
  BY <1>3 DEF Serve, Lose, JoinedAreServed
<1>4. ASSUME NEW c \in QrCalls, NEW s \in Sessions, Start(c, s) PROVE JoinedAreServed'
  <2>1. /\ at[c] = "idle" /\ at' = [at EXCEPT ![c] = "gate"] /\ lock' = lock
        /\ about' = [about EXCEPT ![c] = s]
        /\ at \in [QrCalls -> Places] /\ about \in [QrCalls -> Sessions \cup {NoSession}]
    BY <1>4 DEF Start, QrInv, QrTypeOK
  <2> QED
    BY <2>1, LocksKept DEF Holds, Locked
<1>5. CASE UNCHANGED qrVars
  BY <1>5 DEF qrVars, JoinedAreServed
<1> QED
  BY <1>0, <1>1, <1>2, <1>3, <1>4, <1>5, Zenon DEF QrNext

----------------------------------------------------------------------------
\* Theorems.

\* Every call of getQrCode is where the code can bring it, its tries and its
\* failures within the limits of waitForWahaQr.
THEOREM QrTypes == QrSpec => []QrTypeOK
<1>1. QrInit => QrInv
  BY QrInvInit
<1>2. QrInv /\ [QrNext]_qrVars => QrInv'
  BY QrInvStep
<1>3. QrInv => QrTypeOK
  BY DEF QrInv
<1> QED
  BY <1>1, <1>2, <1>3, PTL DEF QrSpec

\* What finalize tells the callers was so at some moment of their flow, or of the
\* preparation it joined: a reply that a decision rests on was given while the
\* call ran, or the outcome of the preparation was found while that ran.
THEOREM AnswersHold == QrSpec => []AnswersTrue
<1> DEFINE I == QrInv /\ True(told)
<1>1. QrInit => I
  <2>1. QrInit => QrInv /\ told = Nothing
    BY QrInvInit
  <2> QED
    BY <2>1, NothingTrue
<1>2. I /\ [QrNext]_qrVars => I'
  <2> SUFFICES ASSUME I, [QrNext]_qrVars PROVE I'
    OBVIOUS
  <2>1. QrInv' /\ (told' = told \/ told' = Nothing \/ True(told'))
    BY QrInvStep
  <2>2. True(told)'
    BY <2>1, NothingTrue
  <2> QED
    BY <2>1, <2>2
<1>3. I => AnswersTrue
  BY DEF True, AnswersTrue
<1> QED
  BY <1>1, <1>2, <1>3, PTL DEF QrSpec

\* A call that joined another waits for one that works on that session and will
\* tell it: withWahaSessionLock drops no lock before its flow has ended, and
\* leaves none behind.
THEOREM JoinedServed == QrSpec => []JoinedAreServed
<1> DEFINE I == QrInv /\ JoinedAreServed
<1>1. QrInit => I
  <2>1. QrInit => QrInv
    BY QrInvInit
  <2>2. QrInit => JoinedAreServed
    BY DEF QrInit, JoinedAreServed
  <2> QED
    BY <2>1, <2>2
<1>2. I /\ [QrNext]_qrVars => I'
  BY QrInvStep, LocksStep
<1>3. I => JoinedAreServed
  OBVIOUS
<1> QED
  BY <1>1, <1>2, <1>3, PTL DEF QrSpec
===============================================================================
