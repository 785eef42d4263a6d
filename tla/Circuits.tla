------------------------------ MODULE Circuits ------------------------------
(***************************************************************************)
(* What stands between a WAHA connect and WAHA, in one process: the        *)
(* session circuit (services/whatsapp/sessionProviderCircuitBreaker.js),   *)
(* asked by connectWahaChannel, and the cached health check with its own   *)
(* circuit and its automatic reconnect                                     *)
(* (services/providerHealth.service.js), asked by the connect, by the      *)
(* providers panel and by the administrators' reconnect (server.js).       *)
(* Both live in memory and know nothing of each other, but an error of     *)
(* the second, a cached one or a refusal included, is a failure for the    *)
(* first.  Preparing the session is a single step here, with its outcomes: *)
(* module SessionPrepare models what it does.                              *)
(***************************************************************************)
EXTENDS Naturals, FiniteSets

CONSTANTS
  Calls,        \* requests in progress at once
  Threshold,    \* countable failures that open the session circuit (5)
  SessionOpen,  \* ticks it stays open (45 s)
  CacheTTL,     \* ticks a health answer is cached (10 s)
  HealthOpen,   \* ticks the health circuit stays open (30 s)
  Cooldown,     \* ticks between two automatic reconnects (60 s)
  StepTime      \* ticks a request to WAHA or a row of the log may take (5 s)

\* The times of the code satisfy the last two: 10 s and 5 s against 30 s.
ASSUME CircuitsAssumption ==
  /\ {Threshold, SessionOpen, CacheTTL, HealthOpen, Cooldown} \subseteq Nat \ {0}
  /\ StepTime \in Nat
  /\ CacheTTL <= HealthOpen
  /\ StepTime <= HealthOpen

VARIABLES
  calls,      \* each request: what it is for, what it awaits, for how long still
  breaker,    \* bucket of the session circuit
  health,     \* healthCache and providerState of WAHA
  cooldown,   \* ticks left of the reconnect's cooldown
  inFlight,   \* autoReconnectInFlight
  calm        \* ticks since WAHA last failed a request or a preparation

vars == <<calls, breaker, health, cooldown, inFlight, calm>>

-----------------------------------------------------------------------------
(* The two circuits.                                                       *)

Fewer(a, b) == IF a < b THEN a ELSE b
Less(n) == IF n = 0 THEN 0 ELSE n - 1

Closed == [phase |-> "closed", failures |-> 0, left |-> 0, attempts |-> 0]
Open(f) == [phase |-> "open", failures |-> f, left |-> SessionOpen, attempts |-> 0]

\* The circuit refuses while it is open and its time runs.
Refuses(b) == b.phase = "open" /\ b.left > 0

\* What an admitted connect leaves: the first after the time half-opens the
\* circuit, and the fourth that finds it half open closes it.
Admit(b) ==
  LET n == IF b.phase = "open" THEN 1 ELSE b.attempts + 1 IN
  IF b.phase = "closed" THEN b
  ELSE IF n > 3 THEN Closed
  ELSE [phase |-> "half_open", left |-> 0, attempts |-> n,
        failures |-> IF b.phase = "open" THEN 0 ELSE b.failures]

\* A countable failure, whatever the state the connect was admitted in.
Failed(b) ==
  LET f == Fewer(b.failures + 1, Threshold) IN
  IF b.phase = "half_open" \/ f >= Threshold THEN Open(f)
  ELSE [b EXCEPT !.failures = f]

\* The errors that tell of a provider in trouble count, a refused key closes a
\* half-open circuit, all others leave it as it is.
Errors == {"trouble", "auth", "other"}
Counts(e) == e = "trouble"
Recorded(b, e) ==
  IF Counts(e) THEN Failed(b)
  ELSE IF e = "auth" /\ b.phase = "half_open" THEN Closed
  ELSE b

Unknown == [answer |-> "none", fresh |-> 0, failures |-> 0, shut |-> 0]

\* status is "down" from the third failure on.
Down(h) == h.failures >= 3

\* The check throws at once while the circuit is open.
ShortCircuits(h) == Down(h) /\ h.shut > 0

Succeeded(h) == [h EXCEPT !.failures = 0, !.shut = 0]
Cached(h, a) == [h EXCEPT !.answer = a, !.fresh = CacheTTL]
FailedProbe(h) == [Cached(h, "error") EXCEPT !.failures = Fewer(@ + 1, 3)]
Shut(h) == [h EXCEPT !.shut = HealthOpen]

-----------------------------------------------------------------------------
Idle == [op |-> "none", at |-> "idle", left |-> 0]

Become(c, op, at) == calls' = [calls EXCEPT ![c] = [op |-> op, at |-> at, left |-> StepTime]]
Ends(c) == calls' = [calls EXCEPT ![c] = Idle]

\* The check answers: a connect goes on to prepare its session.
Passes(c, op) ==
  /\ IF op = "connect" THEN Become(c, op, "prepare") ELSE Ends(c)
  /\ UNCHANGED breaker

\* The check throws: the connect calls it PROVIDER_UNAVAILABLE whatever the
\* error was, a refused key and an open circuit included.
Throws(c, op) ==
  /\ Ends(c)
  /\ breaker' = IF op = "connect" THEN Recorded(breaker, "trouble") ELSE breaker

\* Mutant of CheckBegins: the circuit is asked inside the try, so that a
\* refusal is one more failure and opens the circuit again.
CheckBeginsInTry(c, op) ==
  \/ /\ ShortCircuits(health)
     /\ health' = Shut(FailedProbe(health))
     /\ Throws(c, op)
  \/ /\ ~ShortCircuits(health)
     /\ \/ health.fresh > 0 /\ health.answer = "error" /\ Throws(c, op)
        \/ health.fresh > 0 /\ health.answer = "ok" /\ Passes(c, op)
        \/ health.fresh = 0 /\ Become(c, op, "probe") /\ UNCHANGED breaker
     /\ UNCHANGED health

\* checkProviderHealth up to its first await: the circuit, then the cache.
CheckBegins(c, op) ==
  /\ \/ ShortCircuits(health) /\ Throws(c, op)
     \/ /\ ~ShortCircuits(health)
        /\ \/ health.fresh > 0 /\ health.answer = "error" /\ Throws(c, op)
           \/ health.fresh > 0 /\ health.answer = "ok" /\ Passes(c, op)
           \/ health.fresh = 0 /\ Become(c, op, "probe") /\ UNCHANGED breaker
  /\ UNCHANGED health

-----------------------------------------------------------------------------
(* Connects.                                                               *)

\* connectWahaChannel is admitted; the FREE mode's DELETE comes first.
Connect(c) ==
  /\ calls[c] = Idle
  /\ ~Refuses(breaker)
  /\ breaker' = Admit(breaker)
  /\ Become(c, "connect", "reset")
  /\ UNCHANGED <<health, cooldown, inFlight, calm>>

\* The DELETE has answered or failed, either is the same.
ResetDone(c) ==
  /\ calls[c].at = "reset"
  /\ CheckBegins(c, "connect")
  /\ UNCHANGED <<cooldown, inFlight, calm>>

\* The connect gives up on the health check, which goes on for nobody.
HealthTimeout(c) ==
  /\ calls[c].op = "connect"
  /\ calls[c].at \in {"probe", "retry", "note"}
  /\ breaker' = Recorded(breaker, "trouble")
  /\ calls' = [calls EXCEPT ![c].op = "check"]
  /\ calm' = IF calls[c].at = "note" THEN calm ELSE 0
  /\ UNCHANGED <<health, cooldown, inFlight>>

Prepared(c) ==
  /\ calls[c].at = "prepare"
  /\ Ends(c)
  /\ breaker' = Closed
  /\ UNCHANGED <<health, cooldown, inFlight, calm>>

\* The preparation, or the time of the whole connect, ends in an error.
PrepareFails(c, e) ==
  /\ calls[c].at = "prepare"
  /\ Ends(c)
  /\ breaker' = Recorded(breaker, e)
  /\ calm' = IF Counts(e) THEN 0 ELSE calm
  /\ UNCHANGED <<health, cooldown, inFlight>>

-----------------------------------------------------------------------------
(* Health checks.                                                          *)

\* The providers panel, or the start of the server, asks for the health.
Panel(c) ==
  /\ calls[c] = Idle
  /\ CheckBegins(c, "check")
  /\ UNCHANGED <<cooldown, inFlight, calm>>

\* An administrator's reconnect forgets what is known and asks again.
Reconnect(c) ==
  /\ calls[c] = Idle
  /\ health' = Unknown
  /\ Become(c, "check", "probe")
  /\ UNCHANGED <<breaker, cooldown, inFlight, calm>>

ProbeAnswers(c) ==
  /\ calls[c].at = "probe"
  /\ health' = Succeeded(Cached(health, "ok"))
  /\ Passes(c, calls[c].op)
  /\ UNCHANGED <<cooldown, inFlight, calm>>

\* tryAutoReconnect goes on: the provider is down, its circuit not open, no
\* other reconnect runs or ran lately.  The delay before the next one is on
\* the object that the reconnect itself throws away, so it delays nothing.
MayRetry(h) == Down(h) /\ h.shut = 0 /\ ~inFlight /\ cooldown = 0

\* A failed probe is cached and counted.  When the provider is down and the
\* circuit is not open, a reconnect is tried, which first forgets what is
\* known of the provider; if none may run, the circuit opens.
ProbeFails(c) ==
  LET h == FailedProbe(health) IN
  /\ calls[c].at = "probe"
  /\ calm' = 0
  /\ \/ /\ MayRetry(h)
        /\ health' = Unknown
        /\ inFlight' = TRUE
        /\ cooldown' = Cooldown
        /\ Become(c, calls[c].op, "retry")
        /\ UNCHANGED breaker
     \/ /\ ~MayRetry(h)
        /\ health' = IF Down(h) /\ h.shut = 0 THEN Shut(h) ELSE h
        /\ Throws(c, calls[c].op)
        /\ UNCHANGED <<inFlight, cooldown>>

\* The reconnect's own probe; its failure is not counted.
RetryAnswers(c) ==
  /\ calls[c].at = "retry"
  /\ health' = Succeeded(health)
  /\ Become(c, calls[c].op, "note")
  /\ UNCHANGED <<breaker, cooldown, inFlight, calm>>

RetryFails(c) ==
  /\ calls[c].at = "retry"
  /\ calm' = 0
  /\ Become(c, calls[c].op, "note")
  /\ UNCHANGED <<breaker, health, cooldown, inFlight>>

\* The attempt is in the log: the check throws its first error, and opens
\* the circuit if others have found the provider down meanwhile.
NoteDone(c) ==
  /\ calls[c].at = "note"
  /\ inFlight' = FALSE
  /\ health' = IF Down(health) THEN Shut(health) ELSE health
  /\ Throws(c, calls[c].op)
  /\ UNCHANGED <<cooldown, calm>>

-----------------------------------------------------------------------------
\* Ticks after the last failure of WAHA in which something may still refuse:
\* the row of the log, the health circuit, then the session circuit that a
\* refusal of the health circuit has opened again.
Patience == StepTime + HealthOpen + SessionOpen

Waits(c) == calls[c].at \in {"probe", "retry", "note"}

\* Time passes; requests and the log end within StepTime.
Tick ==
  /\ \A c \in Calls : Waits(c) => calls[c].left > 0
  /\ calls' = [c \in Calls |->
       IF Waits(c) THEN [calls[c] EXCEPT !.left = @ - 1] ELSE calls[c]]
  /\ breaker' = [breaker EXCEPT !.left = Less(@)]
  /\ health' = [health EXCEPT !.fresh = Less(@), !.shut = Less(@),
                              !.answer = IF health.fresh <= 1 THEN "none" ELSE @]
  /\ cooldown' = Less(cooldown)
  /\ calm' = Fewer(calm + 1, Patience + 1)
  /\ UNCHANGED inFlight

\* The process restarts: everything above is memory.
Restart ==
  /\ calls' = [c \in Calls |-> Idle]
  /\ breaker' = Closed
  /\ health' = Unknown
  /\ cooldown' = 0
  /\ inFlight' = FALSE
  /\ UNCHANGED calm

Init ==
  /\ calls = [c \in Calls |-> Idle]
  /\ breaker = Closed
  /\ health = Unknown
  /\ cooldown = 0
  /\ inFlight = FALSE
  /\ calm = Patience + 1

Next ==
  \/ Tick
  \/ Restart
  \/ \E c \in Calls :
       \/ Connect(c) \/ ResetDone(c) \/ HealthTimeout(c)
       \/ Prepared(c) \/ \E e \in Errors : PrepareFails(c, e)
       \/ Panel(c) \/ Reconnect(c)
       \/ ProbeAnswers(c) \/ ProbeFails(c)
       \/ RetryAnswers(c) \/ RetryFails(c) \/ NoteDone(c)

Spec == Init /\ [][Next]_vars

-----------------------------------------------------------------------------
\* The circuits have the values the code gives them; in particular the session
\* circuit is never half open for more than three tests.
TypeOK ==
  /\ calls \in [Calls -> [op : {"none", "connect", "check"},
                          at : {"idle", "reset", "probe", "retry", "note", "prepare"},
                          left : 0..StepTime]]
  /\ breaker \in [phase : {"closed", "open", "half_open"}, failures : 0..Threshold,
                  left : 0..SessionOpen, attempts : 0..3]
  /\ health \in [answer : {"none", "ok", "error"}, fresh : 0..CacheTTL,
                 failures : 0..3, shut : 0..HealthOpen]
  /\ cooldown \in 0..Cooldown
  /\ inFlight \in BOOLEAN
  /\ calm \in 0..(Patience + 1)

\* A connect or a check is refused, or answered with an old error.
Blocked ==
  \/ Refuses(breaker)
  \/ ShortCircuits(health)
  \/ health.fresh > 0 /\ health.answer = "error"

\* The circuits do not feed on each other: a refusal of the health circuit and a
\* cached error count as failures for the session circuit, which may open again
\* on them, and yet once WAHA has failed nothing for Patience ticks, nothing
\* refuses a connect or a check (connectWahaChannel, checkProviderHealth).
Settles == calm > Patience => ~Blocked
=============================================================================
