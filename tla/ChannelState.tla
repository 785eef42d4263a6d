---------------------------- MODULE ChannelState ----------------------------
(***************************************************************************)
(* The state of a channel's connection, as the dashboard polls it:         *)
(* channelOrchestrator asks the provider and coalesces the polls of a      *)
(* channel, channelStateCache keeps the answer, providerHealth is the      *)
(* circuit breaker of each provider, and the sockets tell the clients.     *)
(*                                                                         *)
(* One process; its memory is lost when it restarts.  Time passes in Tick. *)
(* The connection itself (start, stop, webhooks of the session) is not     *)
(* here, nor is what the monitoring counters are used for.                 *)
(***************************************************************************)
EXTENDS Naturals, FiniteSets

CONSTANTS
  Calls,        \* requests to /connection-state, /qrcode and /status
  NoCall,
  Channels, NoChannel, Providers,
  ProviderOf,   \* the provider of a channel
  QrCodes,      \* QR codes a provider may return
  NoQr,
  Threshold,    \* FAILURE_THRESHOLD
  Window,       \* OPEN_WINDOW_MS, in ticks
  TTL,          \* life of a cached state
  ProbeTimeout, \* the longer of the two timeouts of a probe
  AutoHealing,  \* channels whose tenant has the autoHealing feature
  MaxFaults     \* outages of Redis and restarts together

ASSUME ChannelAssumption ==
  /\ NoCall \notin Calls /\ NoQr \notin QrCodes /\ NoChannel \notin Channels
  /\ ProviderOf \in [Channels -> Providers]
  /\ Threshold \in Nat /\ TTL \in Nat /\ MaxFaults \in Nat
  /\ AutoHealing \subseteq Channels /\ IsFiniteSet(Calls)
  /\ ProbeTimeout \in Nat /\ Window \in Nat /\ ProbeTimeout < Window

VARIABLES
  at,          \* where each request is
  chan,        \* the channel it asks for
  result,      \* the state its probe resolved
  previous,    \* the cached state that result replaced
  probeAge,    \* age of its probe
  inFlight,    \* the request whose promise is shared, per channel
  cached, cachedAge,
  shown,       \* the last state sent to the clients, per channel
  circuit, failureCount, failureAge,
  halfOpenInFlight, \* providers whose flag is set
  connectJobs, \* channels with a CONNECT job that auto-healing asked for
  redisUp, faults

request == <<at, chan, result, previous, probeAge>>
cache == <<inFlight, cached, cachedAge, shown>>
health == <<circuit, failureCount, failureAge, halfOpenInFlight>>
environment == <<connectJobs, redisUp, faults>>
vars == <<request, cache, health, environment>>

Working == {"probing", "gate", "tracking"}
Places == Working \cup {"idle", "joined"}
Answers == {"connected", "waiting", "error", "connecting"}
NoState == [status |-> "none", qr |-> NoQr]
States == [status : Answers, qr : QrCodes \cup {NoQr}]

Provider(c) == ProviderOf[chan[c]]
Goes(c, place) == at' = [at EXCEPT ![c] = place]
Probing(p) == {c \in Calls : at[c] = "probing" /\ Provider(c) = p}

TypeOK ==
  /\ at \in [Calls -> Places]
  /\ chan \in [Calls -> Channels \cup {NoChannel}]
  /\ result \in [Calls -> States \cup {NoState}]
  /\ previous \in [Calls -> States \cup {NoState}]
  /\ probeAge \in [Calls -> 0 .. ProbeTimeout]
  /\ inFlight \in [Channels -> Calls \cup {NoCall}]
  /\ cached \in [Channels -> States \cup {NoState}]
  /\ cachedAge \in [Channels -> 0 .. TTL + 1]
  /\ shown \in [Channels -> States \cup {NoState}]
  /\ circuit \in [Providers -> {"CLOSED", "OPEN", "HALF_OPEN"}]
  /\ failureCount \in [Providers -> 0 .. Threshold + 1]
  /\ failureAge \in [Providers -> 0 .. Window]
  /\ halfOpenInFlight \subseteq Providers
  /\ connectJobs \subseteq Channels
  /\ redisUp \in BOOLEAN
  /\ faults \in 0 .. MaxFaults

Init ==
  /\ at = [c \in Calls |-> "idle"]
  /\ chan = [c \in Calls |-> NoChannel]
  /\ result = [c \in Calls |-> NoState]
  /\ previous = [c \in Calls |-> NoState]
  /\ probeAge = [c \in Calls |-> 0]
  /\ inFlight = [ch \in Channels |-> NoCall]
  /\ cached = [ch \in Channels |-> NoState]
  /\ cachedAge = [ch \in Channels |-> 0]
  /\ shown = [ch \in Channels |-> NoState]
  /\ circuit = [p \in Providers |-> "CLOSED"]
  /\ failureCount = [p \in Providers |-> 0]
  /\ failureAge = [p \in Providers |-> 0]
  /\ halfOpenInFlight = {}
  /\ connectJobs = {} /\ redisUp = TRUE
  /\ faults = 0

----------------------------------------------------------------------------
\* providerHealth: the circuit breaker of provider p.

Elapsed(p) == failureAge[p] = Window

\* Mutant: HALF_OPEN admits without setting the flag.
AdmitsAlways(p) ==
  /\ \/ circuit[p] \in {"CLOSED", "HALF_OPEN"} /\ UNCHANGED circuit
     \/ circuit[p] = "OPEN" /\ Elapsed(p)
        /\ circuit' = [circuit EXCEPT ![p] = "HALF_OPEN"]
  /\ UNCHANGED <<failureCount, failureAge, halfOpenInFlight>>

\* canAttempt answers true.  The first test of an open circuit is admitted
\* with the flag down, so a second one is admitted, which raises it.
CanAttempt(p) ==
  /\ \/ circuit[p] = "CLOSED" /\ UNCHANGED <<circuit, halfOpenInFlight>>
     \/ /\ circuit[p] = "OPEN" /\ Elapsed(p)
        /\ circuit' = [circuit EXCEPT ![p] = "HALF_OPEN"]
        /\ halfOpenInFlight' = halfOpenInFlight \ {p}
     \/ /\ circuit[p] = "HALF_OPEN" /\ p \notin halfOpenInFlight
        /\ halfOpenInFlight' = halfOpenInFlight \cup {p}
        /\ UNCHANGED circuit
  /\ UNCHANGED <<failureCount, failureAge>>

MarkSuccess(p) ==
  /\ circuit' = [circuit EXCEPT ![p] = "CLOSED"]
  /\ failureCount' = [failureCount EXCEPT ![p] = 0]
  /\ halfOpenInFlight' = halfOpenInFlight \ {p}
  /\ UNCHANGED failureAge

\* Counts above the threshold are not told apart.
Counted(n) == IF n > Threshold THEN n ELSE n + 1

\* Mutant: a failed test leaves the flag up.
MarkFailureKeepsFlag(p) ==
  /\ failureCount' = [failureCount EXCEPT ![p] = Counted(@)]
  /\ failureAge' = [failureAge EXCEPT ![p] = 0]
  /\ IF failureCount'[p] > Threshold \/ circuit[p] = "HALF_OPEN"
       THEN circuit' = [circuit EXCEPT ![p] = "OPEN"] ELSE UNCHANGED circuit
  /\ UNCHANGED halfOpenInFlight

MarkFailure(p) ==
  /\ failureCount' = [failureCount EXCEPT ![p] = Counted(@)]
  /\ failureAge' = [failureAge EXCEPT ![p] = 0]
  /\ halfOpenInFlight' = halfOpenInFlight \ {p}
  /\ IF failureCount'[p] > Threshold \/ circuit[p] = "HALF_OPEN"
       THEN circuit' = [circuit EXCEPT ![p] = "OPEN"] ELSE UNCHANGED circuit

\* getProviderCircuitState, which the metrics endpoint calls: a read that may
\* move the circuit, and leaves the flag alone.
GetProviderCircuitState(p) ==
  /\ circuit[p] = "OPEN" /\ Elapsed(p)
  /\ circuit' = [circuit EXCEPT ![p] = "HALF_OPEN"]
  /\ UNCHANGED <<request, cache, failureCount, failureAge, halfOpenInFlight,
                 environment>>

----------------------------------------------------------------------------
\* resolveConnectionState.  A request that finds a fresh state in the cache, or
\* that canAttempt refuses, is answered at once and changes nothing.

Fresh(ch) == cached[ch] # NoState /\ cachedAge[ch] <= TTL

Asks(c, ch, place) ==
  /\ at[c] = "idle" /\ ~Fresh(ch)
  /\ Goes(c, place) /\ chan' = [chan EXCEPT ![c] = ch]
  /\ UNCHANGED <<result, previous, probeAge, cached, cachedAge, shown, environment>>

\* The probe of another request is in flight: this one waits for its answer.
Join(c, ch) ==
  /\ inFlight[ch] # NoCall
  /\ Asks(c, ch, "joined")
  /\ UNCHANGED <<inFlight, health>>

\* Mutant: getInFlight is not asked.
StartAlways(c, ch) ==
  /\ Asks(c, ch, "probing")
  /\ CanAttempt(ProviderOf[ch])
  /\ inFlight' = [inFlight EXCEPT ![ch] = c]

\* resolveConnectionStateCore up to its first await: getStatus and getQr.
Start(c, ch) ==
  /\ inFlight[ch] = NoCall
  /\ Asks(c, ch, "probing")
  /\ CanAttempt(ProviderOf[ch])
  /\ inFlight' = [inFlight EXCEPT ![ch] = c]

\* deriveFinalStatus over what normalizeChannelStatus makes of the answer.
FinalStatus(answer, qr) ==
  IF qr # NoQr THEN "waiting"
  ELSE IF answer \in {"connected", "error"} THEN answer ELSE "connecting"

\* The state replaces the cached one, and the tracker in Redis is written.
Cache(c, state) ==
  /\ result' = [result EXCEPT ![c] = state]
  /\ previous' = [previous EXCEPT ![c] = cached[chan[c]]]
  /\ cached' = [cached EXCEPT ![chan[c]] = state]
  /\ cachedAge' = [cachedAge EXCEPT ![chan[c]] = 0]

\* Both answers are in.  An error counts against the provider and goes on to
\* ask whether the tenant's plan has auto-healing.
Settles(c, answer, qr) ==
  LET status == FinalStatus(answer, qr) IN
  /\ at[c] = "probing"
  /\ probeAge' = [probeAge EXCEPT ![c] = 0]
  /\ IF status = "error"
       THEN /\ MarkFailure(Provider(c)) /\ Goes(c, "gate")
            /\ UNCHANGED <<result, previous, cached, cachedAge>>
       ELSE /\ MarkSuccess(Provider(c)) /\ Goes(c, "tracking")
            /\ Cache(c, [status |-> status, qr |-> qr])
  /\ UNCHANGED <<chan, inFlight, shown, environment>>

\* The provider answers or refuses, before the timeouts.
ProviderAnswers(c) ==
  \E answer \in Answers, qr \in QrCodes \cup {NoQr} : Settles(c, answer, qr)

\* Mutant: a probe that times out is tried again.
TimeoutRetries(c) ==
  /\ at[c] = "probing" /\ probeAge[c] = ProbeTimeout
  /\ probeAge' = [probeAge EXCEPT ![c] = 0]
  /\ UNCHANGED <<at, chan, result, previous, cache, health, environment>>

\* withTimeout: getQr has not answered and counts as none; getStatus may have.
ProbeTimesOut(c) ==
  /\ probeAge[c] = ProbeTimeout
  /\ \E answer \in Answers : Settles(c, answer, NoQr)

\* hasTenantFeature, then enqueueConnect, which nobody waits for and which may
\* fail or be refused; the job's id makes a second job of the channel void.
GatePasses(c) ==
  /\ at[c] = "gate" /\ Goes(c, "tracking")
  /\ Cache(c, [status |-> "error", qr |-> NoQr])
  /\ connectJobs' \in {connectJobs, connectJobs \cup ({chan[c]} \cap AutoHealing)}
  /\ UNCHANGED <<chan, probeAge, inFlight, shown, health, redisUp, faults>>

\* Request c and those that wait for it are answered.
Answered(c) ==
  LET out == {c} \cup {d \in Calls : at[d] = "joined" /\ chan[d] = chan[c]} IN
  /\ at' = [d \in Calls |-> IF d \in out THEN "idle" ELSE at[d]]
  /\ chan' = [d \in Calls |-> IF d \in out THEN NoChannel ELSE chan[d]]
  /\ result' = [result EXCEPT ![c] = NoState]
  /\ previous' = [previous EXCEPT ![c] = NoState]
  /\ inFlight' = [inFlight EXCEPT ![chan[c]] = IF @ = c THEN NoCall ELSE @]

\* The tenant cannot be read: the promise is rejected, with nothing cached.
GateFails(c) ==
  /\ at[c] = "gate" /\ Answered(c)
  /\ UNCHANGED <<probeAge, cached, cachedAge, shown, health, environment>>

\* The tracker was written, or Redis answered an error and the tracker in
\* memory was.  emitStateChanges tells the clients of a change.  While Redis
\* is unreachable the command waits for it (maxRetriesPerRequest null).
Finish(c) ==
  /\ at[c] = "tracking" /\ redisUp
  /\ shown' = IF previous[c] = result[c] THEN shown
              ELSE [shown EXCEPT ![chan[c]] = result[c]]
  /\ Answered(c)
  /\ UNCHANGED <<probeAge, cached, cachedAge, health, environment>>

----------------------------------------------------------------------------
\* Time, the job's end, Redis and the process.

\* The timers of a probe fire before more time passes.
Tick ==
  /\ \A c \in Calls : at[c] = "probing" => probeAge[c] < ProbeTimeout
  /\ probeAge' = [c \in Calls |-> IF at[c] = "probing" THEN probeAge[c] + 1 ELSE 0]
  /\ cachedAge' = [ch \in Channels |->
       IF cached[ch] = NoState \/ cachedAge[ch] > TTL THEN cachedAge[ch]
                                                      ELSE cachedAge[ch] + 1]
  /\ failureAge' = [p \in Providers |->
       IF failureAge[p] = Window THEN Window ELSE failureAge[p] + 1]
  /\ UNCHANGED <<at, chan, result, previous, inFlight, cached, shown, circuit,
                 failureCount, halfOpenInFlight, environment>>

ConnectJobEnds(ch) ==
  /\ ch \in connectJobs /\ connectJobs' = connectJobs \ {ch}
  /\ UNCHANGED <<request, cache, health, redisUp, faults>>

RedisFails ==
  /\ redisUp /\ faults < MaxFaults
  /\ redisUp' = FALSE /\ faults' = faults + 1
  /\ UNCHANGED <<request, cache, health, connectJobs>>

RedisReturns ==
  /\ ~redisUp /\ redisUp' = TRUE
  /\ UNCHANGED <<request, cache, health, connectJobs, faults>>

\* The requests in hand fail; what the clients show stays on their screens.
Restart ==
  /\ faults < MaxFaults /\ faults' = faults + 1
  /\ at' = [c \in Calls |-> "idle"]
  /\ chan' = [c \in Calls |-> NoChannel]
  /\ result' = [c \in Calls |-> NoState]
  /\ previous' = [c \in Calls |-> NoState]
  /\ probeAge' = [c \in Calls |-> 0]
  /\ inFlight' = [ch \in Channels |-> NoCall]
  /\ cached' = [ch \in Channels |-> NoState]
  /\ cachedAge' = [ch \in Channels |-> 0]
  /\ circuit' = [p \in Providers |-> "CLOSED"]
  /\ failureCount' = [p \in Providers |-> 0]
  /\ failureAge' = [p \in Providers |-> 0]
  /\ halfOpenInFlight' = {}
  /\ UNCHANGED <<shown, connectJobs, redisUp>>

Step(c) ==
  ProviderAnswers(c) \/ ProbeTimesOut(c) \/ GatePasses(c) \/ GateFails(c) \/ Finish(c)

Next ==
  \/ \E c \in Calls, ch \in Channels : Join(c, ch) \/ Start(c, ch)
  \/ \E c \in Calls : Step(c)
  \/ \E p \in Providers : GetProviderCircuitState(p)
  \/ \E ch \in Channels : ConnectJobEnds(ch)
  \/ Tick \/ RedisFails \/ RedisReturns \/ Restart

Spec == Init /\ [][Next]_vars

\* Time passes, timers fire and a query of the database answers or fails; the
\* provider need not answer and Redis need not come back.
LiveSpec ==
  /\ Spec /\ WF_vars(Tick)
  /\ \A c \in Calls :
       WF_vars(ProbeTimesOut(c)) /\ WF_vars(GatePasses(c) \/ GateFails(c))
       /\ WF_vars(Finish(c))

----------------------------------------------------------------------------
\* Properties.

\* With no probe of a channel in flight, what the clients were last told of it
\* is what the cache holds, however the requests overlapped.
ClientsSeeCached ==
  \A ch \in Channels :
    inFlight[ch] = NoCall /\ cached[ch] # NoState => shown[ch] = cached[ch]

\* The flag of a half-open circuit is only up while a probe that will take it
\* down is running: a circuit cannot refuse every request for good.
FlagHasOwner ==
  \A p \in halfOpenInFlight : circuit[p] = "HALF_OPEN" /\ Probing(p) # {}

\* What canAttempt says of a half-open circuit: it lets one test through at a time.
\* The one that finds the circuit open goes through with the flag down, and so does
\* the next.
OneTestAtATime == \A p \in Providers : circuit[p] = "HALF_OPEN" => Cardinality(Probing(p)) <= 1

\* What holds of the tests of a half-open circuit: at most one is at the provider
\* while the flag is down, and at most two while it is up.  The probes of the time
\* before the circuit opened have all ended.
TwoTestsAtMost ==
  \A p \in Providers : circuit[p] = "HALF_OPEN" =>
    Cardinality(Probing(p)) <= IF p \in halfOpenInFlight THEN 2 ELSE 1

\* A request for the state of a channel is answered, unless Redis is away.
PollAnswered ==
  \A c \in Calls : at[c] # "idle" ~> at[c] = "idle" \/ ~redisUp
=============================================================================
