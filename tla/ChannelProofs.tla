---------------------------- MODULE ChannelProofs ----------------------------
(***************************************************************************)
(* Proofs about a channel's state and its row.                             *)
(*                                                                         *)
(* ChannelState, for every set of requests, channels and providers and     *)
(* every threshold and window: the flag of a half-open circuit has a probe *)
(* that takes it down, tests of such a circuit are bounded, and the        *)
(* clients are shown what the cache holds.                                 *)
(*                                                                         *)
(* Connection, for every set of requests, workers and monitor cycles: the  *)
(* row only ever holds what its columns may hold, whoever writes it and    *)
(* from whichever row it had read.                                         *)
(***************************************************************************)
EXTENDS ChannelState, Connection, FiniteSetTheorems, TLAPS

\* The request whose promise a channel shares is the one that works on it.
Shared ==
  /\ \A c \in Calls : at[c] \in Working => chan[c] \in Channels /\ inFlight[chan[c]] = c
  /\ \A ch \in Channels : inFlight[ch] # NoCall =>
       at[inFlight[ch]] \in Working /\ chan[inFlight[ch]] = ch

\* A request between its cache write and its events replaced the state that the
\* clients are shown, or none; where there is no such request they agree.
TracksLast ==
  \A c \in Calls : at[c] = "tracking" =>
    /\ result[c] = cached[chan[c]] /\ result[c] # NoState
    /\ previous[c] \in {shown[chan[c]], NoState}

NoneTracking(ch) == \A c \in Calls : at[c] = "tracking" => chan[c] # ch

Agree ==
  \A ch \in Channels :
    cached[ch] # NoState /\ NoneTracking(ch) => shown[ch] = cached[ch]

----------------------------------------------------------------------------
LEMMA FinalType ==
  ASSUME NEW answer \in Answers, NEW qr \in QrCodes \cup {NoQr}
  PROVE  [status |-> FinalStatus(answer, qr), qr |-> qr] \in States
BY DEF FinalStatus, States, Answers

LEMMA NoStateIsNone == NoState \notin States
<1> SUFFICES ASSUME NoState \in States PROVE FALSE
  OBVIOUS
<1>1. NoState.status \in Answers
  BY DEF States
<1> QED
  BY <1>1 DEF NoState, Answers

\* The circuit keeps its types whatever it is told.
LEMMA HealthType ==
  ASSUME TypeOK, NEW p,
         CanAttempt(p) \/ MarkSuccess(p) \/ MarkFailure(p),
         p \in Providers
  PROVE  /\ circuit' \in [Providers -> {"CLOSED", "OPEN", "HALF_OPEN"}]
         /\ failureCount' \in [Providers -> 0 .. Threshold + 1]
         /\ failureAge' \in [Providers -> 0 .. Window]
         /\ halfOpenInFlight' \subseteq Providers
<1>1. \A n \in 0 .. Threshold + 1 : Counted(n) \in 0 .. Threshold + 1
  BY ChannelAssumption DEF ChannelAssumption, Counted
<1>2. CASE CanAttempt(p)
  BY <1>2 DEF TypeOK, CanAttempt
<1>3. CASE MarkSuccess(p)
  BY <1>3, ChannelAssumption DEF TypeOK, MarkSuccess, ChannelAssumption
<1>4. CASE MarkFailure(p)
  <2>1. failureCount' \in [Providers -> 0 .. Threshold + 1]
    BY <1>1, <1>4 DEF TypeOK, MarkFailure
  <2>2. failureAge' \in [Providers -> 0 .. Window]
    BY <1>4, ChannelAssumption DEF TypeOK, MarkFailure, ChannelAssumption
  <2>3. circuit' \in [Providers -> {"CLOSED", "OPEN", "HALF_OPEN"}]
    BY <1>4 DEF TypeOK, MarkFailure
  <2> QED
    BY <1>4, <2>1, <2>2, <2>3 DEF TypeOK, MarkFailure
<1> QED
  BY <1>2, <1>3, <1>4

\* Writing a state to the cache keeps the types.
LEMMA CacheType ==
  ASSUME TypeOK, NEW c \in Calls, chan[c] \in Channels, NEW state \in States,
         Cache(c, state)
  PROVE  /\ result' \in [Calls -> States \cup {NoState}]
         /\ previous' \in [Calls -> States \cup {NoState}]
         /\ cached' \in [Channels -> States \cup {NoState}]
         /\ cachedAge' \in [Channels -> 0 .. TTL + 1]
BY ChannelAssumption DEF TypeOK, Cache, ChannelAssumption

\* Answering a request keeps the types.
LEMMA AnsweredType ==
  ASSUME TypeOK, NEW c \in Calls, Answered(c)
  PROVE  /\ at' \in [Calls -> Places]
         /\ chan' \in [Calls -> Channels \cup {NoChannel}]
         /\ result' \in [Calls -> States \cup {NoState}]
         /\ previous' \in [Calls -> States \cup {NoState}]
         /\ inFlight' \in [Channels -> Calls \cup {NoCall}]
BY DEF TypeOK, Answered, Places, Working

LEMMA TypeInit == Init => TypeOK
BY ChannelAssumption DEF Init, TypeOK, ChannelAssumption, Places, Working

\* Every step keeps the types and the sharing of promises.
TypeShared == TypeOK /\ Shared

LEMMA SettlesType ==
  ASSUME TypeShared, NEW c \in Calls, NEW answer \in Answers,
         NEW qr \in QrCodes \cup {NoQr}, Settles(c, answer, qr)
  PROVE  TypeOK'
<1>1. TypeOK /\ chan[c] \in Channels /\ at[c] = "probing"
  BY DEF TypeShared, Shared, Settles, Working
<1>2. Provider(c) \in Providers
  BY <1>1, ChannelAssumption DEF Provider, ChannelAssumption
<1>3. MarkSuccess(Provider(c)) \/ MarkFailure(Provider(c))
  BY DEF Settles
<1>4. /\ circuit' \in [Providers -> {"CLOSED", "OPEN", "HALF_OPEN"}]
      /\ failureCount' \in [Providers -> 0 .. Threshold + 1]
      /\ failureAge' \in [Providers -> 0 .. Window]
      /\ halfOpenInFlight' \subseteq Providers
  BY <1>1, <1>2, <1>3, HealthType
<1>5. /\ result' \in [Calls -> States \cup {NoState}]
      /\ previous' \in [Calls -> States \cup {NoState}]
      /\ cached' \in [Channels -> States \cup {NoState}]
      /\ cachedAge' \in [Channels -> 0 .. TTL + 1]
  <2>1. CASE FinalStatus(answer, qr) = "error"
    BY <1>1, <2>1 DEF Settles, TypeOK
  <2>2. CASE FinalStatus(answer, qr) # "error"
    <3>1. PICK state \in States : Cache(c, state)
      BY <2>2, FinalType DEF Settles
    <3> QED
      BY <1>1, <3>1, CacheType
  <2> QED
    BY <2>1, <2>2
<1>6. at' \in [Calls -> Places]
  BY <1>1 DEF Settles, Goes, TypeOK, Places, Working
<1>7. probeAge' \in [Calls -> 0 .. ProbeTimeout]
  BY <1>1, ChannelAssumption DEF Settles, TypeOK, ChannelAssumption
<1> QED
  BY <1>1, <1>4, <1>5, <1>6, <1>7 DEF Settles, TypeOK, environment

LEMMA TypeStep == TypeShared /\ [Next]_vars => TypeOK'
<1> SUFFICES ASSUME TypeShared, [Next]_vars PROVE TypeOK'
  OBVIOUS
<1>0. TypeOK
  BY DEF TypeShared
<1>1. ASSUME NEW c \in Calls, NEW ch \in Channels, Join(c, ch) PROVE TypeOK'
  BY <1>0, <1>1 DEF Join, Asks, Goes, TypeOK, Places, Working, environment, health
<1>2. ASSUME NEW c \in Calls, NEW ch \in Channels, Start(c, ch) PROVE TypeOK'
  <2>1. ProviderOf[ch] \in Providers /\ CanAttempt(ProviderOf[ch])
    BY <1>2, ChannelAssumption DEF Start, ChannelAssumption
  <2>2. /\ circuit' \in [Providers -> {"CLOSED", "OPEN", "HALF_OPEN"}]
        /\ failureCount' \in [Providers -> 0 .. Threshold + 1]
        /\ failureAge' \in [Providers -> 0 .. Window]
        /\ halfOpenInFlight' \subseteq Providers
    BY <1>0, <2>1, HealthType
  <2> QED
    BY <1>0, <1>2, <2>2 DEF Start, Asks, Goes, TypeOK, Places, Working, environment
<1>3. ASSUME NEW c \in Calls, ProviderAnswers(c) \/ ProbeTimesOut(c) PROVE TypeOK'
  <2>1. PICK answer \in Answers, qr \in QrCodes \cup {NoQr} : Settles(c, answer, qr)
    BY <1>3 DEF ProviderAnswers, ProbeTimesOut
  <2> QED
    BY <2>1, SettlesType
<1>4. ASSUME NEW c \in Calls, GatePasses(c) PROVE TypeOK'
  <2>1. chan[c] \in Channels
    BY <1>4 DEF TypeShared, Shared, GatePasses, Working
  <2>2. [status |-> "error", qr |-> NoQr] \in States
    BY DEF States, Answers
  <2>3. /\ result' \in [Calls -> States \cup {NoState}]
        /\ previous' \in [Calls -> States \cup {NoState}]
        /\ cached' \in [Channels -> States \cup {NoState}]
        /\ cachedAge' \in [Channels -> 0 .. TTL + 1]
    BY <1>0, <1>4, <2>1, <2>2, CacheType DEF GatePasses
  <2>4. connectJobs' \subseteq Channels
    BY <1>0, <1>4, <2>1 DEF TypeOK, GatePasses
  <2> QED
    BY <1>0, <1>4, <2>3, <2>4 DEF GatePasses, Goes, TypeOK, Places, Working, health
<1>5. ASSUME NEW c \in Calls, GateFails(c) PROVE TypeOK'
  BY <1>0, <1>5, AnsweredType DEF GateFails, TypeOK, health, environment
<1>6. ASSUME NEW c \in Calls, Finish(c) PROVE TypeOK'
  <2>1. shown' \in [Channels -> States \cup {NoState}]
    BY <1>0, <1>6 DEF Finish, TypeOK
  <2> QED
    BY <1>0, <1>6, <2>1, AnsweredType DEF Finish, TypeOK, health, environment
<1>7. CASE Tick
  <2>1. probeAge' \in [Calls -> 0 .. ProbeTimeout]
    <3>1. \A c \in Calls : at[c] = "probing" => probeAge[c] + 1 \in 0 .. ProbeTimeout
      BY <1>0, <1>7, ChannelAssumption DEF Tick, TypeOK, ChannelAssumption
    <3> QED
      BY <1>7, <3>1, ChannelAssumption DEF Tick, ChannelAssumption
  <2>2. cachedAge' \in [Channels -> 0 .. TTL + 1]
    <3>1. \A ch \in Channels : cachedAge[ch] \in 0 .. TTL + 1
      BY <1>0 DEF TypeOK
    <3>2. \A n \in 0 .. TTL + 1 : n > TTL \/ n + 1 \in 0 .. TTL + 1
      BY ChannelAssumption DEF ChannelAssumption
    <3> QED
      BY <1>7, <3>1, <3>2 DEF Tick
  <2>3. failureAge' \in [Providers -> 0 .. Window]
    <3>1. \A p \in Providers : failureAge[p] \in 0 .. Window
      BY <1>0 DEF TypeOK
    <3>2. \A n \in 0 .. Window : n = Window \/ n + 1 \in 0 .. Window
      BY ChannelAssumption DEF ChannelAssumption
    <3> QED
      BY <1>7, <3>1, <3>2 DEF Tick
  <2> QED
    BY <1>0, <1>7, <2>1, <2>2, <2>3 DEF Tick, TypeOK, environment
<1>8. ASSUME NEW p \in Providers, GetProviderCircuitState(p) PROVE TypeOK'
  BY <1>0, <1>8 DEF GetProviderCircuitState, TypeOK, request, cache, environment
<1>9. ASSUME NEW ch \in Channels, ConnectJobEnds(ch) PROVE TypeOK'
  BY <1>0, <1>9 DEF ConnectJobEnds, TypeOK, request, cache, health
<1>10. CASE RedisFails \/ RedisReturns
  <2>1. redisUp' \in BOOLEAN
    BY <1>10 DEF RedisFails, RedisReturns
  <2>2. faults' \in 0 .. MaxFaults
    BY <1>0, <1>10, ChannelAssumption DEF RedisFails, RedisReturns, TypeOK,
       ChannelAssumption
  <2> QED
    BY <1>0, <1>10, <2>1, <2>2
       DEF RedisFails, RedisReturns, TypeOK, request, cache, health
<1>11. CASE Restart
  <2>1. faults' \in 0 .. MaxFaults
    BY <1>0, <1>11, ChannelAssumption DEF Restart, TypeOK, ChannelAssumption
  <2> QED
    BY <1>0, <1>11, <2>1, ChannelAssumption
       DEF Restart, TypeOK, Places, Working, ChannelAssumption
<1>12. CASE UNCHANGED vars
  BY <1>0, <1>12 DEF vars, TypeOK, request, cache, health, environment
<1> QED
  BY <1>1, <1>2, <1>3, <1>4, <1>5, <1>6, <1>7, <1>8, <1>9, <1>10, <1>11, <1>12
     DEF Next, Step

----------------------------------------------------------------------------
\* What a request does to the other requests of its channel.

\* Shared is kept by a step that moves no request into or out of work.
LEMMA SharedFrame ==
  ASSUME TypeOK, Shared, UNCHANGED <<inFlight, chan>>,
         \A c \in Calls : at'[c] \in Working <=> at[c] \in Working
  PROVE  Shared'
<1>1. \A ch \in Channels : inFlight[ch] # NoCall => inFlight[ch] \in Calls
  BY DEF TypeOK
<1> QED
  BY <1>1 DEF Shared

\* The request that is answered gives its channel free.
LEMMA SharedAnswered ==
  ASSUME TypeOK, Shared, NEW c \in Calls, at[c] \in Working, Answered(c)
  PROVE  Shared'
<1> PICK ch \in Channels : ch = chan[c]
  BY DEF Shared
<1>1. /\ inFlight[ch] = c /\ c # NoCall
      /\ inFlight' = [inFlight EXCEPT ![ch] = NoCall]
  BY ChannelAssumption DEF Shared, Answered, ChannelAssumption
<1>2. at'[c] = "idle"
  BY DEF Answered
<1>3. \A d \in Calls : at[d] \in Working /\ d # c => at'[d] = at[d] /\ chan'[d] = chan[d]
  BY DEF Answered, Working
<1>4. \A d \in Calls : at'[d] \in Working => at'[d] = at[d] /\ chan'[d] = chan[d]
  BY DEF Answered, Working
<1>5. \A d \in Calls : at[d] \in Working /\ d # c => chan[d] # ch
  BY <1>1 DEF Shared
<1>6. \A k \in Channels : k # ch => inFlight'[k] = inFlight[k]
  BY <1>1 DEF TypeOK
<1>7. inFlight'[ch] = NoCall
  BY <1>1 DEF TypeOK
<1>8. ASSUME NEW d \in Calls, at'[d] \in Working
      PROVE  chan'[d] \in Channels /\ inFlight'[chan'[d]] = d
  <2>1. at[d] \in Working /\ chan'[d] = chan[d] /\ d # c
    BY <1>2, <1>4, <1>8 DEF Working
  <2> QED
    BY <1>5, <1>6, <2>1 DEF Shared
<1>9. ASSUME NEW k \in Channels, inFlight'[k] # NoCall
      PROVE  at'[inFlight'[k]] \in Working /\ chan'[inFlight'[k]] = k
  <2>1. k # ch /\ inFlight'[k] = inFlight[k]
    BY <1>6, <1>7, <1>9
  <2>2. PICK d \in Calls : d = inFlight[k]
    BY <1>9, <2>1 DEF TypeOK
  <2>3. at[d] \in Working /\ chan[d] = k
    BY <1>9, <2>1, <2>2 DEF Shared
  <2>4. d # c
    BY <2>1, <2>3
  <2> QED
    BY <1>3, <2>1, <2>2, <2>3, <2>4
<1> QED
  BY <1>8, <1>9 DEF Shared

LEMMA SharedStart ==
  ASSUME TypeOK, Shared, NEW c \in Calls, NEW ch \in Channels, Start(c, ch)
  PROVE  Shared'
<1>1. /\ at' = [at EXCEPT ![c] = "probing"] /\ chan' = [chan EXCEPT ![c] = ch]
      /\ inFlight' = [inFlight EXCEPT ![ch] = c]
      /\ at[c] = "idle" /\ inFlight[ch] = NoCall
  BY DEF Start, Asks, Goes
<1>2. \A d \in Calls : d # c => at'[d] = at[d] /\ chan'[d] = chan[d]
  BY <1>1 DEF TypeOK
<1>3. at'[c] = "probing" /\ chan'[c] = ch /\ inFlight'[ch] = c
  BY <1>1 DEF TypeOK
<1>4. \A k \in Channels : k # ch => inFlight'[k] = inFlight[k]
  BY <1>1 DEF TypeOK
<1>5. ASSUME NEW d \in Calls, at'[d] \in Working
      PROVE  chan'[d] \in Channels /\ inFlight'[chan'[d]] = d
  <2>1. CASE d = c
    BY <1>3, <2>1
  <2>2. CASE d # c
    <3>1. chan[d] \in Channels /\ inFlight[chan[d]] = d
      BY <1>2, <1>5, <2>2 DEF Shared
    <3>2. chan[d] # ch
      BY <1>1, <3>1, ChannelAssumption DEF ChannelAssumption
    <3> QED
      BY <1>2, <1>4, <2>2, <3>1, <3>2
  <2> QED
    BY <2>1, <2>2
<1>6. ASSUME NEW k \in Channels, inFlight'[k] # NoCall
      PROVE  at'[inFlight'[k]] \in Working /\ chan'[inFlight'[k]] = k
  <2>1. CASE k = ch
    BY <1>3, <2>1 DEF Working
  <2>2. CASE k # ch
    <3>1. PICK d \in Calls : d = inFlight[k]
      BY <1>4, <1>6, <2>2 DEF TypeOK
    <3>2. at[d] \in Working /\ chan[d] = k
      BY <1>4, <1>6, <2>2, <3>1 DEF Shared
    <3>3. d # c
      BY <1>1, <3>2 DEF Working
    <3> QED
      BY <1>2, <1>4, <2>2, <3>1, <3>2, <3>3
  <2> QED
    BY <2>1, <2>2
<1> QED
  BY <1>5, <1>6 DEF Shared

LEMMA SharedStep == TypeShared /\ [Next]_vars => Shared'
<1> SUFFICES ASSUME TypeShared, [Next]_vars PROVE Shared'
  OBVIOUS
<1>0. TypeOK /\ Shared
  BY DEF TypeShared
<1>1. ASSUME NEW c \in Calls, NEW ch \in Channels, Join(c, ch) PROVE Shared'
  <2>1. /\ at[c] = "idle" /\ at' = [at EXCEPT ![c] = "joined"]
        /\ chan' = [chan EXCEPT ![c] = ch] /\ inFlight' = inFlight
    BY <1>1 DEF Join, Asks, Goes
  <2>2. \A d \in Calls : d # c => at'[d] = at[d] /\ chan'[d] = chan[d]
    BY <1>0, <2>1 DEF TypeOK
  <2>3. at'[c] = "joined" /\ \A d \in Calls : at[d] \in Working => d # c
    BY <1>0, <2>1 DEF TypeOK, Working
  <2>4. \A k \in Channels : inFlight[k] # NoCall => inFlight[k] \in Calls
    BY <1>0 DEF TypeOK
  <2> QED
    BY <1>0, <2>1, <2>2, <2>3, <2>4 DEF Shared, Working
<1>2. ASSUME NEW c \in Calls, NEW ch \in Channels, Start(c, ch) PROVE Shared'
  BY <1>0, <1>2, SharedStart
<1>3. ASSUME NEW c \in Calls,
             ProviderAnswers(c) \/ ProbeTimesOut(c) \/ GatePasses(c)
      PROVE  Shared'
  <2>1. /\ UNCHANGED <<inFlight, chan>> /\ at[c] \in Working
        /\ \E place \in Working : at' = [at EXCEPT ![c] = place]
    BY <1>3 DEF ProviderAnswers, ProbeTimesOut, Settles, GatePasses, Goes, Working
  <2>2. \A d \in Calls : at'[d] \in Working <=> at[d] \in Working
    BY <1>0, <2>1 DEF TypeOK
  <2> QED
    BY <1>0, <2>1, <2>2, SharedFrame
<1>4. ASSUME NEW c \in Calls, GateFails(c) \/ Finish(c) PROVE Shared'
  BY <1>0, <1>4, SharedAnswered DEF GateFails, Finish, Working
<1>5. CASE \/ Tick \/ RedisFails \/ RedisReturns \/ UNCHANGED vars
           \/ \E p \in Providers : GetProviderCircuitState(p)
           \/ \E ch \in Channels : ConnectJobEnds(ch)
  BY <1>0, <1>5, SharedFrame DEF Tick, RedisFails, RedisReturns, vars,
     GetProviderCircuitState, ConnectJobEnds, request, cache
<1>6. CASE Restart
  BY <1>6 DEF Restart, Shared, Working
<1> QED
  BY <1>1, <1>2, <1>3, <1>4, <1>5, <1>6 DEF Next, Step

LEMMA TypeSharedInvariant == Spec => []TypeShared
<1>1. Init => TypeShared
  BY TypeInit DEF TypeShared, Shared, Init, Working
<1>2. TypeShared /\ [Next]_vars => TypeShared'
  BY TypeStep, SharedStep DEF TypeShared
<1> QED
  BY <1>1, <1>2, PTL DEF Spec

\* Type correctness of ChannelState.
THEOREM TypeCorrect == Spec => []TypeOK
<1>1. TypeShared => TypeOK
  BY DEF TypeShared
<1> QED
  BY <1>1, TypeSharedInvariant, PTL

----------------------------------------------------------------------------
\* The flag of a half-open circuit.

\* A step that raises no flag, moves no flagged circuit and ends no probe of a
\* flagged provider keeps the owners.
LEMMA OwnersStay ==
  ASSUME FlagHasOwner, halfOpenInFlight' \subseteq halfOpenInFlight,
         \A p \in halfOpenInFlight' : circuit'[p] = circuit[p],
         \A p \in halfOpenInFlight', d \in Calls :
           at[d] = "probing" /\ Provider(d) = p =>
             at'[d] = "probing" /\ chan'[d] = chan[d]
  PROVE  FlagHasOwner'
<1> SUFFICES ASSUME NEW p \in halfOpenInFlight'
             PROVE  circuit'[p] = "HALF_OPEN" /\ Probing(p)' # {}
  BY DEF FlagHasOwner
<1>1. circuit'[p] = "HALF_OPEN"
  BY DEF FlagHasOwner
<1>2. PICK d \in Calls : at[d] = "probing" /\ Provider(d) = p
  BY DEF FlagHasOwner, Probing
<1>3. at'[d] = "probing" /\ Provider(d)' = p
  BY <1>2 DEF Provider
<1> QED
  BY <1>1, <1>3 DEF Probing

\* The probe that canAttempt admits with the flag up is the flag's owner.
LEMMA FlagStart ==
  ASSUME TypeOK, FlagHasOwner, NEW c \in Calls, NEW ch \in Channels, Start(c, ch)
  PROVE  FlagHasOwner'
<1> PICK p \in Providers : p = ProviderOf[ch]
  BY ChannelAssumption DEF ChannelAssumption
<1>1. /\ at[c] = "idle" /\ CanAttempt(p)
      /\ at' = [at EXCEPT ![c] = "probing"] /\ chan' = [chan EXCEPT ![c] = ch]
  BY DEF Start, Asks, Goes
<1>2. \A d \in Calls : at[d] = "probing" => at'[d] = "probing" /\ chan'[d] = chan[d]
  BY <1>1 DEF TypeOK
<1>3. CASE circuit[p] = "CLOSED" /\ UNCHANGED <<circuit, halfOpenInFlight>>
  BY <1>2, <1>3, OwnersStay
<1>4. CASE /\ circuit' = [circuit EXCEPT ![p] = "HALF_OPEN"]
           /\ halfOpenInFlight' = halfOpenInFlight \ {p}
  BY <1>2, <1>4, OwnersStay DEF TypeOK
<1>5. CASE /\ circuit[p] = "HALF_OPEN" /\ UNCHANGED circuit
           /\ halfOpenInFlight' = halfOpenInFlight \cup {p}
  <2> SUFFICES ASSUME NEW q \in halfOpenInFlight'
               PROVE  circuit'[q] = "HALF_OPEN" /\ Probing(q)' # {}
    BY DEF FlagHasOwner
  <2>1. CASE q = p
    <3>1. at'[c] = "probing" /\ chan'[c] = ch
      BY <1>1 DEF TypeOK
    <3> QED
      BY <1>5, <2>1, <3>1 DEF Probing, Provider
  <2>2. CASE q # p
    <3>1. q \in halfOpenInFlight
      BY <1>5, <2>2
    <3>2. circuit'[q] = "HALF_OPEN"
      BY <1>5, <3>1 DEF FlagHasOwner
    <3>3. PICK d \in Calls : at[d] = "probing" /\ Provider(d) = q
      BY <3>1 DEF FlagHasOwner, Probing
    <3>4. at'[d] = "probing" /\ Provider(d)' = q
      BY <1>2, <3>3 DEF Provider
    <3> QED
      BY <3>2, <3>4 DEF Probing
  <2> QED
    BY <2>1, <2>2
<1> QED
  BY <1>1, <1>3, <1>4, <1>5 DEF CanAttempt

\* A probe that ends takes the flag of its provider down, and no other.
LEMMA FlagSettles ==
  ASSUME TypeShared, FlagHasOwner, NEW c \in Calls, NEW answer \in Answers,
         NEW qr \in QrCodes \cup {NoQr}, Settles(c, answer, qr)
  PROVE  FlagHasOwner'
<1>1. TypeOK /\ at[c] = "probing" /\ chan[c] \in Channels
  BY DEF TypeShared, Shared, Settles, Working
<1> PICK p \in Providers : p = Provider(c)
  BY <1>1, ChannelAssumption DEF Provider, ChannelAssumption
<1>2. /\ halfOpenInFlight' = halfOpenInFlight \ {p}
      /\ \/ UNCHANGED circuit
         \/ \E s \in {"OPEN", "CLOSED"} : circuit' = [circuit EXCEPT ![p] = s]
  BY DEF Settles, MarkSuccess, MarkFailure
<1>3. \A q \in halfOpenInFlight' : q # p /\ circuit'[q] = circuit[q]
  BY <1>1, <1>2 DEF TypeOK
<1>4. \A d \in Calls : d # c => at'[d] = at[d]
  BY <1>1 DEF Settles, Goes, TypeOK
<1>5. UNCHANGED chan
  BY DEF Settles
<1>6. \A q \in halfOpenInFlight', d \in Calls :
        at[d] = "probing" /\ Provider(d) = q =>
          at'[d] = "probing" /\ chan'[d] = chan[d]
  BY <1>3, <1>4, <1>5
<1> QED
  BY <1>2, <1>3, <1>6, OwnersStay

FlagInv == TypeShared /\ FlagHasOwner

LEMMA FlagStep == FlagInv /\ [Next]_vars => FlagHasOwner'
<1> SUFFICES ASSUME FlagInv, [Next]_vars PROVE FlagHasOwner'
  OBVIOUS
<1>0. TypeShared /\ TypeOK /\ FlagHasOwner
  BY DEF FlagInv, TypeShared
<1>1. ASSUME NEW c \in Calls, NEW ch \in Channels, Join(c, ch) PROVE FlagHasOwner'
  <2>1. \A d \in Calls : at[d] = "probing" => at'[d] = "probing" /\ chan'[d] = chan[d]
    BY <1>0, <1>1 DEF Join, Asks, Goes, TypeOK
  <2> QED
    BY <1>0, <1>1, <2>1, OwnersStay DEF Join, health
<1>2. ASSUME NEW c \in Calls, NEW ch \in Channels, Start(c, ch) PROVE FlagHasOwner'
  BY <1>0, <1>2, FlagStart
<1>3. ASSUME NEW c \in Calls, ProviderAnswers(c) \/ ProbeTimesOut(c)
      PROVE  FlagHasOwner'
  <2>1. PICK answer \in Answers, qr \in QrCodes \cup {NoQr} : Settles(c, answer, qr)
    BY <1>3 DEF ProviderAnswers, ProbeTimesOut
  <2> QED
    BY <1>0, <2>1, FlagSettles
<1>4. ASSUME NEW c \in Calls, GatePasses(c) PROVE FlagHasOwner'
  <2>1. \A d \in Calls : at[d] = "probing" => at'[d] = "probing" /\ chan'[d] = chan[d]
    BY <1>0, <1>4 DEF GatePasses, Goes, TypeOK
  <2> QED
    BY <1>0, <1>4, <2>1, OwnersStay DEF GatePasses, health
<1>5. ASSUME NEW c \in Calls, GateFails(c) \/ Finish(c) PROVE FlagHasOwner'
  <2>1. at[c] # "probing" /\ Answered(c) /\ UNCHANGED <<circuit, halfOpenInFlight>>
    BY <1>5 DEF GateFails, Finish, health
  <2>2. \A d \in Calls : at[d] = "probing" => at'[d] = "probing" /\ chan'[d] = chan[d]
    BY <2>1 DEF Answered
  <2> QED
    BY <1>0, <2>1, <2>2, OwnersStay
<1>6. ASSUME NEW p \in Providers, GetProviderCircuitState(p) PROVE FlagHasOwner'
  <2>1. p \notin halfOpenInFlight
    BY <1>0, <1>6 DEF GetProviderCircuitState, FlagHasOwner
  <2>2. \A q \in halfOpenInFlight' : circuit'[q] = circuit[q]
    BY <1>0, <1>6, <2>1 DEF GetProviderCircuitState, TypeOK
  <2> QED
    BY <1>0, <1>6, <2>2, OwnersStay DEF GetProviderCircuitState, request
<1>7. CASE \/ Tick \/ RedisFails \/ RedisReturns \/ UNCHANGED vars
           \/ \E ch \in Channels : ConnectJobEnds(ch)
  <2>1. UNCHANGED <<at, chan, circuit, halfOpenInFlight>>
    BY <1>7 DEF Tick, RedisFails, RedisReturns, vars, ConnectJobEnds, request, health
  <2> QED
    BY <1>0, <2>1, OwnersStay
<1>8. CASE Restart
  BY <1>8 DEF Restart, FlagHasOwner
<1> QED
  BY <1>1, <1>2, <1>3, <1>4, <1>5, <1>6, <1>7, <1>8 DEF Next, Step

\* A raised flag always has a running probe that will take it down.
THEOREM FlagOwned == Spec => []FlagHasOwner
<1>1. Init => FlagHasOwner
  BY DEF Init, FlagHasOwner
<1>2. TypeShared /\ FlagHasOwner /\ [Next]_vars => FlagHasOwner'
  BY FlagStep DEF FlagInv
<1> QED
  BY <1>1, <1>2, TypeSharedInvariant, PTL DEF Spec

----------------------------------------------------------------------------
\* The tests of a half-open circuit.

\* The probes that run while a circuit is open began before its last failure.
Older(p) ==
  circuit[p] = "OPEN" => \A c \in Calls :
    at[c] = "probing" /\ Provider(c) = p => failureAge[p] <= probeAge[c]

Few(p) ==
  circuit[p] = "HALF_OPEN" =>
    Cardinality(Probing(p)) <= IF p \in halfOpenInFlight THEN 2 ELSE 1

TestInv == \A p \in Providers : Older(p) /\ Few(p)

\* Time limits end every one of them before the window has passed.
LEMMA NoneLeft ==
  ASSUME TypeOK, NEW p \in Providers, Older(p), circuit[p] = "OPEN", Elapsed(p)
  PROVE  Probing(p) = {}
<1> SUFFICES ASSUME NEW c \in Calls, at[c] = "probing", Provider(c) = p PROVE FALSE
  BY DEF Probing
<1>1. failureAge[p] <= probeAge[c] /\ failureAge[p] = Window /\ probeAge[c] \in 0 .. ProbeTimeout
  BY DEF Older, Elapsed, TypeOK
<1> QED
  BY <1>1, ChannelAssumption

LEMMA ProbingCount ==
  ASSUME NEW p
  PROVE  IsFiniteSet(Probing(p)) /\ Cardinality(Probing(p)) \in Nat
<1>1. Probing(p) \subseteq Calls
  BY DEF Probing
<1> QED
  BY <1>1, ChannelAssumption, FS_Subset, FS_CardinalityType

\* A step that moves nothing of p but the end of some of its probes.
LEMMA TestsStay ==
  ASSUME NEW p \in Providers, Older(p), Few(p),
         circuit'[p] = circuit[p], failureAge'[p] = failureAge[p],
         p \in halfOpenInFlight' <=> p \in halfOpenInFlight,
         \A d \in Calls : at'[d] = "probing" /\ Provider(d)' = p =>
           at[d] = "probing" /\ Provider(d) = p /\ probeAge'[d] = probeAge[d]
  PROVE  Older(p)' /\ Few(p)'
<1>1. Older(p)'
  BY DEF Older
<1>2. Probing(p)' \subseteq Probing(p)
  BY DEF Probing
<1>3. Cardinality(Probing(p)') <= Cardinality(Probing(p)) /\ Cardinality(Probing(p)') \in Nat
  BY <1>2, ProbingCount, FS_Subset, FS_CardinalityType
<1>4. Few(p)'
  BY <1>3, ProbingCount DEF Few
<1> QED
  BY <1>1, <1>4

\* No step of the request but its start makes it probe, and none but its answer
\* tells the circuit anything.
LEMMA TestFrame ==
  ASSUME TestInv, UNCHANGED health,
         \A d \in Calls : at'[d] = "probing" =>
           at[d] = "probing" /\ chan'[d] = chan[d] /\ probeAge'[d] = probeAge[d]
  PROVE  TestInv'
<1> SUFFICES ASSUME NEW p \in Providers PROVE Older(p)' /\ Few(p)'
  BY DEF TestInv
<1>1. \A d \in Calls : at'[d] = "probing" /\ Provider(d)' = p =>
        at[d] = "probing" /\ Provider(d) = p /\ probeAge'[d] = probeAge[d]
  BY DEF Provider
<1> QED
  BY <1>1, TestsStay DEF TestInv, health

LEMMA TestStart ==
  ASSUME TypeOK, TestInv, NEW c \in Calls, NEW ch \in Channels, Start(c, ch)
  PROVE  TestInv'
<1> PICK p \in Providers : p = ProviderOf[ch]
  BY ChannelAssumption
<1>1. /\ at[c] = "idle" /\ CanAttempt(p) /\ UNCHANGED <<probeAge, failureAge>>
      /\ at' = [at EXCEPT ![c] = "probing"] /\ chan' = [chan EXCEPT ![c] = ch]
  BY DEF Start, Asks, Goes, CanAttempt
<1>2. /\ \A d \in Calls \ {c} : at'[d] = at[d] /\ Provider(d)' = Provider(d)
      /\ Provider(c)' = p
  BY <1>1 DEF TypeOK, Provider
<1> SUFFICES ASSUME NEW q \in Providers PROVE Older(q)' /\ Few(q)'
  BY DEF TestInv
<1>3. CASE q # p
  <2>1. /\ circuit'[q] = circuit[q] /\ failureAge'[q] = failureAge[q]
        /\ q \in halfOpenInFlight' <=> q \in halfOpenInFlight
    BY <1>1, <1>3 DEF CanAttempt, TypeOK
  <2> QED
    BY <1>1, <1>2, <1>3, <2>1, TestsStay DEF TestInv
<1>4. CASE q = p
  <2>1. Probing(p)' \subseteq Probing(p) \cup {c}
    BY <1>2 DEF Probing
  <2>2. CASE circuit[p] = "CLOSED" /\ UNCHANGED circuit
    BY <1>4, <2>2 DEF Older, Few
  <2>3. CASE /\ circuit[p] = "OPEN" /\ Elapsed(p)
             /\ circuit' = [circuit EXCEPT ![p] = "HALF_OPEN"]
    <3>1. Probing(p) = {} /\ circuit'[p] = "HALF_OPEN"
      BY <2>3, NoneLeft DEF TestInv, TypeOK
    <3>2. Cardinality(Probing(p)') <= 1
      <4>1. IsFiniteSet({c}) /\ Cardinality({c}) = 1
        BY FS_Singleton
      <4>2. Cardinality(Probing(p)') <= Cardinality({c})
        BY <2>1, <3>1, <4>1, FS_Subset
      <4> QED
        BY <4>1, <4>2
    <3>3. Cardinality(Probing(p)') \in Nat
      BY <1>1, <2>1, <3>1, FS_Subset, FS_Singleton, FS_CardinalityType
    <3> QED
      BY <1>4, <3>1, <3>2, <3>3 DEF Older, Few
  <2>4. CASE /\ circuit[p] = "HALF_OPEN" /\ p \notin halfOpenInFlight
             /\ halfOpenInFlight' = halfOpenInFlight \cup {p} /\ UNCHANGED circuit
    <3>1. Cardinality(Probing(p)) <= 1 /\ p \in halfOpenInFlight' /\ circuit'[p] = "HALF_OPEN"
      BY <2>4 DEF TestInv, Few
    <3>2. c \notin Probing(p)
      BY <1>1 DEF Probing
    <3>3. /\ IsFiniteSet(Probing(p) \cup {c})
          /\ Cardinality(Probing(p) \cup {c}) = Cardinality(Probing(p)) + 1
      BY <3>2, ProbingCount, FS_AddElement
    <3>4. /\ Cardinality(Probing(p)') <= Cardinality(Probing(p) \cup {c})
          /\ Cardinality(Probing(p)') \in Nat
      BY <2>1, <3>3, FS_Subset, FS_CardinalityType
    <3>5. Cardinality(Probing(p)') <= 2
      BY <3>1, <3>3, <3>4, ProbingCount
    <3> QED
      BY <1>4, <3>1, <3>5 DEF Older, Few
  <2> QED
    BY <1>1, <2>2, <2>3, <2>4 DEF CanAttempt
<1> QED
  BY <1>3, <1>4

\* The answer of a probe closes or opens the circuit.  An open one counts its
\* window from here, later than every probe began.
LEMMA TestSettles ==
  ASSUME TypeShared, TestInv, NEW c \in Calls, NEW answer \in Answers,
         NEW qr \in QrCodes \cup {NoQr}, Settles(c, answer, qr)
  PROVE  TestInv'
<1>1. TypeOK /\ TypeOK' /\ at[c] = "probing" /\ chan[c] \in Channels
  BY SettlesType DEF TypeShared, Shared, Settles, Working
<1> PICK p \in Providers : p = Provider(c)
  BY <1>1, ChannelAssumption DEF Provider
<1>2. /\ UNCHANGED chan /\ at'[c] # "probing"
      /\ \A d \in Calls \ {c} : at'[d] = at[d] /\ probeAge'[d] = probeAge[d]
  BY <1>1 DEF Settles, Goes, TypeOK
<1>3. MarkSuccess(p) \/ MarkFailure(p)
  BY DEF Settles
<1> SUFFICES ASSUME NEW q \in Providers PROVE Older(q)' /\ Few(q)'
  BY DEF TestInv
<1>4. CASE q # p
  <2>1. /\ circuit'[q] = circuit[q] /\ failureAge'[q] = failureAge[q]
        /\ q \in halfOpenInFlight' <=> q \in halfOpenInFlight
    BY <1>1, <1>3, <1>4 DEF MarkSuccess, MarkFailure, TypeOK
  <2> QED
    BY <1>2, <1>4, <2>1, TestsStay DEF TestInv, Provider
<1>5. CASE q = p
  <2>1. circuit'[p] # "HALF_OPEN"
    BY <1>1, <1>3 DEF MarkSuccess, MarkFailure, TypeOK
  <2>2. circuit'[p] = "OPEN" => failureAge'[p] = 0
    BY <1>1, <1>3 DEF MarkSuccess, MarkFailure, TypeOK
  <2>3. \A d \in Calls : probeAge'[d] \in Nat
    BY <1>1, ChannelAssumption DEF TypeOK
  <2> QED
    BY <1>5, <2>1, <2>2, <2>3 DEF Older, Few
<1> QED
  BY <1>4, <1>5

\* Until the window has passed, a tick makes the probes and the failure older
\* together.
LEMMA TestTick ==
  ASSUME TypeOK, TestInv, Tick
  PROVE  TestInv'
<1> SUFFICES ASSUME NEW p \in Providers PROVE Older(p)' /\ Few(p)'
  BY DEF TestInv
<1>1. UNCHANGED <<at, chan, circuit, halfOpenInFlight>>
  BY DEF Tick
<1>2. Few(p)'
  BY <1>1 DEF TestInv, Few, Probing, Provider
<1>3. Older(p)'
  <2> SUFFICES ASSUME circuit[p] = "OPEN", NEW c \in Calls, at[c] = "probing", Provider(c) = p
               PROVE  failureAge'[p] <= probeAge'[c]
    BY <1>1 DEF Older, Provider
  <2>1. failureAge[p] <= probeAge[c] /\ failureAge[p] \in Nat /\ probeAge[c] \in Nat
    BY ChannelAssumption DEF TestInv, Older, TypeOK
  <2>2. /\ probeAge'[c] = probeAge[c] + 1
        /\ failureAge'[p] = failureAge[p] \/ failureAge'[p] = failureAge[p] + 1
    BY DEF Tick
  <2> QED
    BY <2>1, <2>2
<1> QED
  BY <1>2, <1>3

LEMMA TestStep == TypeShared /\ TestInv /\ [Next]_vars => TestInv'
<1> SUFFICES ASSUME TypeShared, TestInv, [Next]_vars PROVE TestInv'
  OBVIOUS
<1>0. TypeOK
  BY DEF TypeShared
<1>1. ASSUME NEW c \in Calls, NEW ch \in Channels, Join(c, ch) PROVE TestInv'
  <2>1. \A d \in Calls : at'[d] = "probing" => at[d] = "probing" /\ chan'[d] = chan[d]
    BY <1>0, <1>1 DEF Join, Asks, Goes, TypeOK
  <2> QED
    BY <1>1, <2>1, TestFrame DEF Join, Asks
<1>2. ASSUME NEW c \in Calls, NEW ch \in Channels, Start(c, ch) PROVE TestInv'
  BY <1>0, <1>2, TestStart
<1>3. ASSUME NEW c \in Calls, ProviderAnswers(c) \/ ProbeTimesOut(c) PROVE TestInv'
  <2>1. PICK answer \in Answers, qr \in QrCodes \cup {NoQr} : Settles(c, answer, qr)
    BY <1>3 DEF ProviderAnswers, ProbeTimesOut
  <2> QED
    BY <2>1, TestSettles
<1>4. ASSUME NEW c \in Calls, GatePasses(c) PROVE TestInv'
  <2>1. \A d \in Calls : at'[d] = "probing" => at[d] = "probing"
    BY <1>0, <1>4 DEF GatePasses, Goes, TypeOK
  <2> QED
    BY <1>4, <2>1, TestFrame DEF GatePasses
<1>5. ASSUME NEW c \in Calls, GateFails(c) \/ Finish(c) PROVE TestInv'
  <2>1. \A d \in Calls : at'[d] = "probing" => at[d] = "probing" /\ chan'[d] = chan[d]
    BY <1>5 DEF GateFails, Finish, Answered
  <2> QED
    BY <1>5, <2>1, TestFrame DEF GateFails, Finish
<1>6. ASSUME NEW p \in Providers, GetProviderCircuitState(p) PROVE TestInv'
  <2> SUFFICES ASSUME NEW q \in Providers PROVE Older(q)' /\ Few(q)'
    BY DEF TestInv
  <2>1. /\ UNCHANGED <<at, chan, probeAge, failureAge, halfOpenInFlight>>
        /\ circuit' = [circuit EXCEPT ![p] = "HALF_OPEN"]
    BY <1>6 DEF GetProviderCircuitState, request
  <2>2. CASE q = p
    <3>1. Probing(p)' = {} /\ circuit'[p] = "HALF_OPEN"
      BY <1>0, <1>6, <2>1, NoneLeft DEF GetProviderCircuitState, TestInv, TypeOK, Probing, Provider
    <3> QED
      BY <2>2, <3>1, FS_EmptySet DEF Older, Few
  <2>3. CASE q # p
    <3>1. circuit'[q] = circuit[q]
      BY <1>0, <2>1, <2>3 DEF TypeOK
    <3> QED
      BY <2>1, <3>1, TestsStay DEF TestInv, Provider
  <2> QED
    BY <2>2, <2>3
<1>7. CASE Tick
  BY <1>0, <1>7, TestTick
<1>8. CASE RedisFails \/ RedisReturns \/ UNCHANGED vars \/ \E ch \in Channels : ConnectJobEnds(ch)
  BY <1>8, TestFrame DEF RedisFails, RedisReturns, vars, ConnectJobEnds, request
<1>9. CASE Restart
  BY <1>9 DEF Restart, TestInv, Older, Few
<1> QED
  BY <1>1, <1>2, <1>3, <1>4, <1>5, <1>6, <1>7, <1>8, <1>9 DEF Next, Step

\* However polls, timeouts, late failures and reads of the circuit interleave, a
\* half-open circuit lets one test through with its flag down and two with it up.
THEOREM TestsBounded == Spec => []TwoTestsAtMost
<1>1. Init => TestInv
  BY DEF Init, TestInv, Older, Few
<1>2. TestInv => TwoTestsAtMost
  BY DEF TestInv, Few, TwoTestsAtMost
<1> QED
  BY <1>1, <1>2, TestStep, TypeSharedInvariant, PTL DEF Spec

----------------------------------------------------------------------------
\* What the clients are shown.

Told == TracksLast /\ Agree

\* A step that begins and ends no write of the cache keeps what was told.
LEMMA ToldStays ==
  ASSUME Told, UNCHANGED <<cached, shown>>,
         \A d \in Calls : at'[d] = "tracking" <=> at[d] = "tracking",
         \A d \in Calls : at[d] = "tracking" =>
           chan'[d] = chan[d] /\ result'[d] = result[d] /\ previous'[d] = previous[d]
  PROVE  Told'
<1>1. TracksLast'
  BY DEF Told, TracksLast
<1>2. \A ch \in Channels : NoneTracking(ch)' => NoneTracking(ch)
  BY DEF NoneTracking
<1>3. Agree'
  BY <1>2 DEF Told, Agree
<1> QED
  BY <1>1, <1>3 DEF Told

\* The request that writes the cache is alone on its channel, so the state it
\* replaces is the one the clients are shown.
LEMMA ToldCache ==
  ASSUME TypeShared, Told, NEW c \in Calls, at[c] \in Working, at[c] # "tracking",
         NEW state \in States, Cache(c, state), Goes(c, "tracking"),
         UNCHANGED <<chan, shown>>
  PROVE  Told'
<1> PICK ch \in Channels : ch = chan[c]
  BY DEF TypeShared, Shared
<1>1. TypeOK /\ inFlight[ch] = c
  BY DEF TypeShared, Shared
<1>2. \A d \in Calls : at[d] \in Working /\ d # c => chan[d] \in Channels /\ chan[d] # ch
  BY <1>1 DEF TypeShared, Shared
<1>3. NoneTracking(ch)
  BY <1>2 DEF NoneTracking, Working
<1>4. /\ result'[c] = state /\ previous'[c] = cached[ch] /\ cached'[ch] = state
      /\ at'[c] = "tracking"
  BY <1>1 DEF Cache, Goes, TypeOK
<1>5. \A d \in Calls : d # c =>
        at'[d] = at[d] /\ result'[d] = result[d] /\ previous'[d] = previous[d]
  BY <1>1 DEF Cache, Goes, TypeOK
<1>6. \A k \in Channels : k # ch => cached'[k] = cached[k]
  BY <1>1 DEF Cache, TypeOK
<1>7. ASSUME NEW d \in Calls, at'[d] = "tracking"
      PROVE  /\ result'[d] = cached'[chan'[d]] /\ result'[d] # NoState
             /\ previous'[d] \in {shown'[chan'[d]], NoState}
  <2>1. CASE d = c
    <3>1. cached[ch] \in {shown[ch], NoState}
      BY <1>3 DEF Told, Agree
    <3> QED
      BY <1>4, <2>1, <3>1, NoStateIsNone
  <2>2. CASE d # c
    <3>1. at[d] = "tracking" /\ chan[d] \in Channels /\ chan[d] # ch
      BY <1>2, <1>5, <1>7, <2>2 DEF Working
    <3> QED
      BY <1>5, <1>6, <2>2, <3>1 DEF Told, TracksLast
  <2> QED
    BY <2>1, <2>2
<1>8. ASSUME NEW k \in Channels, cached'[k] # NoState, NoneTracking(k)'
      PROVE  shown'[k] = cached'[k]
  <2>1. k # ch
    BY <1>4, <1>8 DEF NoneTracking
  <2>2. NoneTracking(k)
    BY <1>5, <1>8, <2>1 DEF NoneTracking
  <2> QED
    BY <1>6, <1>8, <2>1, <2>2 DEF Told, Agree
<1> QED
  BY <1>7, <1>8 DEF Told, TracksLast, Agree

\* The events of a request tell the clients what it wrote.
LEMMA ToldFinish ==
  ASSUME TypeShared, Told, NEW c \in Calls, Finish(c)
  PROVE  Told'
<1>0. at[c] = "tracking" /\ Answered(c) /\ UNCHANGED cached
  BY DEF Finish
<1> PICK ch \in Channels : ch = chan[c]
  BY <1>0 DEF TypeShared, Shared, Working
<1>1. TypeOK /\ inFlight[ch] = c
  BY <1>0 DEF TypeShared, Shared, Working
<1>2. \A d \in Calls : at[d] = "tracking" /\ d # c => chan[d] \in Channels /\ chan[d] # ch
  BY <1>1 DEF TypeShared, Shared, Working
<1>3. /\ result[c] = cached[ch] /\ result[c] # NoState
      /\ previous[c] \in {shown[ch], NoState}
  BY <1>0 DEF Told, TracksLast
<1>4. shown'[ch] = cached[ch] /\ \A k \in Channels : k # ch => shown'[k] = shown[k]
  BY <1>1, <1>3 DEF Finish, TypeOK
<1>5. at'[c] = "idle"
  BY <1>0 DEF Answered
<1>6. \A d \in Calls : at'[d] = "tracking" => at[d] = "tracking" /\ d # c
  BY <1>0, <1>5 DEF Answered
<1>7. \A d \in Calls : at[d] = "tracking" /\ d # c =>
        /\ at'[d] = "tracking" /\ chan'[d] = chan[d]
        /\ result'[d] = result[d] /\ previous'[d] = previous[d]
  BY <1>0, <1>1 DEF Answered, TypeOK
<1>8. TracksLast'
  <2> SUFFICES ASSUME NEW d \in Calls, at'[d] = "tracking"
               PROVE  /\ result'[d] = cached'[chan'[d]] /\ result'[d] # NoState
                      /\ previous'[d] \in {shown'[chan'[d]], NoState}
    BY DEF TracksLast
  <2>1. at[d] = "tracking" /\ d # c
    BY <1>6
  <2>2. /\ result[d] = cached[chan[d]] /\ result[d] # NoState
        /\ previous[d] \in {shown[chan[d]], NoState}
    BY <2>1 DEF Told, TracksLast
  <2> QED
    BY <1>0, <1>2, <1>4, <1>7, <2>1, <2>2
<1>9. ASSUME NEW k \in Channels, cached'[k] # NoState, NoneTracking(k)'
      PROVE  shown'[k] = cached'[k]
  <2>1. CASE k = ch
    BY <1>0, <1>4, <2>1
  <2>2. CASE k # ch
    <3>1. NoneTracking(k)
      BY <1>7, <1>9, <2>2 DEF NoneTracking
    <3> QED
      BY <1>0, <1>4, <1>9, <2>2, <3>1 DEF Told, Agree
  <2> QED
    BY <2>1, <2>2
<1> QED
  BY <1>8, <1>9 DEF Told, Agree

LEMMA ToldStep == TypeShared /\ Told /\ [Next]_vars => Told'
<1> SUFFICES ASSUME TypeShared, Told, [Next]_vars PROVE Told'
  OBVIOUS
<1>0. TypeOK
  BY DEF TypeShared
<1>1. ASSUME NEW c \in Calls, NEW ch \in Channels, Join(c, ch) \/ Start(c, ch)
      PROVE  Told'
  <2>1. PICK place \in {"joined", "probing"} : Asks(c, ch, place)
    BY <1>1 DEF Join, Start
  <2>2. \A d \in Calls : at'[d] = "tracking" <=> at[d] = "tracking"
    BY <1>0, <2>1 DEF Asks, Goes, TypeOK
  <2>3. \A d \in Calls : at[d] = "tracking" => chan'[d] = chan[d]
    BY <1>0, <2>1 DEF Asks, TypeOK
  <2> QED
    BY <2>1, <2>2, <2>3, ToldStays DEF Asks
<1>2. ASSUME NEW c \in Calls, ProviderAnswers(c) \/ ProbeTimesOut(c) PROVE Told'
  <2>1. PICK answer \in Answers, qr \in QrCodes \cup {NoQr} : Settles(c, answer, qr)
    BY <1>2 DEF ProviderAnswers, ProbeTimesOut
  <2>2. CASE FinalStatus(answer, qr) = "error"
    <3>1. /\ at' = [at EXCEPT ![c] = "gate"] /\ at[c] = "probing"
          /\ UNCHANGED <<cached, shown, chan, result, previous>>
      BY <2>1, <2>2 DEF Settles, Goes
    <3>2. \A d \in Calls : at'[d] = "tracking" <=> at[d] = "tracking"
      BY <1>0, <3>1 DEF TypeOK
    <3> QED
      BY <3>1, <3>2, ToldStays
  <2>3. CASE FinalStatus(answer, qr) # "error"
    <3>1. PICK state \in States : Cache(c, state) /\ Goes(c, "tracking")
      BY <2>1, <2>3, FinalType DEF Settles
    <3>2. at[c] = "probing" /\ UNCHANGED <<chan, shown>>
      BY <2>1 DEF Settles
    <3> QED
      BY <3>1, <3>2, ToldCache DEF Working
  <2> QED
    BY <2>2, <2>3
<1>3. ASSUME NEW c \in Calls, GatePasses(c) PROVE Told'
  <2>1. PICK state \in States : Cache(c, state)
    BY <1>3 DEF GatePasses, States, Answers
  <2>2. at[c] = "gate" /\ Goes(c, "tracking") /\ UNCHANGED <<chan, shown>>
    BY <1>3 DEF GatePasses
  <2> QED
    BY <2>1, <2>2, ToldCache DEF Working
<1>4. ASSUME NEW c \in Calls, GateFails(c) PROVE Told'
  <2>1. at[c] = "gate" /\ Answered(c) /\ UNCHANGED <<cached, shown>>
    BY <1>4 DEF GateFails
  <2>2. \A d \in Calls : at'[d] = "tracking" <=> at[d] = "tracking"
    BY <2>1 DEF Answered
  <2>3. \A d \in Calls : at[d] = "tracking" =>
          chan'[d] = chan[d] /\ result'[d] = result[d] /\ previous'[d] = previous[d]
    BY <1>0, <2>1 DEF Answered, TypeOK
  <2> QED
    BY <2>1, <2>2, <2>3, ToldStays
<1>5. ASSUME NEW c \in Calls, Finish(c) PROVE Told'
  BY <1>5, ToldFinish
<1>6. CASE \/ Tick \/ RedisFails \/ RedisReturns \/ UNCHANGED vars
           \/ \E p \in Providers : GetProviderCircuitState(p)
           \/ \E ch \in Channels : ConnectJobEnds(ch)
  <2>1. UNCHANGED <<at, chan, result, previous, cached, shown>>
    BY <1>6 DEF Tick, RedisFails, RedisReturns, vars, GetProviderCircuitState,
       ConnectJobEnds, request, cache
  <2> QED
    BY <2>1, ToldStays
<1>7. CASE Restart
  BY <1>7 DEF Restart, Told, TracksLast, Agree
<1> QED
  BY <1>1, <1>2, <1>3, <1>4, <1>5, <1>6, <1>7 DEF Next, Step

\* With no probe of a channel in flight the clients are shown what is cached.
THEOREM ClientsCurrent == Spec => []ClientsSeeCached
<1>1. Init => Told
  BY DEF Init, Told, TracksLast, Agree
<1>2. TypeShared /\ Told /\ [Next]_vars => Told'
  BY ToldStep
<1>3. TypeShared /\ Told => ClientsSeeCached
  <2> SUFFICES ASSUME TypeShared, Told, NEW ch \in Channels,
                      inFlight[ch] = NoCall, cached[ch] # NoState
               PROVE  shown[ch] = cached[ch]
    BY DEF ClientsSeeCached
  <2>1. NoneTracking(ch)
    BY ChannelAssumption DEF TypeShared, Shared, Working, NoneTracking,
       ChannelAssumption
  <2> QED
    BY <2>1 DEF Told, Agree
<1> QED
  BY <1>1, <1>2, <1>3, TypeSharedInvariant, PTL DEF Spec

----------------------------------------------------------------------------
\* Connection: the row of a channel, for every set of requests and rounds of the
\* monitor.  Each action writes some of four groups of variables.

RowFits ==
  /\ row \in Rows /\ told \in Connections /\ throttled \subseteq Connections

InstanceFits ==
  /\ instance \in [RowProviders -> Instances]
  /\ webhooks \subseteq (RowProviders \X Instances)

WorkFits ==
  /\ stage \in [Workers -> RowPlaces]
  /\ op \in [Workers -> Operations \cup {"none", "webhook"}]
  /\ snap \in [Workers -> Rows]
  /\ saw \in [Workers -> Instances]

CountersFit == requests \in 0 .. MaxRequests /\ moves \in 0 .. MaxMoves

LEMMA RowParts == RowTypeOK <=> RowFits /\ InstanceFits /\ WorkFits /\ CountersFit
BY DEF RowTypeOK, RowFits, InstanceFits, WorkFits, CountersFit

LEMMA MovedFits ==
  ASSUME row \in Rows, NEW next \in Connections
  PROVE  Moved(next) \in Rows
BY DEF Rows, Moved, LegacyStatus

LEMMA PhasePatched ==
  ASSUME NEW r \in Rows, NEW phase \in Phases
  PROVE  [r EXCEPT !.phase = phase] \in Rows
BY DEF Rows

LEMMA ExtPatched ==
  ASSUME NEW r \in Rows, NEW ext \in RowProviders \cup {"none"}
  PROVE  [r EXCEPT !.ext = ext] \in Rows
BY DEF Rows

LEMMA TellFits ==
  ASSUME RowFits, NEW conn \in Connections, Tell(conn)
  PROVE  told' \in Connections /\ throttled' \subseteq Connections
BY DEF RowFits, Tell, clients

\* A transition writes columns of the right types, or none.
LEMMA TransitionKeeps ==
  ASSUME RowFits, NEW seen, NEW trusted, NEW next, NEW r \in Rows,
         Transition(seen, next, trusted, r)
  PROVE  RowFits'
<1>1. r.conn \in Connections
  BY DEF Rows
<1> QED
  BY <1>1, TellFits DEF Transition, Save, RowFits, clients

LEMMA SaveKeeps ==
  ASSUME RowFits, NEW r \in Rows, Save(r) \/ UNCHANGED <<row, clients>>
  PROVE  RowFits'
<1>1. r.conn \in Connections
  BY DEF Rows
<1> QED
  BY <1>1, TellFits DEF Save, RowFits, clients

LEMMA UnwrittenKeeps ==
  ASSUME RowFits, Unwritten
  PROVE  RowFits'
BY DEF RowFits, Unwritten, clients

LEMMA BecomesFits ==
  ASSUME InstanceFits, NEW p \in RowProviders, NEW state \in Instances,
         Becomes(p, state)
  PROVE  InstanceFits'
BY DEF InstanceFits, Becomes

LEMMA StillFits == InstanceFits /\ Still => InstanceFits'
BY DEF InstanceFits, Still

LEMMA LookupFits ==
  ASSUME InstanceFits, NEW r
  PROVE  Lookup(r) \in Instances /\ StatusAnswers(r) \subseteq Instances
BY DEF InstanceFits, Lookup, StatusAnswers, RowProviders, Instances

LEMMA StartsFits ==
  ASSUME InstanceFits, NEW p \in RowProviders, Starts(p)
  PROVE  InstanceFits'
<1>1. (IF instance[p] = "close" THEN "connecting" ELSE instance[p]) \in Instances
  BY DEF InstanceFits, Instances
<1> QED
  BY <1>1, BecomesFits DEF Starts

LEMMA NothingFits == Nothing \in Rows
BY DEF Nothing, Created, Rows, RowProviders, Connections, Phases

LEMMA KeptFits == \A o, r : r \in Rows => Kept(o, r) \in Rows
BY DEF Kept, Rows, Connections, Phases

LEMMA GoesToFits ==
  ASSUME WorkFits, NEW w \in Workers, NEW place \in RowPlaces, GoesTo(w, place)
  PROVE  WorkFits'
BY DEF WorkFits, GoesTo

LEMMA SeesFits ==
  ASSUME WorkFits, NEW w \in Workers, NEW state \in Instances, NEW place \in RowPlaces,
         Sees(w, state, place)
  PROVE  WorkFits'
BY DEF WorkFits, Sees

LEMMA EndsFits ==
  ASSUME WorkFits, NEW w \in Workers, Ends(w)
  PROVE  WorkFits'
BY NothingFits DEF WorkFits, Ends, RowPlaces, Instances

LEMMA CountersStay == CountersFit /\ Counters => CountersFit'
BY DEF CountersFit, Counters

LEMMA ConnectionOfFits == \A state \in Instances : ConnectionOf(state) \in Connections
BY DEF Instances, ConnectionOf, Connections

LEMMA RowJoined ==
  RowFits' /\ InstanceFits' /\ WorkFits' /\ CountersFit' => RowTypeOK'
BY DEF RowTypeOK, RowFits, InstanceFits, WorkFits, CountersFit

\* What a worker has read.
LEMMA ReadFits ==
  ASSUME WorkFits, NEW w \in Workers
  PROVE  /\ snap[w] \in Rows /\ saw[w] \in Instances
         /\ snap[w].provider \in RowProviders /\ snap[w].phase \in Phases
         /\ snap[w].ext \in RowProviders \cup {"none"}
BY DEF WorkFits, Rows

LEMMA InstanceStates ==
  /\ {"absent", "close", "connecting", "open"} \subseteq Instances
  /\ {"waha", "evolution"} \subseteq RowProviders
BY DEF Instances, RowProviders

\* A step that writes nothing in the row, and moves an instance at most.
LEMMA UnwrittenStep ==
  ASSUME RowTypeOK, Unwritten, Counters, InstanceFits', WorkFits'
  PROVE  RowTypeOK'
BY RowParts, UnwrittenKeeps, CountersStay, RowJoined

LEMMA EnsureKeeps ==
  ASSUME RowTypeOK, NEW t \in Tasks, NEW o, NEW place \in RowPlaces, EnsureThen(t, o, place)
  PROVE  RowTypeOK'
<1>1. InstanceFits /\ WorkFits /\ t \in Workers
  BY RowParts DEF Workers
<1>2. InstanceFits'
  <2>1. CASE Still
    BY <1>1, <2>1, StillFits
  <2>2. CASE Becomes(snap[t].provider,
                     IF Lookup(snap[t]) = "open" THEN "open" ELSE "connecting")
    BY <1>1, <2>2, ReadFits, BecomesFits, InstanceStates
  <2> QED
    BY <2>1, <2>2 DEF EnsureThen, EnsureSession
<1>3. WorkFits'
  BY <1>1, EndsFits, GoesToFits DEF EnsureThen
<1> QED
  BY <1>2, <1>3, UnwrittenStep DEF EnsureThen

\* The steps of a request that ask a provider.
LEMMA AskingKeeps ==
  ASSUME RowTypeOK, NEW t \in Tasks,
         \/ EnsureToConnect(t) \/ EnsureForQr(t) \/ EnsureForArtifact(t)
         \/ Connect(t) \/ AskQr(t) \/ AskStatus(t) \/ AskArtifact(t)
         \/ Logout(t) \/ Remove(t) \/ Create(t)
  PROVE  RowTypeOK'
<1>1. InstanceFits /\ WorkFits /\ t \in Workers
  BY RowParts DEF Workers
<1>2. snap[t].provider \in RowProviders /\ saw[t] \in Instances
  BY <1>1, ReadFits
<1>3. CASE EnsureToConnect(t) \/ EnsureForQr(t) \/ EnsureForArtifact(t)
  BY <1>3, EnsureKeeps DEF EnsureToConnect, EnsureForQr, EnsureForArtifact, RowPlaces
<1>4. CASE Connect(t)
  <2>1. InstanceFits'
    <3>1. CASE Still
      BY <1>1, <3>1, StillFits
    <3>2. CASE Becomes(snap[t].provider,
                       IF Lookup(snap[t]) = "open" THEN "open" ELSE "connecting")
      BY <1>1, <1>2, <3>2, BecomesFits, InstanceStates
    <3> QED
      BY <1>4, <3>1, <3>2 DEF Connect
  <2>2. WorkFits'
    BY <1>1, <1>4, EndsFits, GoesToFits DEF Connect, RowPlaces
  <2> QED
    BY <1>4, <2>1, <2>2, UnwrittenStep DEF Connect
<1>5. CASE AskQr(t)
  <2>1. InstanceFits'
    BY <1>1, <1>2, <1>5, StillFits, StartsFits DEF AskQr
  <2>2. WorkFits'
    BY <1>1, <1>5, EndsFits, GoesToFits DEF AskQr, RowPlaces
  <2> QED
    BY <1>5, <2>1, <2>2, UnwrittenStep DEF AskQr
<1>6. CASE AskStatus(t)
  <2>1. InstanceFits'
    BY <1>1, <1>6, StillFits DEF AskStatus
  <2>2. WorkFits'
    <3>1. CASE Ends(t)
      BY <1>1, <3>1, EndsFits
    <3>2. CASE \E s \in StatusAnswers(snap[t]) : Sees(t, s, "report")
      BY <1>1, <3>2, LookupFits, SeesFits DEF RowPlaces
    <3> QED
      BY <1>6, <3>1, <3>2 DEF AskStatus
  <2> QED
    BY <1>6, <2>1, <2>2, UnwrittenStep DEF AskStatus
<1>7. CASE AskArtifact(t)
  <2>1. InstanceFits'
    BY <1>1, <1>7, StillFits DEF AskArtifact
  <2>2. WorkFits'
    <3>1. CASE Ends(t)
      BY <1>1, <3>1, EndsFits
    <3>2. CASE \E s \in Instances, place \in RowPlaces : Sees(t, s, place)
      BY <1>1, <3>2, SeesFits
    <3>3. {"report", "clear", "persist"} \subseteq RowPlaces
      BY DEF RowPlaces
    <3>4. \/ Ends(t)
          \/ Sees(t, "absent", "report")
          \/ \E s \in StatusAnswers(snap[t]) :
               Sees(t, s, "clear") \/ Sees(t, s, "persist")
      BY <1>7 DEF AskArtifact
    <3> QED
      BY <1>1, <3>1, <3>2, <3>3, <3>4, LookupFits, InstanceStates
  <2> QED
    BY <1>7, <2>1, <2>2, UnwrittenStep DEF AskArtifact
<1>8. CASE Logout(t)
  <2>1. InstanceFits'
    BY <1>1, <1>2, <1>8, StillFits, BecomesFits, InstanceStates DEF Logout
  <2>2. WorkFits'
    <3>1. {"remove", "unlink", "name"} \subseteq RowPlaces
      BY DEF RowPlaces
    <3> QED
      BY <1>1, <1>8, <3>1, EndsFits, GoesToFits DEF Logout
  <2> QED
    BY <1>8, <2>1, <2>2, UnwrittenStep DEF Logout
<1>9. CASE Remove(t)
  <2>1. InstanceFits'
    BY <1>1, <1>2, <1>9, StillFits, BecomesFits, InstanceStates DEF Remove
  <2>2. WorkFits'
    BY <1>1, <1>9, GoesToFits DEF Remove, RowPlaces
  <2> QED
    BY <1>9, <2>1, <2>2, UnwrittenStep DEF Remove
<1>10. CASE Create(t)
  <2>1. InstanceFits'
    <3>1. (IF instance["evolution"] = "absent" THEN "close" ELSE instance["evolution"])
            \in Instances
      BY <1>1, InstanceStates DEF InstanceFits
    <3> QED
      BY <1>1, <1>10, <3>1, StillFits, BecomesFits, InstanceStates DEF Create
  <2>2. WorkFits'
    BY <1>1, <1>10, GoesToFits DEF Create, RowPlaces
  <2> QED
    BY <1>10, <2>1, <2>2, UnwrittenStep DEF Create
<1> QED
  BY <1>3, <1>4, <1>5, <1>6, <1>7, <1>8, <1>9, <1>10

----------------------------------------------------------------------------
\* The steps that write the row.

\* A step that writes the row and moves no instance.
LEMMA WrittenStep ==
  ASSUME RowTypeOK, Still, Counters, RowFits', WorkFits'
  PROVE  RowTypeOK'
BY RowParts, StillFits, CountersStay, RowJoined

LEMMA MoveKeeps ==
  ASSUME RowFits, NEW seen, NEW trusted, NEW next \in Connections,
         Transition(seen, next, trusted, Moved(next))
  PROVE  RowFits'
BY MovedFits, TransitionKeeps DEF RowFits

\* The same with columns of the caller's patch.
LEMMA PatchedMoveKeeps ==
  ASSUME RowFits, NEW seen, NEW trusted, NEW next \in Connections,
         NEW ext \in RowProviders \cup {"none"}, NEW p \in RowProviders,
         NEW phase \in Phases,
         \/ Transition(seen, next, trusted,
                       [Moved(next) EXCEPT !.ext = ext, !.provider = p, !.phase = phase])
         \/ Transition(seen, next, trusted, [Moved(next) EXCEPT !.phase = phase])
         \/ Transition(seen, next, trusted, [Moved(next) EXCEPT !.ext = ext])
  PROVE  RowFits'
<1>1. Moved(next) \in Rows
  BY MovedFits DEF RowFits
<1>2. CASE Transition(seen, next, trusted,
                      [Moved(next) EXCEPT !.ext = ext, !.provider = p, !.phase = phase])
  <2> DEFINE r == [Moved(next) EXCEPT !.ext = ext, !.provider = p, !.phase = phase]
  <2>1. r \in Rows
    BY <1>1 DEF Rows
  <2>2. Transition(seen, next, trusted, r)
    BY <1>2
  <2> HIDE DEF r
  <2> QED
    BY <2>1, <2>2, TransitionKeeps
<1>3. CASE Transition(seen, next, trusted, [Moved(next) EXCEPT !.phase = phase])
  BY <1>1, <1>3, PhasePatched, TransitionKeeps
<1>4. CASE Transition(seen, next, trusted, [Moved(next) EXCEPT !.ext = ext])
  BY <1>1, <1>4, ExtPatched, TransitionKeeps
<1> QED
  BY <1>2, <1>3, <1>4

LEMMA RequestWrites ==
  ASSUME RowTypeOK, NEW t \in Tasks,
         \/ WriteConnecting(t) \/ FetchQr(t) \/ MarkConnecting(t) \/ Clear(t)
         \/ Persist(t) \/ Report(t) \/ Unlink(t) \/ Name(t) \/ Drop(t)
  PROVE  RowTypeOK'
<1>1. RowFits /\ WorkFits /\ t \in Workers
  BY RowParts DEF Workers
<1>2. /\ snap[t].provider \in RowProviders /\ saw[t] \in Instances
      /\ snap[t].phase \in Phases
  BY <1>1, ReadFits
<1>3. /\ {"connecting", "disconnected"} \subseteq Connections
      /\ {"awaiting", "connected"} \subseteq Phases
      /\ {"fetchQr", "report", "name"} \subseteq RowPlaces
      /\ "none" \in RowProviders \cup {"none"} /\ row \in Rows
  BY <1>1 DEF Connections, Phases, RowPlaces, RowFits
<1>4. ASSUME NEW phase \in Phases,
             Save([row EXCEPT !.phase = phase]) \/ UNCHANGED <<row, clients>>
      PROVE  RowFits'
  BY <1>1, <1>3, <1>4, PhasePatched, SaveKeeps
<1>5. CASE WriteConnecting(t)
  BY <1>1, <1>2, <1>3, <1>5, PatchedMoveKeeps, GoesToFits, WrittenStep DEF WriteConnecting
<1>6. CASE FetchQr(t)
  BY <1>1, <1>3, <1>4, <1>6, EndsFits, WrittenStep DEF FetchQr
<1>7. CASE MarkConnecting(t)
  BY <1>1, <1>3, <1>7, MoveKeeps, EndsFits, WrittenStep DEF MarkConnecting
<1>8. CASE Clear(t)
  BY <1>1, <1>2, <1>3, <1>4, <1>8, GoesToFits, WrittenStep DEF Clear
<1>9. CASE Persist(t)
  BY <1>1, <1>2, <1>4, <1>9, EndsFits, WrittenStep DEF Persist
<1>10. CASE Report(t)
  <2>1. PICK phased \in BOOLEAN :
          Transition(snap[t], ConnectionOf(saw[t]), TRUE,
            [Moved(ConnectionOf(saw[t])) EXCEPT
               !.phase = IF phased THEN "connected" ELSE Moved(ConnectionOf(saw[t])).phase])
    BY <1>10 DEF Report
  <2>2. ConnectionOf(saw[t]) \in Connections
    BY <1>2, ConnectionOfFits
  <2>3. (IF phased THEN "connected" ELSE Moved(ConnectionOf(saw[t])).phase) \in Phases
    BY <1>3, <2>2, MovedFits DEF Rows
  <2> QED
    BY <1>1, <1>2, <1>3, <1>10, <2>1, <2>2, <2>3, PatchedMoveKeeps, EndsFits, WrittenStep
    DEF Report
<1>11. CASE Unlink(t)
  <2>1. PICK ext \in RowProviders \cup {"none"} :
          Transition(snap[t], "disconnected", FALSE, [Moved("disconnected") EXCEPT !.ext = ext])
    BY <1>3, <1>11, MovedFits DEF Unlink, Rows
  <2> QED
    BY <1>1, <1>2, <1>3, <1>11, <2>1, PatchedMoveKeeps, EndsFits, GoesToFits, WrittenStep
    DEF Unlink
<1>12. CASE Name(t)
  <2>1. PICK p \in RowProviders :
          Save([row EXCEPT !.conn = "disconnected", !.provider = p])
    BY <1>2, <1>12 DEF Name, OtherProvider, RowProviders
  <2>2. [row EXCEPT !.conn = "disconnected", !.provider = p] \in Rows
        /\ [row EXCEPT !.conn = "disconnected", !.provider = p].conn = "disconnected"
    BY <1>3 DEF Rows
  <2>3. /\ row' = [row EXCEPT !.conn = "disconnected", !.provider = p] \/ row' = row
        /\ Tell("disconnected") \/ UNCHANGED clients
    BY <2>1, <2>2 DEF Save
  <2>4. RowFits'
    BY <1>1, <1>3, <1>12, <2>2, <2>3, TellFits DEF RowFits, Name, clients
  <2> QED
    BY <1>1, <1>12, <2>4, EndsFits, WrittenStep DEF Name
<1>13. CASE Drop(t)
  <2>1. row' \in Rows /\ ~row'.exists
    BY <1>3, <1>13 DEF Drop, Rows
  <2> QED
    BY <1>1, <1>13, <2>1, EndsFits, WrittenStep DEF Drop, RowFits, clients
<1> QED
  BY <1>5, <1>6, <1>7, <1>8, <1>9, <1>10, <1>11, <1>12, <1>13

LEMMA ProvisionWrites ==
  ASSUME RowTypeOK, NEW t \in Tasks,
         Listing(t) \/ MarkProvisioning(t) \/ Provisioned(t) \/ ProvisionFails(t)
  PROVE  RowTypeOK'
<1>1. RowFits /\ WorkFits /\ t \in Workers
  BY RowParts DEF Workers
<1>2. /\ {"connecting", "error"} \subseteq Connections
      /\ {"awaiting", "provisioning", "error"} \subseteq Phases
      /\ {"provisioning", "create"} \subseteq RowPlaces
      /\ "evolution" \in RowProviders /\ row \in Rows
  BY <1>1 DEF Connections, Phases, RowPlaces, RowProviders, RowFits
<1>3. CASE Listing(t)
  <2>1. CASE Unwritten /\ (Ends(t) \/ GoesTo(t, "provisioning"))
    BY <1>1, <1>2, <1>3, <2>1, UnwrittenKeeps, EndsFits, GoesToFits, WrittenStep
    DEF Listing
  <2>2. CASE /\ Save([row EXCEPT !.phase = "awaiting", !.provider = "evolution",
                                 !.ext = snap[t].ext])
             /\ Ends(t)
    <3> DEFINE r == [row EXCEPT !.phase = "awaiting", !.provider = "evolution",
                                !.ext = snap[t].ext]
    <3>1. snap[t].ext \in RowProviders \cup {"none"}
      BY <1>1, ReadFits
    <3>2. r \in Rows
      BY <1>2, <3>1 DEF Rows
    <3>3. Save(r)
      BY <2>2
    <3> HIDE DEF r
    <3>4. RowFits'
      BY <1>1, <2>2, <3>2, <3>3, SaveKeeps
    <3> QED
      BY <1>1, <1>3, <2>2, <3>4, EndsFits, WrittenStep DEF Listing
  <2> QED
    BY <1>3, <2>1, <2>2 DEF Listing
<1>4. CASE MarkProvisioning(t)
  <2>1. RowFits'
    BY <1>1, <1>2, <1>4, PhasePatched, SaveKeeps DEF MarkProvisioning
  <2> QED
    BY <1>1, <1>2, <1>4, <2>1, GoesToFits, WrittenStep DEF MarkProvisioning
<1>5. CASE Provisioned(t)
  <2> DEFINE r == [Moved("connecting") EXCEPT !.phase = "awaiting",
                     !.provider = "evolution", !.ext = "evolution"]
  <2>1. Moved("connecting") \in Rows
    BY <1>2, MovedFits
  <2>2. r \in Rows
    BY <1>2, <2>1 DEF Rows
  <2>3. Transition(snap[t], "connecting", FALSE, r)
    BY <1>5 DEF Provisioned
  <2> HIDE DEF r
  <2>4. RowFits'
    BY <1>1, <1>2, <2>2, <2>3, TransitionKeeps
  <2> QED
    BY <1>1, <1>5, <2>4, EndsFits, WrittenStep DEF Provisioned
<1>6. CASE ProvisionFails(t)
  <2>1. RowFits'
    BY <1>1, <1>2, <1>6, PatchedMoveKeeps DEF ProvisionFails
  <2> QED
    BY <1>1, <1>6, <2>1, EndsFits, WrittenStep DEF ProvisionFails
<1> QED
  BY <1>3, <1>4, <1>5, <1>6

\* A request begins, or a webhook is taken.
LEMMA BeginKeeps ==
  ASSUME RowTypeOK, NEW t \in Tasks,
         (\E o \in Operations : Begin(t, o)) \/ ReceiveEvolution(t) \/ ReceiveWaha(t)
  PROVE  RowTypeOK'
<1>1. RowFits /\ InstanceFits /\ WorkFits /\ CountersFit /\ t \in Workers
  BY RowParts DEF Workers
<1>2. row \in Rows /\ "report" \in RowPlaces
  BY <1>1 DEF RowFits, RowPlaces
<1>3. ASSUME NEW o \in Operations, Begin(t, o)
      PROVE  RowTypeOK'
  <2>1. FirstPlace(o, row) \in RowPlaces
    BY DEF FirstPlace, RowPlaces
  <2>2. Kept(o, row) \in Rows
    BY <1>2, KeptFits
  <2>3. WorkFits'
    BY <1>1, <1>3, <2>1, <2>2 DEF WorkFits, Begin
  <2>4. CountersFit'
    BY <1>1, <1>3, ConnectionAssumption DEF CountersFit, Begin, ConnectionAssumption
  <2> QED
    BY <1>1, <1>3, <2>3, <2>4, UnwrittenKeeps, StillFits, RowJoined DEF Begin
<1>4. ASSUME NEW p, NEW found, Receive(t, p, found)
      PROVE  RowTypeOK'
  <2>1. PICK event \in webhooks :
          /\ webhooks' = webhooks \ {event}
          /\ IF found
               THEN /\ stage' = [stage EXCEPT ![t] = "report"]
                    /\ op' = [op EXCEPT ![t] = "webhook"]
                    /\ snap' = [snap EXCEPT ![t] = Kept("webhook", row)]
                    /\ saw' = [saw EXCEPT ![t] = event[2]]
               ELSE UNCHANGED work
    BY <1>4 DEF Receive
  <2>2. event[2] \in Instances /\ Kept("webhook", row) \in Rows
    BY <1>1, <1>2, KeptFits DEF InstanceFits
  <2>3. WorkFits'
    BY <1>1, <1>2, <2>1, <2>2 DEF WorkFits, work
  <2>4. InstanceFits'
    BY <1>1, <1>4, <2>1 DEF InstanceFits, Receive
  <2> QED
    BY <1>4, <2>3, <2>4, UnwrittenStep DEF Receive
<1> QED
  BY <1>3, <1>4 DEF ReceiveEvolution, ReceiveWaha

LEMMA TaskKeeps == ASSUME RowTypeOK, NEW t \in Tasks, Task(t) PROVE RowTypeOK'
BY AskingKeeps, RequestWrites, ProvisionWrites, BeginKeeps DEF Task

LEMMA MonitorKeeps ==
  ASSUME RowTypeOK, NEW m \in Cycles, Monitor(m)
  PROVE  RowTypeOK'
<1>1. RowFits /\ InstanceFits /\ WorkFits /\ m \in Workers
  BY RowParts DEF Workers
<1>2. /\ row \in Rows /\ saw[m] \in Instances
      /\ {"connecting", "disconnected"} \subseteq Connections
      /\ {"sync", "select", "poll", "write", "heal", "healed"} \subseteq RowPlaces
  BY <1>1, ReadFits DEF RowFits, Connections, RowPlaces
<1>3. CASE List(m)
  <2>1. instance["evolution"] \in Instances
    BY <1>1, InstanceStates DEF InstanceFits
  <2>2. WorkFits'
    BY <1>1, <1>2, <1>3, <2>1, SeesFits, GoesToFits DEF List
  <2> QED
    BY <1>1, <1>3, <2>2, StillFits, UnwrittenStep DEF List
<1>4. CASE Sync(m)
  <2>1. PICK next \in Connections :
          Transition(row, next, TRUE, Moved(next)) \/ Unwritten
    <3>1. PICK listed \in Instances :
            \/ LET next == IF listed = "absent" THEN "disconnected" ELSE ConnectionOf(listed)
               IN  Transition(row, next, TRUE, Moved(next))
            \/ Unwritten
      BY <1>2, <1>4, InstanceStates DEF Sync
    <3>2. (IF listed = "absent" THEN "disconnected" ELSE ConnectionOf(listed)) \in Connections
      BY <1>2, ConnectionOfFits
    <3> QED
      BY <3>1, <3>2
  <2>2. RowFits'
    BY <1>1, <2>1, MoveKeeps, UnwrittenKeeps
  <2> QED
    BY <1>1, <1>2, <1>4, <2>2, GoesToFits, WrittenStep DEF Sync
<1>5. CASE Select(m)
  <2>1. Kept("none", row) \in Rows /\ "absent" \in Instances
    BY <1>2, KeptFits, InstanceStates
  <2>2. WorkFits'
    <3>1. CASE Covers(row)
      BY <1>1, <1>2, <1>5, <2>1, <3>1 DEF WorkFits, Select
    <3>2. CASE ~Covers(row)
      BY <1>1, <1>5, <3>2, EndsFits DEF Select
    <3> QED
      BY <3>1, <3>2
  <2> QED
    BY <1>1, <1>5, <2>2, StillFits, UnwrittenStep DEF Select
<1>6. CASE PollAnswers(m)
  <2>1. WorkFits'
    BY <1>1, <1>2, <1>6, LookupFits, SeesFits DEF PollAnswers
  <2> QED
    BY <1>1, <1>6, <2>1, StillFits, UnwrittenStep DEF PollAnswers
<1>7. CASE PollFails(m)
  BY <1>1, <1>7, EndsFits, StillFits, UnwrittenStep DEF PollFails
<1>8. CASE WriteState(m)
  <2>1. RowFits'
    BY <1>1, <1>2, <1>8, ConnectionOfFits, MoveKeeps DEF WriteState
  <2> QED
    BY <1>1, <1>2, <1>8, <2>1, EndsFits, GoesToFits, WrittenStep DEF WriteState
<1>9. CASE Heal(m)
  <2>1. InstanceFits'
    BY <1>1, <1>9, StillFits, StartsFits, InstanceStates DEF Heal
  <2>2. WorkFits'
    BY <1>1, <1>2, <1>9, EndsFits, GoesToFits DEF Heal
  <2> QED
    BY <1>9, <2>1, <2>2, UnwrittenStep DEF Heal
<1>10. CASE Healed(m)
  <2>1. RowFits'
    BY <1>1, <1>2, <1>10, MoveKeeps DEF Healed
  <2> QED
    BY <1>1, <1>10, <2>1, EndsFits, WrittenStep DEF Healed
<1> QED
  BY <1>3, <1>4, <1>5, <1>6, <1>7, <1>8, <1>9, <1>10 DEF Monitor

LEMMA RowStep == RowTypeOK /\ [RowNext]_rowVars => RowTypeOK'
<1> SUFFICES ASSUME RowTypeOK, [RowNext]_rowVars PROVE RowTypeOK'
  OBVIOUS
<1>1. RowFits /\ InstanceFits /\ WorkFits /\ CountersFit
  BY RowParts
<1>2. CASE \E t \in Tasks : Task(t)
  BY <1>2, TaskKeeps
<1>3. CASE \E m \in Cycles : Monitor(m)
  BY <1>3, MonitorKeeps
<1>4. ASSUME NEW p \in RowProviders, Moves(p)
      PROVE  RowTypeOK'
  <2>1. InstanceFits'
    BY <1>1, <1>4, BecomesFits, InstanceStates DEF Moves
  <2>2. WorkFits' /\ CountersFit'
    BY <1>1, <1>4, ConnectionAssumption
    DEF WorkFits, CountersFit, Moves, work, ConnectionAssumption
  <2> QED
    BY <1>1, <1>4, <2>1, <2>2, UnwrittenKeeps, RowJoined DEF Moves
<1>5. CASE LoseWebhook
  BY <1>1, <1>5, UnwrittenKeeps, RowJoined
  DEF LoseWebhook, InstanceFits, WorkFits, CountersFit, work
<1>6. CASE Expire
  BY <1>1, <1>6, RowJoined
  DEF Expire, RowFits, InstanceFits, WorkFits, CountersFit, work
<1>7. CASE UNCHANGED rowVars
  BY <1>1, <1>7, RowJoined
  DEF rowVars, RowFits, InstanceFits, WorkFits, CountersFit, work, clients
<1> QED
  BY <1>2, <1>3, <1>4, <1>5, <1>6, <1>7 DEF RowNext

LEMMA RowStart == RowInit => RowTypeOK
<1> SUFFICES ASSUME RowInit PROVE RowTypeOK
  OBVIOUS
<1>1. \A p \in RowProviders : Created(p) \in Rows /\ CreatedWithInstance \in Rows
  BY DEF Created, CreatedWithInstance, Rows, RowProviders, Connections, Phases
<1>2. RowFits /\ InstanceFits
  <2>1. row \in Rows
    BY <1>1, InstanceStates DEF RowInit
  <2>2. instance \in [RowProviders -> Instances]
    BY InstanceStates DEF RowInit
  <2> QED
    BY <2>1, <2>2 DEF RowInit, RowFits, InstanceFits, Rows
<1>3. WorkFits /\ CountersFit
  BY NothingFits, ConnectionAssumption
  DEF RowInit, WorkFits, CountersFit, RowPlaces, Instances, ConnectionAssumption
<1> QED
  BY <1>2, <1>3, RowParts

\* Every state of a channel's row, of its instances and of the requests, webhooks
\* and rounds of the monitor that write it has the types that the tables allow.
THEOREM RowTypes == RowSpec => []RowTypeOK
BY RowStart, RowStep, PTL DEF RowSpec

=============================================================================
