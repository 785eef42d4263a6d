---------------------------- MODULE SessionProofs ----------------------------
(***************************************************************************)
(* Proofs about sessions: how one is prepared and how a lost one is brought *)
(* back.                                                                    *)
(*                                                                          *)
(* SessionPrepare, for every set of calls, processes, keys and sessions and *)
(* every lifetime of the lock that is no longer than the limit of a run:    *)
(* callers share the one run of their process and key, and two bodies that  *)
(* began under the lock overlap only when one outlived it.                  *)
(*                                                                          *)
(* Sessions, for every number of attempts, incidents and rounds and every   *)
(* threshold: the queue never holds more jobs than the monitor made rounds, *)
(* since a job that is given up goes back in the place it came from.        *)
(***************************************************************************)
EXTENDS SessionPrepare, Sessions, SequenceTheorems, TLAPS

\* The entries of sessionLocks are the runs in hand.
Owned ==
  /\ \A c \in Callers : run[c] # "none" => sessionLocks[Slot(c)] = c
  /\ \A s \in Slots : sessionLocks[s] # NoCaller =>
       run[sessionLocks[s]] # "none" /\ Slot(sessionLocks[s]) = s

\* A body that began under the lock is still at work; until the lifetime of the
\* lock has passed its run waits for it, and the token in Redis is its own and
\* as old as itself.
HoldsLock(c) ==
  /\ body[c] # "none"
  /\ bodyAge[c] < LockTTL =>
       /\ run[c] = "working" /\ token[KeyOf[c]] = c /\ tokenAge[KeyOf[c]] = bodyAge[c]

LockHeld == \A c \in locked : HoldsLock(c)

----------------------------------------------------------------------------
LEMMA SlotType == \A c \in Callers : Slot(c) \in Slots
BY PrepareAssumption DEF Slot, Slots, PrepareAssumption

LEMMA SameSlot ==
  \A c, d \in Callers :
    Slot(c) = Slot(d) <=> ProcOf[c] = ProcOf[d] /\ KeyOf[c] = KeyOf[d]
BY DEF Slot

----------------------------------------------------------------------------
\* Types.

LEMMA Zeros == 0 \in 0 .. MaxWait /\ 0 \in 0 .. MaxBody /\ 0 \in 0 .. LockTTL - 1
BY PrepareAssumption DEF PrepareAssumption

LEMMA KeyType == \A c \in Callers : KeyOf[c] \in Keys
BY PrepareAssumption DEF PrepareAssumption

LEMMA TypeInit == PrepareInit => PrepareTypeOK
BY PrepareAssumption DEF PrepareInit, PrepareTypeOK, PrepareAssumption, CallPlaces, Connecting,
  RunPlaces, BodyPlaces, SessionStates

LEMMA EndRunType ==
  ASSUME PrepareTypeOK, NEW c \in Callers, EndRun(c)
  PROVE  /\ run' \in [Callers -> RunPlaces]
         /\ waitAge' \in [Callers -> 0 .. MaxWait]
         /\ sessionLocks' \in [Slots -> Callers \cup {NoCaller}]
         /\ call' \in [Callers -> CallPlaces]
         /\ awaits' \in [Callers -> Callers \cup {NoCaller}]
<1>1. waitAge' \in [Callers -> 0 .. MaxWait] /\ run' \in [Callers -> RunPlaces]
  BY Zeros DEF PrepareTypeOK, EndRun, RunPlaces
<1>2. sessionLocks' \in [Slots -> Callers \cup {NoCaller}]
  BY DEF PrepareTypeOK, EndRun
<1>3. call' \in [Callers -> CallPlaces] /\ awaits' \in [Callers -> Callers \cup {NoCaller}]
  BY DEF PrepareTypeOK, EndRun, CallPlaces
<1> QED
  BY <1>1, <1>2, <1>3

LEMMA BeginBodyType ==
  ASSUME PrepareTypeOK, NEW c \in Callers, NEW held \in BOOLEAN, BeginBody(c, held)
  PROVE  /\ run' \in [Callers -> RunPlaces] /\ body' \in [Callers -> BodyPlaces]
         /\ bodyAge' \in [Callers -> 0 .. MaxBody] /\ locked' \subseteq Callers
BY Zeros DEF PrepareTypeOK, BeginBody, RunPlaces, BodyPlaces

LEMMA PrepareType ==
  ASSUME PrepareTypeOK, NEW c \in Callers, NEW place \in CallPlaces, Prepare(c, place)
  PROVE  /\ call' \in [Callers -> CallPlaces] /\ awaits' \in [Callers -> Callers \cup {NoCaller}]
         /\ run' \in [Callers -> RunPlaces] /\ waitAge' \in [Callers -> 0 .. MaxWait]
         /\ sessionLocks' \in [Slots -> Callers \cup {NoCaller}]
         /\ body' \in [Callers -> BodyPlaces] /\ bodyAge' \in [Callers -> 0 .. MaxBody]
         /\ locked' \subseteq Callers
<1>0. Slot(c) \in Slots
  BY SlotType
<1>1. CASE Join(c, place)
  BY <1>0, <1>1 DEF Join, WaitsFor, bodies, PrepareTypeOK
<1>2. CASE Begin(c, place)
  <2>1. /\ call' \in [Callers -> CallPlaces] /\ awaits' \in [Callers -> Callers \cup {NoCaller}]
        /\ sessionLocks' \in [Slots -> Callers \cup {NoCaller}]
        /\ waitAge' \in [Callers -> 0 .. MaxWait]
    BY <1>2, Zeros DEF Begin, WaitsFor, PrepareTypeOK
  <2>2. CASE LockConfigured
    BY <1>2, <2>1, <2>2 DEF Begin, bodies, PrepareTypeOK, RunPlaces
  <2>3. CASE ~LockConfigured
    BY <1>2, <2>1, <2>3, BeginBodyType DEF Begin
  <2> QED
    BY <2>2, <2>3
<1> QED
  BY <1>1, <1>2 DEF Prepare

LEMMA ResolveType ==
  ASSUME PrepareTypeOK, NEW c \in Callers, Resolve(c)
  PROVE  /\ run' \in [Callers -> RunPlaces]
         /\ waitAge' \in [Callers -> 0 .. MaxWait]
         /\ sessionLocks' \in [Slots -> Callers \cup {NoCaller}]
         /\ call' \in [Callers -> CallPlaces]
         /\ awaits' \in [Callers -> Callers \cup {NoCaller}]
<1>1. CASE c \in locked
  BY <1>1 DEF Resolve, PrepareTypeOK, callers, RunPlaces
<1>2. CASE c \notin locked
  BY <1>2, EndRunType DEF Resolve
<1> QED
  BY <1>1, <1>2

LEMMA GoesType ==
  ASSUME PrepareTypeOK, NEW c \in Callers, NEW place \in BodyPlaces, BodyGoes(c, place),
         session' \in [WahaSessions -> SessionStates]
  PROVE  PrepareTypeOK'
BY DEF PrepareTypeOK, BodyGoes, callers, runs, redis

LEMMA BodyEndsType ==
  ASSUME PrepareTypeOK, NEW c \in Callers, BodyEnds(c)
  PROVE  PrepareTypeOK'
<1>1. body' \in [Callers -> BodyPlaces] /\ bodyAge' \in [Callers -> 0 .. MaxBody]
  BY Zeros DEF PrepareTypeOK, BodyEnds, BodyPlaces
<1>2. CASE run[c] = "working"
  BY <1>1, <1>2, ResolveType DEF BodyEnds, PrepareTypeOK, redis
<1>3. CASE run[c] # "working"
  BY <1>1, <1>3 DEF BodyEnds, PrepareTypeOK, redis, callers, runs
<1> QED
  BY <1>2, <1>3

LEMMA StartedType ==
  ASSUME PrepareTypeOK, NEW c \in Callers, Started(c)
  PROVE  session' \in [WahaSessions -> SessionStates]
BY DEF Started, SessionBecomes, PrepareTypeOK, SessionStates

LEMMA FaultType ==
  ASSUME PrepareTypeOK, Fault
  PROVE  faults' \in 0 .. MaxFaults
<1>1. faults < MaxFaults /\ faults' = faults + 1
  BY DEF Fault
<1>2. faults \in 0 .. MaxFaults /\ MaxFaults \in Nat
  BY PrepareAssumption DEF PrepareTypeOK, PrepareAssumption
<1> QED
  BY <1>1, <1>2

LEMMA CallType == PrepareTypeOK /\ (\E c \in Callers : CallStep(c)) => PrepareTypeOK'
<1> SUFFICES ASSUME PrepareTypeOK, NEW c \in Callers, CallStep(c) PROVE PrepareTypeOK'
  OBVIOUS
<1>0. {"waiting", "connecting", "idle", "health", "reset"} \subseteq CallPlaces
  BY DEF CallPlaces, Connecting
<1>1. CASE EnsurePrepared(c)
  BY <1>0, <1>1, PrepareType DEF EnsurePrepared, PrepareTypeOK, redis
<1>2. CASE ConnectBegins(c)
  BY <1>0, <1>2 DEF ConnectBegins, PrepareTypeOK, runs, bodies, redis
<1>3. CASE Reset(c)
  <2>1. call' \in [Callers -> CallPlaces]
    BY <1>0, <1>3 DEF Reset, PrepareTypeOK
  <2>2. session' \in [WahaSessions -> SessionStates]
    BY <1>3 DEF Reset, PrepareTypeOK, SessionStates
  <2> QED
    BY <1>3, <2>1, <2>2 DEF Reset, PrepareTypeOK, runs, bodies, redis
<1>4. CASE Health(c)
  <2>1. CASE Prepare(c, "connecting")
    BY <1>0, <1>4, <2>1, PrepareType DEF Health, PrepareTypeOK, redis
  <2>2. CASE ~Prepare(c, "connecting")
    BY <1>0, <1>4, <2>2 DEF Health, PrepareTypeOK, runs, bodies, redis
  <2> QED
    BY <2>1, <2>2
<1>5. CASE ConnectTimesOut(c)
  BY <1>0, <1>5 DEF ConnectTimesOut, PrepareTypeOK, runs, bodies, redis
<1> QED
  BY <1>1, <1>2, <1>3, <1>4, <1>5 DEF CallStep

LEMMA RunType == PrepareTypeOK /\ (\E c \in Callers : RunStep(c)) => PrepareTypeOK'
<1> SUFFICES ASSUME PrepareTypeOK, NEW c \in Callers, RunStep(c) PROVE PrepareTypeOK'
  OBVIOUS
<1>1. CASE Acquire(c)
  <2>1. tokenAge' \in [Keys -> 0 .. LockTTL - 1] /\ token' \in [Keys -> Callers \cup {NoCaller}]
    BY <1>1, Zeros, KeyType DEF Acquire, PrepareTypeOK
  <2>2. waitAge' \in [Callers -> 0 .. MaxWait]
    BY <1>1, Zeros, KeyType DEF Acquire, PrepareTypeOK
  <2> QED
    BY <1>1, <2>1, <2>2, BeginBodyType DEF Acquire, PrepareTypeOK, callers
<1>2. CASE AcquireErrs(c)
  <2>1. waitAge' \in [Callers -> 0 .. MaxWait]
    BY <1>2, Zeros, KeyType DEF AcquireErrs, PrepareTypeOK
  <2> QED
    BY <1>2, <2>1, BeginBodyType, FaultType DEF AcquireErrs, PrepareTypeOK, callers, redis
<1>3. CASE AcquireTimesOut(c)
  BY <1>3, EndRunType DEF AcquireTimesOut, PrepareTypeOK, bodies, redis
<1>4. CASE EnsureTimesOut(c)
  BY <1>4, ResolveType DEF EnsureTimesOut, PrepareTypeOK, bodies, redis
<1>5. CASE Release(c)
  <2>1. tokenAge' \in [Keys -> 0 .. LockTTL - 1] /\ token' \in [Keys -> Callers \cup {NoCaller}]
    BY <1>5, Zeros, KeyType DEF Release, PrepareTypeOK
  <2>2. faults' \in 0 .. MaxFaults
    BY <1>5, FaultType DEF Release, PrepareTypeOK
  <2> QED
    BY <1>5, <2>1, <2>2, EndRunType DEF Release, PrepareTypeOK, bodies
<1> QED
  BY <1>1, <1>2, <1>3, <1>4, <1>5 DEF RunStep

LEMMA BodyType == PrepareTypeOK /\ (\E c \in Callers : BodyStep(c)) => PrepareTypeOK'
<1> SUFFICES ASSUME PrepareTypeOK, NEW c \in Callers, BodyStep(c) PROVE PrepareTypeOK'
  OBVIOUS
<1>0. session \in [WahaSessions -> SessionStates]
  BY DEF PrepareTypeOK
<1>1. CASE List(c)
  BY <1>0, <1>1, GoesType DEF List, BodyPlaces
<1>2. CASE Create(c)
  <2>1. session' \in [WahaSessions -> SessionStates]
    BY <1>0, <1>2 DEF Create, SessionBecomes, SessionStates
  <2> QED
    BY <1>2, <2>1, GoesType DEF Create, BodyPlaces
<1>3. CASE PostStart(c)
  BY <1>0, <1>3, StartedType, GoesType DEF PostStart, BodyPlaces
<1>4. CASE Detail(c)
  BY <1>0, <1>4, BodyEndsType, GoesType DEF Detail, BodyPlaces
<1>5. CASE PostRestart(c)
  BY <1>5, StartedType, GoesType DEF PostRestart, BodyPlaces
<1>6. CASE Wait(c)
  <2>1. CASE session[Session(c)] \in {"qr", "working"}
    BY <1>6, <2>1, BodyEndsType DEF Wait
  <2>2. CASE session[Session(c)] \notin {"qr", "working"}
    BY <1>0, <1>6, <2>2, BodyEndsType, GoesType DEF Wait, BodyPlaces
  <2> QED
    BY <2>1, <2>2
<1>7. CASE BodyFails(c)
  BY <1>7, BodyEndsType DEF BodyFails
<1>8. CASE BodyIsOver(c)
  BY <1>8, BodyEndsType DEF BodyIsOver
<1> QED
  BY <1>1, <1>2, <1>3, <1>4, <1>5, <1>6, <1>7, <1>8 DEF BodyStep

LEMMA TypeStep == PrepareTypeOK /\ [PrepareNext]_prepareVars => PrepareTypeOK'
<1> SUFFICES ASSUME PrepareTypeOK, [PrepareNext]_prepareVars PROVE PrepareTypeOK'
  OBVIOUS
<1>1. CASE \E s \in WahaSessions : SessionMoves(s)
  BY <1>1, PrepareAssumption DEF SessionMoves, PrepareTypeOK, PrepareAssumption, SessionStates,
    callers, runs, bodies, redis
<1>2. ASSUME NEW p \in Procs, Crash(p) PROVE PrepareTypeOK'
  <2>1. /\ call' \in [Callers -> CallPlaces] /\ run' \in [Callers -> RunPlaces]
        /\ body' \in [Callers -> BodyPlaces]
    BY <1>2 DEF Crash, PrepareTypeOK, CallPlaces, Connecting, RunPlaces, BodyPlaces
  <2>2. /\ waitAge' \in [Callers -> 0 .. MaxWait] /\ bodyAge' \in [Callers -> 0 .. MaxBody]
        /\ faults' \in 0 .. MaxFaults
    BY <1>2, FaultType, PrepareAssumption DEF Crash, PrepareTypeOK, PrepareAssumption
  <2>3. /\ awaits' \in [Callers -> Callers \cup {NoCaller}]
        /\ sessionLocks' \in [Slots -> Callers \cup {NoCaller}] /\ locked' \subseteq Callers
    BY <1>2 DEF Crash, PrepareTypeOK
  <2> QED
    BY <1>2, <2>1, <2>2, <2>3 DEF Crash, PrepareTypeOK, redis
<1>3. CASE PrepareTick
  <2>1. waitAge' \in [Callers -> 0 .. MaxWait]
    BY <1>3, PrepareAssumption DEF PrepareTick, PrepareTypeOK, PrepareAssumption
  <2>2. bodyAge' \in [Callers -> 0 .. MaxBody]
    <3>1. \A c \in Callers : body[c] # "none" => bodyAge[c] + 1 \in 0 .. MaxBody
      <4>1. \A c \in Callers : body[c] # "none" => bodyAge[c] # MaxBody
        BY <1>3, Zenon DEF PrepareTick, Due
      <4>2. bodyAge \in [Callers -> 0 .. MaxBody] /\ MaxBody \in Nat
        BY PrepareAssumption DEF PrepareTypeOK, PrepareAssumption
      <4> QED
        BY <4>1, <4>2
    <3> QED
      BY <1>3, <3>1, Zeros DEF PrepareTick, PrepareTypeOK
  <2>3. token' \in [Keys -> Callers \cup {NoCaller}]
    BY <1>3 DEF PrepareTick, PrepareTypeOK
  <2>4. tokenAge' \in [Keys -> 0 .. LockTTL - 1]
    <3>1. /\ tokenAge \in [Keys -> 0 .. LockTTL - 1] /\ LockTTL \in Nat \ {0}
          /\ tokenAge' = [k \in Keys |->
               IF token[k] = NoCaller \/ Expiring(k) THEN 0 ELSE tokenAge[k] + 1]
      BY <1>3, PrepareAssumption DEF PrepareTick, PrepareTypeOK, PrepareAssumption
    <3>2. \A k \in Keys : token[k] # NoCaller /\ ~Expiring(k) => tokenAge[k] + 1 # LockTTL
      BY DEF Expiring
    <3> QED
      BY <3>1, <3>2
  <2> QED
    BY <1>3, <2>1, <2>2, <2>3, <2>4 DEF PrepareTick, PrepareTypeOK, callers
<1>4. CASE RedisFails
  BY <1>4, FaultType DEF RedisFails, PrepareTypeOK, callers, runs, bodies
<1>5. CASE RedisReturns
  BY <1>5 DEF RedisReturns, PrepareTypeOK, callers, runs, bodies
<1>6. CASE UNCHANGED prepareVars
  BY <1>6 DEF prepareVars, callers, runs, bodies, redis, PrepareTypeOK
<1> QED
  BY <1>1, <1>2, <1>3, <1>4, <1>5, <1>6, CallType, RunType, BodyType DEF PrepareNext

\* Every state of a run of the preparation has its type: in particular the ages
\* of bodies, waits and locks stay within the code's limits.
THEOREM TypeCorrect == PrepareSpec => []PrepareTypeOK
<1> QED
  BY TypeInit, TypeStep, PTL DEF PrepareSpec

----------------------------------------------------------------------------
\* Sharing: the entries of sessionLocks and those who wait for them.

Sharing == PrepareTypeOK /\ Owned /\ WaitsForOwnKey

\* Nothing of the sharing depends on more than these.
LEMMA SharingStays ==
  ASSUME Owned, WaitsForOwnKey, UNCHANGED <<sessionLocks, awaits>>,
         \A c \in Callers : run[c] # "none" <=> run'[c] # "none",
         PrepareTypeOK
  PROVE  Owned' /\ WaitsForOwnKey'
<1>1. \A s \in Slots : sessionLocks[s] # NoCaller => sessionLocks[s] \in Callers
  BY DEF PrepareTypeOK
<1>2. \A c \in Callers : awaits[c] # NoCaller => awaits[c] \in Callers
  BY DEF PrepareTypeOK
<1>3. Owned'
  BY <1>1 DEF Owned, Slot
<1>4. WaitsForOwnKey'
  BY <1>2 DEF WaitsForOwnKey
<1> QED
  BY <1>3, <1>4

LEMMA EndRunShares ==
  ASSUME Sharing, NEW c \in Callers, run[c] # "none", EndRun(c)
  PROVE  Owned' /\ WaitsForOwnKey'
<1>1. PrepareTypeOK /\ Owned /\ WaitsForOwnKey /\ Slot(c) \in Slots
  BY SlotType DEF Sharing
<1>2. /\ \A d \in Callers : run'[d] = IF d = c THEN "none" ELSE run[d]
      /\ \A s \in Slots :
           sessionLocks'[s] = IF s = Slot(c) THEN NoCaller ELSE sessionLocks[s]
      /\ \A d \in Callers : awaits'[d] = IF awaits[d] = c THEN NoCaller ELSE awaits[d]
  BY <1>1 DEF EndRun, PrepareTypeOK
<1>3. \A d \in Callers : Slot(d) \in Slots
  BY SlotType
<1>4. /\ \A s \in Slots : sessionLocks[s] \in Callers \cup {NoCaller}
      /\ \A d \in Callers : awaits[d] \in Callers \cup {NoCaller}
  BY <1>1 DEF PrepareTypeOK
<1>5. NoCaller \notin Callers
  BY PrepareAssumption DEF PrepareAssumption
<1>6. ASSUME NEW d \in Callers, run'[d] # "none" PROVE sessionLocks'[Slot(d)] = d
  <2>1. d # c /\ sessionLocks[Slot(d)] = d /\ sessionLocks[Slot(c)] = c
    BY <1>1, <1>2, <1>6 DEF Owned
  <2> QED
    BY <1>2, <1>3, <2>1
<1>7. ASSUME NEW s \in Slots, sessionLocks'[s] # NoCaller
      PROVE  run'[sessionLocks'[s]] # "none" /\ Slot(sessionLocks'[s]) = s
  <2>1. s # Slot(c) /\ sessionLocks'[s] = sessionLocks[s] /\ sessionLocks[s] \in Callers
    BY <1>2, <1>4, <1>7
  <2>2. run[sessionLocks[s]] # "none" /\ Slot(sessionLocks[s]) = s
    BY <1>1, <1>7, <2>1 DEF Owned
  <2> QED
    BY <1>2, <2>1, <2>2
<1>8. Owned'
  <2>1. \A d \in Callers : Slot(d)' = Slot(d)
    BY DEF Slot
  <2>2. \A d \in Callers : run'[d] # "none" => sessionLocks'[Slot(d)] = d
    BY <1>6
  <2>3. \A s \in Slots : sessionLocks'[s] # NoCaller =>
          run'[sessionLocks'[s]] # "none" /\ Slot(sessionLocks'[s]) = s
    BY <1>7
  <2> QED
    BY <2>2, <2>3 DEF Owned, Slot
<1>9. WaitsForOwnKey'
  <2> SUFFICES ASSUME NEW d \in Callers, awaits'[d] # NoCaller
               PROVE  /\ run'[awaits'[d]] # "none"
                      /\ ProcOf[awaits'[d]] = ProcOf[d] /\ KeyOf[awaits'[d]] = KeyOf[d]
    BY DEF WaitsForOwnKey
  <2>1. awaits'[d] = awaits[d] /\ awaits[d] # c /\ awaits[d] \in Callers
    BY <1>2, <1>4
  <2> QED
    BY <1>1, <1>2, <2>1 DEF WaitsForOwnKey
<1> QED
  BY <1>8, <1>9

\* A run that begins takes the free entry of its key and is awaited by its call.
LEMMA BeginShares ==
  ASSUME Sharing, NEW c \in Callers, NEW place, Begin(c, place)
  PROVE  Owned' /\ WaitsForOwnKey'
<1>1. PrepareTypeOK /\ Owned /\ WaitsForOwnKey /\ Slot(c) \in Slots
  BY SlotType DEF Sharing
<1>2. NoCaller \notin Callers
  BY PrepareAssumption DEF PrepareAssumption
<1>3. sessionLocks[Slot(c)] = NoCaller /\ run[c] = "none"
  BY <1>1, <1>2 DEF Begin, Owned
<1>4. \E p \in {"locking", "working"} : run' = [run EXCEPT ![c] = p]
  <2>1. CASE LockConfigured
    BY <2>1 DEF Begin
  <2>2. CASE ~LockConfigured
    BY <2>2 DEF Begin, BeginBody
  <2> QED
    BY <2>1, <2>2
<1>5. /\ \A d \in Callers : d # c => run'[d] = run[d]
      /\ run'[c] # "none"
      /\ \A s \in Slots : sessionLocks'[s] = IF s = Slot(c) THEN c ELSE sessionLocks[s]
      /\ \A d \in Callers : awaits'[d] = IF d = c THEN c ELSE awaits[d]
  BY <1>1, <1>4 DEF Begin, WaitsFor, PrepareTypeOK
<1>6. \A d \in Callers : Slot(d) \in Slots
  BY SlotType
<1>7. /\ \A s \in Slots : sessionLocks[s] \in Callers \cup {NoCaller}
      /\ \A d \in Callers : awaits[d] \in Callers \cup {NoCaller}
  BY <1>1 DEF PrepareTypeOK
<1>8. ASSUME NEW d \in Callers, run'[d] # "none" PROVE sessionLocks'[Slot(d)] = d
  <2>1. CASE d = c
    BY <1>1, <1>5, <2>1
  <2>2. CASE d # c
    <3>1. sessionLocks[Slot(d)] = d
      BY <1>1, <1>5, <1>8, <2>2 DEF Owned
    <3> QED
      BY <1>2, <1>3, <1>5, <1>6, <3>1
  <2> QED
    BY <2>1, <2>2
<1>9. ASSUME NEW s \in Slots, sessionLocks'[s] # NoCaller
      PROVE  run'[sessionLocks'[s]] # "none" /\ Slot(sessionLocks'[s]) = s
  <2>1. CASE s = Slot(c)
    BY <1>5, <2>1
  <2>2. CASE s # Slot(c)
    <3>1. sessionLocks'[s] = sessionLocks[s] /\ sessionLocks[s] \in Callers
      BY <1>5, <1>7, <1>9, <2>2
    <3>2. run[sessionLocks[s]] # "none" /\ Slot(sessionLocks[s]) = s
      BY <1>1, <1>9, <3>1 DEF Owned
    <3> QED
      BY <1>3, <1>5, <3>1, <3>2
  <2> QED
    BY <2>1, <2>2
<1>10. Owned'
  BY <1>8, <1>9 DEF Owned, Slot
<1>11. WaitsForOwnKey'
  <2> SUFFICES ASSUME NEW d \in Callers, awaits'[d] # NoCaller
               PROVE  /\ run'[awaits'[d]] # "none"
                      /\ ProcOf[awaits'[d]] = ProcOf[d] /\ KeyOf[awaits'[d]] = KeyOf[d]
    BY DEF WaitsForOwnKey
  <2>1. CASE d = c
    BY <1>5, <2>1
  <2>2. CASE d # c
    <3>1. awaits'[d] = awaits[d] /\ awaits[d] \in Callers
      BY <1>5, <1>7, <2>2
    <3>2. /\ run[awaits[d]] # "none"
          /\ ProcOf[awaits[d]] = ProcOf[d] /\ KeyOf[awaits[d]] = KeyOf[d]
      BY <1>1, <3>1 DEF WaitsForOwnKey
    <3> QED
      BY <1>3, <1>5, <3>1, <3>2
  <2> QED
    BY <2>1, <2>2
<1> QED
  BY <1>10, <1>11

\* A caller that joins waits for the run of its own process and key.
LEMMA JoinShares ==
  ASSUME Sharing, NEW c \in Callers, NEW place, Join(c, place)
  PROVE  Owned' /\ WaitsForOwnKey'
<1>1. PrepareTypeOK /\ Owned /\ WaitsForOwnKey /\ Slot(c) \in Slots
  BY SlotType DEF Sharing
<1> DEFINE r == sessionLocks[Slot(c)]
<1>2. r \in Callers /\ run[r] # "none" /\ Slot(r) = Slot(c)
  BY <1>1 DEF Join, Owned, PrepareTypeOK
<1>3. ProcOf[r] = ProcOf[c] /\ KeyOf[r] = KeyOf[c]
  BY <1>2, SameSlot
<1>4. \A d \in Callers : awaits'[d] = IF d = c THEN r ELSE awaits[d]
  BY <1>1 DEF Join, WaitsFor, PrepareTypeOK
<1>5. run' = run /\ sessionLocks' = sessionLocks
  BY DEF Join
<1>6. Owned'
  BY <1>1, <1>5 DEF Owned, Slot
<1>7. WaitsForOwnKey'
  <2> SUFFICES ASSUME NEW d \in Callers, awaits'[d] # NoCaller
               PROVE  /\ run[awaits'[d]] # "none"
                      /\ ProcOf[awaits'[d]] = ProcOf[d] /\ KeyOf[awaits'[d]] = KeyOf[d]
    BY <1>5 DEF WaitsForOwnKey
  <2>1. CASE d = c
    BY <1>2, <1>3, <1>4, <2>1
  <2>2. CASE d # c
    BY <1>1, <1>4, <2>2 DEF WaitsForOwnKey
  <2> QED
    BY <2>1, <2>2
<1> QED
  BY <1>6, <1>7

LEMMA PrepareShares ==
  ASSUME Sharing, NEW c \in Callers, NEW place, Prepare(c, place)
  PROVE  Owned' /\ WaitsForOwnKey'
BY BeginShares, JoinShares DEF Prepare

LEMMA ResolveShares ==
  ASSUME Sharing, NEW c \in Callers, run[c] = "working", Resolve(c)
  PROVE  Owned' /\ WaitsForOwnKey'
<1>1. PrepareTypeOK /\ Owned /\ WaitsForOwnKey
  BY DEF Sharing
<1>2. CASE c \in locked
  BY <1>1, <1>2, SharingStays DEF Resolve, PrepareTypeOK, callers
<1>3. CASE c \notin locked
  BY <1>3, EndRunShares DEF Resolve
<1> QED
  BY <1>2, <1>3

LEMMA SharingStep == Sharing /\ [PrepareNext]_prepareVars => Owned' /\ WaitsForOwnKey'
<1> SUFFICES ASSUME Sharing, [PrepareNext]_prepareVars PROVE Owned' /\ WaitsForOwnKey'
  OBVIOUS
<1>0. PrepareTypeOK /\ Owned /\ WaitsForOwnKey
  BY DEF Sharing
<1>1. ASSUME UNCHANGED <<run, sessionLocks, awaits>> PROVE Owned' /\ WaitsForOwnKey'
  BY <1>0, <1>1, SharingStays
<1>2. ASSUME NEW c \in Callers, CallStep(c) PROVE Owned' /\ WaitsForOwnKey'
  <2>1. CASE EnsurePrepared(c)
    BY <2>1, PrepareShares DEF EnsurePrepared
  <2>2. CASE ConnectBegins(c)
    BY <1>1, <2>2 DEF ConnectBegins, runs
  <2>3. CASE Reset(c)
    BY <1>1, <2>3 DEF Reset, runs
  <2>4. CASE Health(c)
    BY <1>1, <2>4, PrepareShares DEF Health, runs
  <2>5. CASE ConnectTimesOut(c)
    <3>1. /\ run' = run /\ sessionLocks' = sessionLocks
          /\ \A d \in Callers : awaits'[d] = IF d = c THEN NoCaller ELSE awaits[d]
      BY <1>0, <2>5 DEF ConnectTimesOut, runs, PrepareTypeOK
    <3> QED
      BY <1>0, <3>1 DEF Owned, Slot, WaitsForOwnKey
  <2> QED
    BY <1>2, <2>1, <2>2, <2>3, <2>4, <2>5 DEF CallStep
<1>3. ASSUME NEW c \in Callers, RunStep(c) PROVE Owned' /\ WaitsForOwnKey'
  <2>1. CASE Acquire(c) \/ AcquireErrs(c)
    <3>1. run[c] = "locking" /\ run' = [run EXCEPT ![c] = "working"]
      BY <2>1 DEF Acquire, AcquireErrs, BeginBody
    <3>2. UNCHANGED <<sessionLocks, awaits>>
      BY <2>1 DEF Acquire, AcquireErrs, callers
    <3>3. \A d \in Callers : run[d] # "none" <=> run'[d] # "none"
      BY <1>0, <3>1 DEF PrepareTypeOK
    <3> QED
      BY <1>0, <3>2, <3>3, SharingStays
  <2>2. CASE AcquireTimesOut(c)
    BY <2>2, EndRunShares DEF AcquireTimesOut
  <2>3. CASE EnsureTimesOut(c)
    BY <2>3, ResolveShares DEF EnsureTimesOut
  <2>4. CASE Release(c)
    BY <2>4, EndRunShares DEF Release
  <2> QED
    BY <1>3, <2>1, <2>2, <2>3, <2>4 DEF RunStep
<1>4. ASSUME NEW c \in Callers, BodyEnds(c) PROVE Owned' /\ WaitsForOwnKey'
  <2>1. CASE run[c] = "working"
    BY <1>4, <2>1, ResolveShares DEF BodyEnds
  <2>2. CASE run[c] # "working"
    BY <1>1, <1>4, <2>2 DEF BodyEnds, callers, runs
  <2> QED
    BY <2>1, <2>2
<1>5. ASSUME NEW c \in Callers, NEW place, BodyGoes(c, place) PROVE Owned' /\ WaitsForOwnKey'
  BY <1>1, <1>5 DEF BodyGoes, callers, runs
<1>6. ASSUME NEW c \in Callers, BodyStep(c) PROVE Owned' /\ WaitsForOwnKey'
  <2>1. (\E place : BodyGoes(c, place)) \/ BodyEnds(c)
    BY <1>6, Zenon DEF BodyStep, List, Create, PostStart, Detail, PostRestart, Wait, BodyFails, BodyIsOver
  <2> QED
    BY <1>4, <1>5, <2>1
<1>7. ASSUME NEW p \in Procs, Crash(p) PROVE Owned' /\ WaitsForOwnKey'
  <2>1. /\ \A c \in Callers : run'[c] = IF ProcOf[c] = p THEN "none" ELSE run[c]
        /\ \A c \in Callers : awaits'[c] = IF ProcOf[c] = p THEN NoCaller ELSE awaits[c]
        /\ \A s \in Slots : sessionLocks'[s] = IF s[1] = p THEN NoCaller ELSE sessionLocks[s]
    BY <1>7 DEF Crash
  <2>2. \A c \in Callers : Slot(c) \in Slots /\ Slot(c)[1] = ProcOf[c]
    BY SlotType DEF Slot
  <2>3. /\ \A s \in Slots : sessionLocks[s] \in Callers \cup {NoCaller}
        /\ \A c \in Callers : awaits[c] \in Callers \cup {NoCaller}
    BY <1>0 DEF PrepareTypeOK
  <2>4. \A c \in Callers : run'[c] # "none" => sessionLocks'[Slot(c)] = c
    BY <1>0, <2>1, <2>2 DEF Owned
  <2>5. ASSUME NEW s \in Slots, sessionLocks'[s] # NoCaller
        PROVE  run'[sessionLocks'[s]] # "none" /\ Slot(sessionLocks'[s]) = s
    <3>1. s[1] # p /\ sessionLocks'[s] = sessionLocks[s] /\ sessionLocks[s] \in Callers
      BY <2>1, <2>3, <2>5
    <3>2. run[sessionLocks[s]] # "none" /\ Slot(sessionLocks[s]) = s
      BY <1>0, <2>5, <3>1 DEF Owned
    <3>3. ProcOf[sessionLocks[s]] # p
      BY <2>2, <3>1, <3>2
    <3> QED
      BY <2>1, <3>1, <3>2, <3>3
  <2>6. Owned'
    BY <2>4, <2>5 DEF Owned, Slot
  <2>7. WaitsForOwnKey'
    BY <1>0, <2>1, <2>3 DEF WaitsForOwnKey
  <2> QED
    BY <2>6, <2>7
<1>8. ASSUME \/ \E s \in WahaSessions : SessionMoves(s)
             \/ PrepareTick \/ RedisFails \/ RedisReturns \/ UNCHANGED prepareVars
      PROVE  Owned' /\ WaitsForOwnKey'
  <2>1. UNCHANGED <<run, sessionLocks, awaits>>
    BY <1>8 DEF SessionMoves, PrepareTick, RedisFails, RedisReturns, prepareVars, callers, runs
  <2> QED
    BY <1>1, <2>1
<1> QED
  BY <1>2, <1>3, <1>6, <1>7, <1>8 DEF PrepareNext

LEMMA SharingInit == PrepareInit => Owned /\ WaitsForOwnKey
BY DEF PrepareInit, Owned, WaitsForOwnKey

LEMMA SharingAlways == PrepareSpec => []Sharing
<1>1. PrepareInit => Sharing
  BY TypeInit, SharingInit DEF Sharing
<1>2. Sharing /\ [PrepareNext]_prepareVars => Sharing'
  BY TypeStep, SharingStep DEF Sharing
<1> QED
  BY <1>1, <1>2, PTL DEF PrepareSpec

\* A process never has two runs of one tenant and session in hand, whatever
\* callers join, leave, time out or crash (the lookup and the entry of
\* sessionLocks are one step, and the entry goes only with its run).
THEOREM OneRun == PrepareSpec => []OneRunPerKey
<1>1. Sharing => OneRunPerKey
  <2> SUFFICES ASSUME Sharing, NEW c \in Callers, NEW d \in Callers,
                      run[c] # "none", run[d] # "none",
                      ProcOf[c] = ProcOf[d], KeyOf[c] = KeyOf[d]
               PROVE  c = d
    BY DEF OneRunPerKey
  <2>1. sessionLocks[Slot(c)] = c /\ sessionLocks[Slot(d)] = d
    BY DEF Sharing, Owned
  <2> QED
    BY <2>1, SameSlot
<1> QED
  BY <1>1, SharingAlways, PTL

\* A caller always waits for a run that is in hand, of its own process, tenant
\* and session.
THEOREM OwnKey == PrepareSpec => []WaitsForOwnKey
<1>1. Sharing => WaitsForOwnKey
  BY DEF Sharing
<1> QED
  BY <1>1, SharingAlways, PTL

\* Callers of a process share: it has one run of a key in hand, and only those
\* who asked for that key wait for it.
THEOREM Shared == PrepareSpec => []SharedRuns
<1> QED
  BY OneRun, OwnKey, PTL DEF SharedRuns

----------------------------------------------------------------------------
\* The lock.

Excluding == Sharing /\ LockHeld

\* Bodies that begin, or that others leave alone, keep their tokens.
LEMMA HeldStays ==
  ASSUME LockHeld, NEW c, c \in locked,
         UNCHANGED <<token, tokenAge, bodyAge>>, body'[c] # "none",
         run[c] = "working" => run'[c] = "working"
  PROVE  HoldsLock(c)'
BY DEF LockHeld, HoldsLock

\* The end of a body takes only its own call from the locked ones.
LEMMA BodyEndsHeld ==
  ASSUME Excluding, NEW c \in Callers, BodyEnds(c)
  PROVE  LockHeld'
<1>0. PrepareTypeOK /\ LockHeld
  BY DEF Excluding, Sharing
<1>1. locked' = locked \ {c} /\ UNCHANGED <<token, tokenAge>>
  BY DEF BodyEnds, redis
<1>2. /\ \A d \in Callers : d # c => body'[d] = body[d] /\ bodyAge'[d] = bodyAge[d]
      /\ \A d \in Callers : d # c => run'[d] = run[d]
  <2>1. \A d \in Callers : d # c => body'[d] = body[d] /\ bodyAge'[d] = bodyAge[d]
    BY <1>0 DEF BodyEnds, PrepareTypeOK
  <2>2. CASE run[c] = "working"
    BY <1>0, <2>1, <2>2 DEF BodyEnds, Resolve, EndRun, PrepareTypeOK
  <2>3. CASE run[c] # "working"
    BY <2>1, <2>3 DEF BodyEnds, runs
  <2> QED
    BY <2>2, <2>3
<1>3. locked \subseteq Callers
  BY <1>0 DEF PrepareTypeOK
<1> QED
  BY <1>0, <1>1, <1>2, <1>3 DEF LockHeld, HoldsLock

\* The end of a run that has no body at work within the life of its lock.
LEMMA EndRunHeld ==
  ASSUME Excluding, NEW c \in Callers, run[c] # "working", EndRun(c),
         UNCHANGED bodies,
         \A d \in locked : run[d] = "working" =>
           \/ token'[KeyOf[d]] = token[KeyOf[d]] /\ tokenAge'[KeyOf[d]] = tokenAge[KeyOf[d]]
           \/ bodyAge[d] >= LockTTL
  PROVE  LockHeld'
<1>0. PrepareTypeOK /\ LockHeld /\ locked \subseteq Callers
  BY DEF Excluding, Sharing, PrepareTypeOK
<1>1. /\ \A d \in Callers : d # c => run'[d] = run[d]
      /\ UNCHANGED <<body, bodyAge, locked>>
  BY <1>0 DEF EndRun, PrepareTypeOK, bodies
<1> SUFFICES ASSUME NEW d \in locked PROVE HoldsLock(d)'
  BY <1>1 DEF LockHeld
<1>2. body[d] # "none" /\ HoldsLock(d)
  BY <1>0 DEF LockHeld, HoldsLock
<1>3. CASE bodyAge[d] < LockTTL
  <2>1. run[d] = "working" /\ d # c /\ token[KeyOf[d]] = d /\ tokenAge[KeyOf[d]] = bodyAge[d]
    BY <1>2, <1>3 DEF HoldsLock
  <2>2. ~(bodyAge[d] >= LockTTL)
    BY <1>0, <1>3, PrepareAssumption DEF PrepareTypeOK, PrepareAssumption
  <2> QED
    BY <1>0, <1>1, <1>2, <2>1, <2>2 DEF HoldsLock
<1>4. CASE ~(bodyAge[d] < LockTTL)
  BY <1>1, <1>2, <1>4 DEF HoldsLock
<1> QED
  BY <1>3, <1>4

\* A run that begins takes its call out of the locked ones.
LEMMA PrepareHeld ==
  ASSUME Excluding, NEW c \in Callers, NEW place, Prepare(c, place),
         UNCHANGED <<token, tokenAge>>
  PROVE  LockHeld'
<1>0. PrepareTypeOK /\ Owned /\ LockHeld /\ locked \subseteq Callers
  BY DEF Excluding, Sharing, PrepareTypeOK
<1>1. CASE Join(c, place)
  BY <1>0, <1>1 DEF Join, bodies, LockHeld, HoldsLock
<1>2. CASE Begin(c, place)
  <2>1. run[c] = "none"
    BY <1>0, <1>2, PrepareAssumption DEF Begin, Owned, PrepareAssumption
  <2>2. CASE LockConfigured
    <3>1. UNCHANGED <<body, bodyAge, locked>> /\ \A d \in Callers : d # c => run'[d] = run[d]
      BY <1>0, <1>2, <2>2 DEF Begin, bodies, PrepareTypeOK
    <3> QED
      BY <1>0, <2>1, <3>1 DEF LockHeld, HoldsLock
  <2>3. CASE ~LockConfigured
    <3>1. /\ locked' = locked \ {c}
          /\ \A d \in Callers : d # c => /\ run'[d] = run[d] /\ body'[d] = body[d]
                                       /\ bodyAge'[d] = bodyAge[d]
      BY <1>0, <1>2, <2>3 DEF Begin, BeginBody, PrepareTypeOK
    <3> QED
      BY <1>0, <3>1 DEF LockHeld, HoldsLock
  <2> QED
    BY <2>2, <2>3
<1> QED
  BY <1>1, <1>2 DEF Prepare

LEMMA AcquireHeld ==
  ASSUME Excluding, NEW c \in Callers, Acquire(c)
  PROVE  LockHeld'
<1>0. PrepareTypeOK /\ LockHeld /\ locked \subseteq Callers
  BY DEF Excluding, Sharing, PrepareTypeOK
<1>1. /\ token[KeyOf[c]] = NoCaller /\ locked' = locked \cup {c}
      /\ \A d \in Callers : d # c => /\ run'[d] = run[d] /\ body'[d] = body[d]
                                   /\ bodyAge'[d] = bodyAge[d]
      /\ run'[c] = "working" /\ body'[c] = "list" /\ bodyAge'[c] = 0
  BY <1>0 DEF Acquire, BeginBody, PrepareTypeOK
<1>2. \A k \in Keys : /\ token'[k] = IF k = KeyOf[c] THEN c ELSE token[k]
                      /\ tokenAge'[k] = IF k = KeyOf[c] THEN 0 ELSE tokenAge[k]
  BY <1>0 DEF Acquire, PrepareTypeOK
<1>3. NoCaller \notin Callers
  BY PrepareAssumption DEF PrepareAssumption
<1>4. HoldsLock(c)'
  BY <1>1, <1>2, KeyType DEF HoldsLock
<1>5. ASSUME NEW d \in locked, d # c PROVE HoldsLock(d)'
  <2>1. HoldsLock(d) /\ d \in Callers
    BY <1>0 DEF LockHeld
  <2>2. CASE bodyAge[d] < LockTTL
    <3>1. KeyOf[d] # KeyOf[c]
      BY <1>1, <1>3, <2>1, <2>2 DEF HoldsLock
    <3> QED
      BY <1>1, <1>2, <1>5, <2>1, <3>1, KeyType DEF HoldsLock
  <2>3. CASE ~(bodyAge[d] < LockTTL)
    BY <1>1, <1>5, <2>1, <2>3 DEF HoldsLock
  <2> QED
    BY <2>2, <2>3
<1> QED
  BY <1>1, <1>4, <1>5 DEF LockHeld

\* A body and its token grow old together.
LEMMA TickHeld ==
  ASSUME Excluding, PrepareTick
  PROVE  LockHeld'
<1>0. PrepareTypeOK /\ LockHeld /\ locked \subseteq Callers
  BY DEF Excluding, Sharing, PrepareTypeOK
<1>1. UNCHANGED <<run, body, locked>>
  BY DEF PrepareTick
<1>2. /\ \A c \in Callers : bodyAge'[c] = IF body[c] = "none" THEN 0 ELSE bodyAge[c] + 1
      /\ \A k \in Keys : token'[k] = IF Expiring(k) THEN NoCaller ELSE token[k]
      /\ \A k \in Keys : tokenAge'[k] =
           IF token[k] = NoCaller \/ Expiring(k) THEN 0 ELSE tokenAge[k] + 1
  BY DEF PrepareTick
<1> SUFFICES ASSUME NEW c \in locked PROVE HoldsLock(c)'
  BY <1>1 DEF LockHeld
<1>3. HoldsLock(c) /\ c \in Callers /\ KeyOf[c] \in Keys
  BY <1>0, KeyType DEF LockHeld
<1>4. bodyAge[c] \in Nat /\ bodyAge'[c] = bodyAge[c] + 1 /\ body'[c] # "none"
  BY <1>0, <1>1, <1>2, <1>3, PrepareAssumption DEF HoldsLock, PrepareTypeOK, PrepareAssumption
<1>5. ASSUME bodyAge'[c] < LockTTL
      PROVE  run'[c] = "working" /\ token'[KeyOf[c]] = c /\ tokenAge'[KeyOf[c]] = bodyAge'[c]
  <2>1. /\ run[c] = "working" /\ token[KeyOf[c]] = c /\ tokenAge[KeyOf[c]] = bodyAge[c]
    BY <1>3, <1>4, <1>5, PrepareAssumption DEF HoldsLock, PrepareAssumption
  <2>2. ~Expiring(KeyOf[c]) /\ token[KeyOf[c]] # NoCaller
    BY <1>3, <1>4, <1>5, <2>1, PrepareAssumption DEF Expiring, PrepareAssumption
  <2> QED
    BY <1>1, <1>2, <1>3, <1>4, <2>1, <2>2
<1> QED
  BY <1>4, <1>5 DEF HoldsLock

LEMMA HeldStep == Excluding /\ [PrepareNext]_prepareVars => LockHeld'
<1> SUFFICES ASSUME Excluding, [PrepareNext]_prepareVars PROVE LockHeld'
  OBVIOUS
<1>0. PrepareTypeOK /\ LockHeld /\ locked \subseteq Callers
  BY DEF Excluding, Sharing, PrepareTypeOK
<1>1. ASSUME UNCHANGED <<run, body, bodyAge, locked, token, tokenAge>> PROVE LockHeld'
  BY <1>0, <1>1 DEF LockHeld, HoldsLock
<1>2. ASSUME NEW c \in Callers, CallStep(c) PROVE LockHeld'
  <2>1. CASE EnsurePrepared(c)
    BY <2>1, PrepareHeld DEF EnsurePrepared, redis
  <2>2. CASE ConnectBegins(c)
    BY <1>1, <2>2 DEF ConnectBegins, runs, bodies, redis
  <2>3. CASE Reset(c)
    BY <1>1, <2>3 DEF Reset, runs, bodies, redis
  <2>4. CASE Health(c)
    BY <1>1, <2>4, PrepareHeld DEF Health, runs, bodies, redis
  <2>5. CASE ConnectTimesOut(c)
    BY <1>1, <2>5 DEF ConnectTimesOut, runs, bodies, redis
  <2> QED
    BY <1>2, <2>1, <2>2, <2>3, <2>4, <2>5 DEF CallStep
<1>3. ASSUME NEW c \in Callers, RunStep(c) PROVE LockHeld'
  <2>1. CASE Acquire(c)
    BY <2>1, AcquireHeld
  <2>2. CASE AcquireErrs(c)
    <3>1. /\ locked' = locked \ {c} /\ UNCHANGED <<token, tokenAge>>
          /\ \A d \in Callers : d # c => /\ run'[d] = run[d] /\ body'[d] = body[d]
                                       /\ bodyAge'[d] = bodyAge[d]
      BY <1>0, <2>2 DEF AcquireErrs, BeginBody, PrepareTypeOK, redis
    <3> QED
      BY <1>0, <3>1 DEF LockHeld, HoldsLock
  <2>3. CASE AcquireTimesOut(c)
    BY <2>3, EndRunHeld DEF AcquireTimesOut, redis
  <2>4. CASE EnsureTimesOut(c)
    <3>1. bodyAge[c] >= LockTTL /\ ~(bodyAge[c] < LockTTL)
      BY <2>4, PrepareAssumption DEF EnsureTimesOut, PrepareAssumption
    <3>2. /\ \A d \in Callers : d # c => run'[d] = run[d]
          /\ UNCHANGED <<body, bodyAge, locked, token, tokenAge>>
      BY <1>0, <2>4 DEF EnsureTimesOut, Resolve, EndRun, PrepareTypeOK, bodies, redis
    <3> QED
      BY <1>0, <3>1, <3>2 DEF LockHeld, HoldsLock
  <2>5. CASE Release(c)
    <3>1. run[c] = "releasing" /\ EndRun(c) /\ UNCHANGED bodies
      BY <2>5 DEF Release
    <3>2. ASSUME NEW d \in locked, run[d] = "working", ~(bodyAge[d] >= LockTTL)
          PROVE  token'[KeyOf[d]] = token[KeyOf[d]] /\ tokenAge'[KeyOf[d]] = tokenAge[KeyOf[d]]
      <4>1. bodyAge[d] < LockTTL /\ d \in Callers /\ HoldsLock(d)
        BY <1>0, <3>2, PrepareAssumption DEF PrepareTypeOK, LockHeld, PrepareAssumption
      <4>2. token[KeyOf[d]] = d /\ d # c
        BY <3>1, <3>2, <4>1 DEF HoldsLock
      <4>3. CASE token[KeyOf[c]] = c
        <5>1. KeyOf[c] # KeyOf[d]
          BY <4>2, <4>3
        <5> QED
          BY <1>0, <2>5, <4>1, <5>1, KeyType DEF Release, PrepareTypeOK
      <4>4. CASE token[KeyOf[c]] # c
        BY <2>5, <4>4 DEF Release
      <4> QED
        BY <4>3, <4>4
    <3> QED
      BY <3>1, <3>2, EndRunHeld
  <2> QED
    BY <1>3, <2>1, <2>2, <2>3, <2>4, <2>5 DEF RunStep
<1>4. ASSUME NEW c \in Callers, NEW place \in BodyPlaces \ {"none"}, BodyGoes(c, place) PROVE LockHeld'
  <2>1. /\ UNCHANGED <<run, bodyAge, locked, token, tokenAge>>
        /\ \A d \in Callers : body[d] # "none" => body'[d] # "none"
    BY <1>0, <1>4 DEF BodyGoes, runs, redis, PrepareTypeOK
  <2> QED
    BY <1>0, <2>1 DEF LockHeld, HoldsLock
<1>5. ASSUME NEW c \in Callers, BodyStep(c) PROVE LockHeld'
  <2>1. (\E place \in BodyPlaces \ {"none"} : BodyGoes(c, place)) \/ BodyEnds(c)
    <3>1. {"create", "start", "restart", "detail", "recreate", "wait"}
            \subseteq BodyPlaces \ {"none"}
      BY DEF BodyPlaces
    <3>2. CASE List(c)
      BY <3>1, <3>2 DEF List
    <3>3. CASE Create(c) \/ PostStart(c) \/ PostRestart(c)
      BY <3>1, <3>3, Zenon DEF Create, PostStart, PostRestart
    <3>4. CASE Detail(c) \/ Wait(c)
      BY <3>1, <3>4, Zenon DEF Detail, Wait
    <3>5. CASE BodyFails(c) \/ BodyIsOver(c)
      BY <3>5, Zenon DEF BodyFails, BodyIsOver
    <3> QED
      BY <1>5, <3>2, <3>3, <3>4, <3>5 DEF BodyStep
  <2> QED
    BY <1>4, <1>5, <2>1, BodyEndsHeld
<1>6. ASSUME NEW p \in Procs, Crash(p) PROVE LockHeld'
  <2>1. /\ locked' = locked \ {d \in Callers : ProcOf[d] = p} /\ UNCHANGED <<token, tokenAge>>
        /\ \A d \in Callers : ProcOf[d] # p =>
             run'[d] = run[d] /\ body'[d] = body[d] /\ bodyAge'[d] = bodyAge[d]
    BY <1>6 DEF Crash, redis
  <2> QED
    BY <1>0, <2>1 DEF LockHeld, HoldsLock
<1>7. ASSUME (\E s \in WahaSessions : SessionMoves(s)) \/ RedisFails \/ RedisReturns
             \/ UNCHANGED prepareVars
      PROVE  LockHeld'
  <2>1. UNCHANGED <<run, body, bodyAge, locked, token, tokenAge>>
    BY <1>7 DEF SessionMoves, RedisFails, RedisReturns, prepareVars, runs, bodies, redis
  <2> QED
    BY <1>1, <2>1
<1> QED
  BY <1>2, <1>3, <1>5, <1>6, <1>7, TickHeld DEF PrepareNext

\* Bodies of one tenant and session that began under the lock never overlap
\* while both are younger than the lock's lifetime: no release takes another's
\* token, and no body starts while a token is alive.
THEOREM Exclusive == PrepareSpec => []ExclusiveBodies
<1>1. PrepareInit => Excluding
  BY TypeInit, SharingInit DEF PrepareInit, Excluding, Sharing, LockHeld
<1>2. Excluding /\ [PrepareNext]_prepareVars => Excluding'
  BY TypeStep, SharingStep, HeldStep DEF Excluding, Sharing
<1>3. Excluding => ExclusiveBodies
  <2> SUFFICES ASSUME Excluding, NEW c \in locked, NEW d \in locked,
                      c # d, KeyOf[c] = KeyOf[d]
               PROVE  bodyAge[c] >= LockTTL \/ bodyAge[d] >= LockTTL
    BY DEF ExclusiveBodies
  <2>1. HoldsLock(c) /\ HoldsLock(d)
    BY DEF Excluding, LockHeld
  <2>2. bodyAge[c] \in Nat /\ bodyAge[d] \in Nat
    BY PrepareAssumption DEF Excluding, Sharing, PrepareTypeOK, PrepareAssumption
  <2> QED
    BY <2>1, <2>2, PrepareAssumption DEF HoldsLock, PrepareAssumption
<1> QED
  BY <1>1, <1>2, <1>3, PTL DEF PrepareSpec

----------------------------------------------------------------------------
\* Sessions: a lost session is brought back.

Runs == [at : Places, first : Providers, on : Providers, attempt : 1 .. Attempts,
         saw : {"none", "offline"}, left : 0 .. Attempts]
Jobs == [on : Providers, left : 1 .. Attempts]
Rounds == [at : {"idle", "ask", "write", "hand", "wait"}, on : Providers,
           to : Providers, saw : States \cup {"error"}]

OutsideFits ==
  /\ remote \in [Providers -> States] /\ late \subseteq (Providers \X LateCalls)
  /\ incidents \in 0 .. MaxIncidents
CachesFit ==
  l1 \in [Processes -> States \cup {"nothing"}] /\ l2 \in States \cup {"nothing"}
HealthFits ==
  fails \in [Processes \X Providers -> 0 .. Threshold] /\ blocked \subseteq Processes \X Providers
RunsFit == ens \in [Processes -> Runs]
RoundFits ==
  /\ mon \in Rounds /\ seen \in {<<>>} \cup (Providers \X (States \cup {"error"}))
  /\ backoff \in [Providers -> 0 .. 3] /\ rounds \in 0 .. MaxRounds
RestFits ==
  /\ row \in [provider : Providers, active : BOOLEAN] /\ amiss \in BOOLEAN
  /\ down \subseteq Providers /\ reachable \in BOOLEAN
QueueFits == jobs \in Seq(Jobs)

\* Each round of the monitor leaves one job at most: in its own hands, in the queue,
\* or with the worker, which may put it back.
Outstanding ==
  Len(jobs) + (IF ens["worker"].left > 0 THEN 1 ELSE 0) + (IF mon.at # "idle" THEN 1 ELSE 0)
    <= rounds

LostInv ==
  /\ OutsideFits /\ CachesFit /\ HealthFits /\ RunsFit /\ RoundFits /\ RestFits
  /\ QueueFits /\ Outstanding

LEMMA LostTypes == LostInv => LostTypeOK
<1> SUFFICES ASSUME LostInv PROVE LostTypeOK
  OBVIOUS
<1>1. Len(jobs) \in Nat /\ rounds \in 0 .. MaxRounds
  BY DEF LostInv, QueueFits, RoundFits
<1>2. Len(jobs) <= MaxRounds
  <2>1. PICK m, n \in {0, 1} : Len(jobs) + m + n <= rounds
    BY DEF LostInv, Outstanding
  <2> QED
    BY <1>1, <2>1, SessionsAssumption DEF SessionsAssumption
<1> QED
  BY <1>2 DEF LostInv, LostTypeOK, OutsideFits, CachesFit, HealthFits, RunsFit, RoundFits,
     RestFits, QueueFits, Runs, Jobs, Rounds

LEMMA LostNames ==
  /\ {"waha", "evolution"} \subseteq Providers /\ {"api", "worker"} \subseteq Processes
  /\ Live \subseteq States /\ {"none", "offline", "qr", "working"} \subseteq States
  /\ \A p \in Providers : Other(p) \in Providers
BY DEF Providers, Processes, Live, States, Other

LEMMA IncidentFits ==
  OutsideFits /\ Incident => incidents' \in 0 .. MaxIncidents
BY SessionsAssumption DEF OutsideFits, Incident, SessionsAssumption

LEMMA EffectFits ==
  \A p, c : \A s \in States : Effect(p, c, s) \in States
BY LostNames DEF Effect

\* A call, whatever comes of it.
LEMMA CallFits ==
  ASSUME OutsideFits, NEW p \in Providers, NEW c, Succeeds(p, c) \/ Fails(p, c)
  PROVE  OutsideFits'
<1>1. remote[p] \in States
  BY DEF OutsideFits
<1>2. CASE Succeeds(p, c)
  BY <1>1, <1>2, EffectFits DEF Succeeds, OutsideFits
<1>3. CASE UNCHANGED outside
  BY <1>3 DEF OutsideFits, outside
<1>4. CASE Fails(p, c) /\ ~UNCHANGED outside
  <2>1. incidents' \in 0 .. MaxIncidents
    BY <1>4, IncidentFits DEF Fails
  <2>2. /\ remote' = remote \/ \E s \in States : remote' = [remote EXCEPT ![p] = s]
        /\ late' = late \/ (c \in LateCalls /\ late' = late \cup {<<p, c>>})
    BY <1>1, <1>4, EffectFits, LostNames DEF Fails
  <2> QED
    BY <2>1, <2>2 DEF OutsideFits
<1> QED
  BY <1>2, <1>3, <1>4

LEMMA AnswersFit ==
  ASSUME OutsideFits, NEW p, NEW a, Answers(p, a) \/ Throws(p)
  PROVE  OutsideFits'
BY IncidentFits DEF OutsideFits, Answers, Throws, outside

LEMMA KeepFits ==
  ASSUME CachesFit, NEW w \in Processes, NEW a \in States, Keep(w, a) \/ Forget(w)
  PROVE  CachesFit'
BY DEF CachesFit, Keep, Forget

LEMMA CachesStay == CachesFit /\ UNCHANGED caches => CachesFit'
BY DEF CachesFit, caches

LEMMA HealthStays == HealthFits /\ UNCHANGED health => HealthFits'
BY DEF HealthFits, health

LEMMA ForgetFits ==
  ASSUME CachesFit, NEW w \in Processes, Forget(w)
  PROVE  CachesFit'
BY DEF CachesFit, Forget

----------------------------------------------------------------------------
\* The runs.

RunStays == RunsFit' /\ ens'["worker"].left = ens["worker"].left

LEMMA RunIsStays ==
  ASSUME RunsFit, NEW w \in Processes, NEW e \in Runs, e.left = ens[w].left, RunIs(w, e)
  PROVE  RunStays
BY LostNames DEF RunsFit, RunIs, RunStays

LEMMA RunFields ==
  ASSUME RunsFit, NEW w \in Processes
  PROVE  /\ ens[w] \in Runs /\ ens[w].on \in Providers /\ ens[w].first \in Providers
         /\ ens[w].attempt \in 1 .. Attempts /\ ens[w].left \in 0 .. Attempts
BY DEF RunsFit, Runs

LEMMA ToStays ==
  ASSUME RunsFit, NEW w \in Processes, NEW place \in Places, To(w, place)
  PROVE  RunStays
<1>1. ens[w] \in Runs
  BY RunFields
<1>2. [ens[w] EXCEPT !.at = place] \in Runs /\ [ens[w] EXCEPT !.at = place].left = ens[w].left
  BY <1>1 DEF Runs
<1> QED
  BY <1>2, RunIsStays DEF To

LEMMA SwitchStays ==
  ASSUME RunsFit, CachesFit, NEW w \in Processes, Switch(w)
  PROVE  RunStays /\ CachesFit'
<1>1. ens[w] \in Runs /\ Other(ens[w].on) \in Providers /\ 1 \in 1 .. Attempts
      /\ "look" \in Places /\ "throw" \in Places
  BY RunFields, LostNames, SessionsAssumption DEF SessionsAssumption, Places
<1>2. CASE /\ RunIs(w, [ens[w] EXCEPT !.at = "look", !.on = Other(ens[w].on),
                                      !.attempt = 1, !.saw = "none"])
           /\ Forget(w)
  <2> DEFINE e == [ens[w] EXCEPT !.at = "look", !.on = Other(ens[w].on),
                                 !.attempt = 1, !.saw = "none"]
  <2>1. e \in Runs /\ e.left = ens[w].left
    BY <1>1 DEF Runs
  <2>2. RunIs(w, e)
    BY <1>2
  <2> HIDE DEF e
  <2> QED
    BY <1>2, <2>1, <2>2, RunIsStays, ForgetFits
<1>3. CASE /\ RunIs(w, [ens[w] EXCEPT !.at = "throw", !.saw = "none"])
           /\ UNCHANGED caches
  <2> DEFINE e == [ens[w] EXCEPT !.at = "throw", !.saw = "none"]
  <2>1. e \in Runs /\ e.left = ens[w].left
    BY <1>1 DEF Runs
  <2>2. RunIs(w, e)
    BY <1>3
  <2> HIDE DEF e
  <2> QED
    BY <1>3, <2>1, <2>2, RunIsStays, CachesStay
<1> QED
  BY <1>2, <1>3 DEF Switch

LEMMA RetryStays ==
  ASSUME RunsFit, CachesFit, NEW w \in Processes, Retry(w)
  PROVE  RunStays /\ CachesFit'
<1>1. CASE ens[w].attempt < Attempts
  <2> DEFINE e == [ens[w] EXCEPT !.at = "look", !.attempt = ens[w].attempt + 1,
                                 !.saw = "none"]
  <2>1. ens[w] \in Runs /\ "look" \in Places /\ ens[w].attempt + 1 \in 1 .. Attempts
    BY <1>1, RunFields, SessionsAssumption DEF Places, SessionsAssumption
  <2>2. e \in Runs /\ e.left = ens[w].left
    BY <2>1 DEF Runs
  <2>3. RunIs(w, e) /\ UNCHANGED caches
    BY <1>1 DEF Retry
  <2> HIDE DEF e
  <2> QED
    BY <2>2, <2>3, RunIsStays, CachesStay
<1>2. CASE ~(ens[w].attempt < Attempts)
  BY <1>2, SwitchStays DEF Retry
<1> QED
  BY <1>1, <1>2

LEMMA CaughtStays ==
  ASSUME RunsFit, CachesFit, HealthFits, NEW w \in Processes, Caught(w)
  PROVE  RunStays /\ CachesFit' /\ HealthFits'
<1> DEFINE k == <<w, ens[w].on>>
           n == IF fails[k] < Threshold THEN fails[k] + 1 ELSE Threshold
<1>1. k \in Processes \X Providers
  BY RunFields
<1>2. n \in 0 .. Threshold
  BY <1>1, SessionsAssumption DEF HealthFits, SessionsAssumption
<1>3. /\ fails' = [fails EXCEPT ![k] = n]
      /\ blocked' \in {blocked \cup {k}, blocked \ {k}}
  BY DEF Caught
<1>4. HealthFits'
  <2> HIDE DEF k, n
  <2> QED
    BY <1>1, <1>2, <1>3 DEF HealthFits
<1>5. RunStays /\ CachesFit'
  BY SwitchStays, ToStays, ForgetFits DEF Caught, Places
<1> QED
  BY <1>4, <1>5

LEMMA ClearFits ==
  ASSUME HealthFits, RunsFit, NEW w \in Processes, NEW a, ClearFailures(w, a)
  PROVE  HealthFits'
<1>1. <<w, ens[w].on>> \in Processes \X Providers /\ 0 \in 0 .. Threshold
  BY RunFields, SessionsAssumption DEF SessionsAssumption
<1> QED
  BY <1>1, HealthStays DEF ClearFailures, HealthFits

LEMMA DecideStays ==
  ASSUME RunsFit, CachesFit, HealthFits, NEW w \in Processes, NEW a \in States, Decide(w, a)
  PROVE  RunStays /\ CachesFit' /\ HealthFits'
<1>1. HealthFits'
  BY ClearFits DEF Decide
<1>2. CachesFit'
  BY KeepFits DEF Decide
<1>3. RunStays
  <2>1. {"create", "clear", "qr", "done"} \subseteq Places
    BY DEF Places
  <2>2. CASE To(w, "qr") \/ To(w, "done")
    BY <2>1, <2>2, ToStays
  <2>3. ASSUME NEW place \in Places, a \in {"none", "offline"},
               RunIs(w, [ens[w] EXCEPT !.at = place, !.saw = a])
        PROVE  RunStays
    <3> DEFINE e == [ens[w] EXCEPT !.at = place, !.saw = a]
    <3>1. e \in Runs /\ e.left = ens[w].left
      BY <2>3, RunFields DEF Runs
    <3>2. RunIs(w, e)
      BY <2>3
    <3> HIDE DEF e
    <3> QED
      BY <3>1, <3>2, RunIsStays
  <2> QED
    BY <2>1, <2>2, <2>3 DEF Decide
<1> QED
  BY <1>1, <1>2, <1>3

\* A step of a run that leaves the row, the queue and the monitor alone.
LEMMA RunStep1 ==
  ASSUME LostInv, UNCHANGED <<row, jobs, monitor, rest>>, amiss' \in BOOLEAN,
         OutsideFits', CachesFit', HealthFits', RunStays
  PROVE  LostInv'
<1>1. RoundFits' /\ RestFits' /\ QueueFits'
  BY DEF LostInv, monitor, rest, RoundFits, RestFits, QueueFits
<1>2. Outstanding'
  BY DEF LostInv, monitor, Outstanding, RunStays
<1> QED
  BY <1>1, <1>2 DEF LostInv, RunStays

LEMMA RowLeft ==
  ASSUME LostInv, unchangedRow
  PROVE  UNCHANGED <<row, jobs, monitor, rest>> /\ amiss' \in BOOLEAN
<1>1. amiss \in BOOLEAN
  BY DEF LostInv, RestFits
<1> QED
  BY <1>1 DEF unchangedRow

LEMMA RunKeeps ==
  ASSUME LostInv, NEW w \in Processes,
         \/ Look(w) \/ GetSession(w) \/ DeleteSession(w) \/ CreateSession(w)
         \/ StartSession(w) \/ AskAgain(w) \/ GetQRCode(w) \/ StartAgain(w)
  PROVE  LostInv'
<1>1. OutsideFits /\ CachesFit /\ HealthFits /\ RunsFit
  BY DEF LostInv
<1>2. ens[w].on \in Providers /\ ens[w] \in Runs
  BY <1>1, RunFields
<1>3. {"ask", "create", "start", "reask", "qr", "done", "again", "drop"} \subseteq Places
  BY DEF Places
<1>4. CASE Look(w)
  <2>1. OutsideFits'
    BY <1>1, <1>4 DEF Look, OutsideFits, outside
  <2>2. RunStays /\ CachesFit' /\ HealthFits'
    <3>1. CASE Kept(w) = "nothing"
      BY <1>1, <1>3, <1>4, <3>1, ToStays, CachesStay, HealthStays DEF Look
    <3>2. CASE Kept(w) # "nothing"
      <4>1. Kept(w) \in States
        BY <1>1, <3>2 DEF Kept, CachesFit
      <4> QED
        BY <1>1, <1>4, <3>2, <4>1, DecideStays DEF Look
    <3> QED
      BY <3>1, <3>2
  <2>3. UNCHANGED <<row, jobs, monitor, rest>>
    BY <1>4 DEF Look
  <2>4. amiss' \in BOOLEAN
    <3>1. amiss' = (amiss \/ Misled(w))
      BY <1>4 DEF Look
    <3> QED
      BY <3>1, Zenon
  <2> QED
    BY <1>4, <2>1, <2>2, <2>3, <2>4, RunStep1
<1>5. CASE GetSession(w)
  <2>1. OutsideFits'
    BY <1>1, <1>5, AnswersFit DEF GetSession
  <2>2. RunStays /\ CachesFit' /\ HealthFits'
    BY <1>1, <1>5, DecideStays, CaughtStays DEF GetSession
  <2> QED
    BY <1>5, <2>1, <2>2, RowLeft, RunStep1 DEF GetSession
<1>6. CASE DeleteSession(w)
  <2>1. OutsideFits'
    BY <1>1, <1>2, <1>6, CallFits DEF DeleteSession
  <2>2. RunStays /\ CachesFit'
    BY <1>1, <1>3, <1>6, ToStays, CachesStay, RetryStays DEF DeleteSession
  <2>3. HealthFits'
    BY <1>1, <1>6, HealthStays DEF DeleteSession
  <2> QED
    BY <1>6, <2>1, <2>2, <2>3, RowLeft, RunStep1 DEF DeleteSession
<1>7. ASSUME NEW place, NEW c, Failing(w, place, c)
      PROVE  LostInv'
  <2>1. OutsideFits'
    BY <1>1, <1>2, <1>7, CallFits DEF Failing
  <2>2. RunStays /\ CachesFit' /\ HealthFits'
    BY <1>1, <1>7, CaughtStays DEF Failing
  <2> QED
    BY <1>7, <2>1, <2>2, RowLeft, RunStep1 DEF Failing
<1>8. ASSUME NEW place, NEW c, Succeeding(w, place, c), RunStays, CachesFit'
      PROVE  LostInv'
  <2>1. OutsideFits' /\ HealthFits'
    BY <1>1, <1>2, <1>8, CallFits, HealthStays DEF Succeeding
  <2> QED
    BY <1>8, <2>1, RowLeft, RunStep1 DEF Succeeding
<1>9. CASE CreateSession(w)
  BY <1>1, <1>3, <1>7, <1>8, <1>9, ToStays, CachesStay DEF CreateSession
<1>10. CASE StartSession(w)
  BY <1>1, <1>3, <1>7, <1>8, <1>10, ToStays, CachesStay, ForgetFits DEF StartSession
<1>11. CASE GetQRCode(w)
  BY <1>1, <1>3, <1>7, <1>8, <1>11, ToStays, CachesStay DEF GetQRCode
<1>12. CASE StartAgain(w)
  BY <1>1, <1>7, <1>8, <1>12, RetryStays DEF StartAgain
<1>13. CASE AskAgain(w)
  <2>1. OutsideFits'
    BY <1>1, <1>13, AnswersFit DEF AskAgain
  <2>2. ASSUME NEW a \in States, Keep(w, a), ClearFailures(w, a),
               RunIs(w, [ens[w] EXCEPT !.saw = "none",
                           !.at = IF a = "qr" THEN "qr"
                                  ELSE IF a = "working" THEN "done" ELSE "again"])
        PROVE  RunStays /\ CachesFit' /\ HealthFits'
    <3> DEFINE e == [ens[w] EXCEPT !.saw = "none",
                       !.at = IF a = "qr" THEN "qr"
                              ELSE IF a = "working" THEN "done" ELSE "again"]
    <3>1. e \in Runs /\ e.left = ens[w].left
      BY <1>2, <1>3 DEF Runs
    <3>2. RunIs(w, e)
      BY <2>2
    <3> HIDE DEF e
    <3> QED
      BY <1>1, <2>2, <3>1, <3>2, RunIsStays, KeepFits, ClearFits
  <2>3. RunStays /\ CachesFit' /\ HealthFits'
    BY <1>1, <1>13, <2>2, CaughtStays DEF AskAgain
  <2> QED
    BY <1>13, <2>1, <2>3, RowLeft, RunStep1 DEF AskAgain
<1> QED
  BY <1>4, <1>5, <1>6, <1>9, <1>10, <1>11, <1>12, <1>13

----------------------------------------------------------------------------
\* Runs end and begin.

LEMMA EndsKeeps ==
  ASSUME LostInv, NEW w \in Processes, NEW ok \in BOOLEAN, Ends(w, ok)
  PROVE  RunsFit' /\ QueueFits' /\ RoundFits' /\ Outstanding' /\ UNCHANGED rest
<1>1. RunsFit /\ QueueFits /\ RoundFits /\ Outstanding
  BY DEF LostInv
<1>2. Idle \in Runs /\ Idle.left = 0
  BY SessionsAssumption, LostNames DEF Idle, Runs, Places, SessionsAssumption
<1>3. ens' = [ens EXCEPT ![w] = Idle]
  BY DEF Ends, RunIs
<1>4. RunsFit'
  BY <1>1, <1>2, <1>3 DEF RunsFit
<1>5. CASE w = "worker"
  <2>1. UNCHANGED <<mon, backoff, seen, rounds>>
    BY <1>5 DEF Ends
  <2>2. ens'["worker"].left = 0
    BY <1>1, <1>2, <1>3, <1>5 DEF RunsFit
  <2>3. CASE ens["worker"].left > 0
             /\ jobs' = Append(jobs, [on |-> ens[w].first, left |-> ens[w].left])
    <3>1. [on |-> ens[w].first, left |-> ens[w].left] \in Jobs
      BY <1>1, <1>5, <2>3, RunFields, SessionsAssumption DEF Jobs, SessionsAssumption
    <3>2. jobs' \in Seq(Jobs) /\ Len(jobs') = Len(jobs) + 1 /\ Len(jobs) \in Nat
      BY <1>1, <2>3, <3>1 DEF QueueFits
    <3>3. Outstanding'
      <4>1. PICK m \in {0, 1} : m = IF mon.at # "idle" THEN 1 ELSE 0
        OBVIOUS
      <4>2. Len(jobs) + 1 + m <= rounds
        BY <1>1, <2>3, <4>1 DEF Outstanding
      <4>3. Len(jobs') + 0 + m <= rounds'
        BY <2>1, <3>2, <4>2
      <4>4. (IF ens'["worker"].left > 0 THEN 1 ELSE 0) = 0
        BY <2>2
      <4> QED
        BY <2>1, <4>1, <4>3, <4>4 DEF Outstanding
    <3> QED
      BY <1>1, <1>4, <2>1, <3>2, <3>3 DEF Ends, RoundFits, QueueFits
  <2>4. CASE jobs' = jobs
    <3>1. Len(jobs) \in Nat /\ rounds \in Nat
      BY <1>1, SessionsAssumption DEF QueueFits, RoundFits, SessionsAssumption
    <3>2. Outstanding'
      <4>1. PICK m, n \in {0, 1} :
              m = (IF mon.at # "idle" THEN 1 ELSE 0)
              /\ n = IF ens["worker"].left > 0 THEN 1 ELSE 0
        OBVIOUS
      <4>2. Len(jobs) + n + m <= rounds
        BY <1>1, <4>1 DEF Outstanding
      <4>3. Len(jobs') + 0 + m <= rounds'
        BY <2>1, <2>4, <3>1, <4>2
      <4>4. (IF ens'["worker"].left > 0 THEN 1 ELSE 0) = 0
        BY <2>2
      <4> QED
        BY <2>1, <4>1, <4>3, <4>4 DEF Outstanding
    <3> QED
      BY <1>1, <1>4, <2>1, <2>4, <3>2 DEF Ends, RoundFits, QueueFits
  <2> QED
    BY <1>5, <2>3, <2>4 DEF Ends
<1>6. CASE w # "worker"
  <2>1. ens'["worker"] = ens["worker"] /\ jobs' = jobs /\ UNCHANGED <<seen, rounds>>
    BY <1>1, <1>3, <1>6 DEF Ends, RunsFit
  <2>2. QueueFits' /\ Len(jobs) \in Nat /\ rounds \in Nat
    BY <1>1, <2>1, SessionsAssumption DEF QueueFits, RoundFits, SessionsAssumption
  <2>3. CASE UNCHANGED <<mon, backoff>>
    BY <1>1, <1>4, <2>1, <2>2, <2>3 DEF Ends, RoundFits, Outstanding
  <2>4. CASE /\ mon.at = "wait"
             /\ mon' \in {Resting, [mon EXCEPT !.at = "hand", !.to = Other(mon.to)],
                          [mon EXCEPT !.at = "write", !.saw = "error"]}
             /\ backoff' \in {backoff, [backoff EXCEPT ![mon.on] = 0]}
    <3>1. mon' \in Rounds
      <4>1. mon \in Rounds /\ Other(mon.to) \in Providers
        BY <1>1, LostNames DEF RoundFits, Rounds
      <4>2. Resting \in Rounds
        BY LostNames DEF Resting, Rounds
      <4> QED
        BY <2>4, <4>1, <4>2 DEF Rounds
    <3>2. backoff' \in [Providers -> 0 .. 3]
      BY <1>1, <2>4 DEF RoundFits
    <3>3. Outstanding'
      <4>1. PICK m, n \in {0, 1} :
              m = (IF mon'.at # "idle" THEN 1 ELSE 0)
              /\ n = IF ens["worker"].left > 0 THEN 1 ELSE 0
        OBVIOUS
      <4>2. Len(jobs) + n + 1 <= rounds
        BY <1>1, <2>4, <4>1 DEF Outstanding
      <4>3. Len(jobs') + n + m <= rounds'
        BY <2>1, <2>2, <4>2
      <4> QED
        BY <2>1, <4>1, <4>3 DEF Outstanding
    <3> QED
      BY <1>1, <1>4, <2>1, <2>2, <3>1, <3>2, <3>3 DEF Ends, RoundFits
  <2> QED
    BY <2>3, <2>4 DEF Ends
<1> QED
  BY <1>5, <1>6

LEMMA EndingKeeps ==
  ASSUME LostInv, NEW w \in Processes, NoProvider(w) \/ Done(w)
  PROVE  LostInv'
<1>1. OutsideFits /\ CachesFit /\ HealthFits /\ RunsFit /\ RestFits
  BY DEF LostInv
<1>2. CASE NoProvider(w)
  <2>1. OutsideFits' /\ CachesFit' /\ HealthFits'
    BY <1>1, <1>2, CachesStay, HealthStays DEF NoProvider, OutsideFits, outside
  <2>2. RunsFit' /\ QueueFits' /\ RoundFits' /\ Outstanding' /\ UNCHANGED rest
    BY <1>2, EndsKeeps DEF NoProvider
  <2>3. RestFits'
    BY <1>1, <1>2, <2>2 DEF NoProvider, RestFits, rest
  <2> QED
    BY <2>1, <2>2, <2>3 DEF LostInv
<1>3. CASE Done(w)
  <2>1. RunsFit' /\ QueueFits' /\ RoundFits' /\ Outstanding' /\ UNCHANGED rest
    BY <1>3, EndsKeeps DEF Done
  <2>2. CASE Forget(w) /\ SaveProvider(w)
    <3>1. row' \in [provider : Providers, active : BOOLEAN] /\ amiss' \in BOOLEAN
      BY <1>1, <2>2, RunFields DEF RestFits, SaveProvider
    <3>2. incidents' \in 0 .. MaxIncidents
      BY <1>1, <2>2, IncidentFits DEF SaveProvider, OutsideFits
    <3>3. OutsideFits' /\ CachesFit' /\ HealthFits'
      BY <1>1, <1>3, <2>2, <3>2, ForgetFits, HealthStays DEF Done, OutsideFits
    <3>4. RestFits'
      BY <1>1, <2>1, <3>1 DEF RestFits, rest
    <3> QED
      BY <2>1, <3>3, <3>4 DEF LostInv
  <2>3. CASE UNCHANGED <<caches, row, amiss, incidents>>
    <3>1. OutsideFits' /\ CachesFit' /\ HealthFits'
      BY <1>1, <1>3, <2>3, CachesStay, HealthStays DEF Done, OutsideFits
    <3>2. RestFits'
      BY <1>1, <2>1, <2>3 DEF RestFits, rest
    <3> QED
      BY <2>1, <3>1, <3>2 DEF LostInv
  <2> QED
    BY <1>3, <2>2, <2>3 DEF Done
<1> QED
  BY <1>2, <1>3

LEMMA BeginRunFits ==
  ASSUME RunsFit, CachesFit, NEW w \in Processes, NEW p \in Providers,
         NEW n \in 0 .. Attempts, BeginRun(w, p, n)
  PROVE  RunsFit' /\ CachesFit' /\ ens'["worker"].left = IF w = "worker" THEN n
                                                         ELSE ens["worker"].left
<1> DEFINE e == [Idle EXCEPT !.at = "look", !.first = p, !.on = p, !.left = n]
<1>1. Other(p) \in Providers /\ "look" \in Places /\ "throw" \in Places
  BY LostNames DEF Places
<1>2. /\ e \in Runs /\ [e EXCEPT !.on = Other(p)] \in Runs /\ [e EXCEPT !.at = "throw"] \in Runs
      /\ e.left = n /\ [e EXCEPT !.on = Other(p)].left = n /\ [e EXCEPT !.at = "throw"].left = n
  <2>1. 1 \in 1 .. Attempts
    BY SessionsAssumption DEF SessionsAssumption
  <2>2. e \in Runs /\ e.left = n
    BY <1>1, <2>1 DEF Idle, Runs
  <2> HIDE DEF e
  <2> QED
    BY <1>1, <2>2 DEF Runs
<1>3. PICK r \in Runs : r.left = n /\ RunIs(w, r) /\ (Forget(w) \/ UNCHANGED caches)
  <2>1. \/ RunIs(w, e) /\ UNCHANGED caches
        \/ RunIs(w, [e EXCEPT !.on = Other(p)]) /\ Forget(w)
        \/ RunIs(w, [e EXCEPT !.at = "throw"]) /\ UNCHANGED caches
    BY DEF BeginRun
  <2> HIDE DEF e
  <2> QED
    BY <1>2, <2>1
<1>4. ens' = [ens EXCEPT ![w] = r]
  BY <1>3 DEF RunIs
<1>5. RunsFit' /\ ens'["worker"].left = IF w = "worker" THEN n ELSE ens["worker"].left
  BY <1>3, <1>4, LostNames DEF RunsFit
<1> QED
  BY <1>3, <1>5, ForgetFits, CachesStay

\* A job is taken, or a request begins a run.
LEMMA TakingKeeps ==
  ASSUME LostInv, TakeJob \/ Request
  PROVE  LostInv'
<1>1. /\ OutsideFits /\ CachesFit /\ HealthFits /\ RunsFit /\ RoundFits /\ RestFits
      /\ QueueFits /\ Outstanding
  BY DEF LostInv
<1>2. CASE TakeJob
  <2>1. jobs \in Seq(Jobs) /\ jobs # <<>> /\ jobs' = Tail(jobs)
    BY <1>1, <1>2 DEF TakeJob, QueueFits
  <2>2. Head(jobs) \in Jobs /\ jobs' \in Seq(Jobs) /\ Len(jobs) \in Nat
        /\ Len(jobs') = Len(jobs) - 1
    BY <2>1
  <2>3. Head(jobs).on \in Providers /\ Head(jobs).left - 1 \in 0 .. Attempts
    BY <2>2, SessionsAssumption DEF Jobs, SessionsAssumption
  <2>4. RunsFit' /\ CachesFit'
    BY <1>1, <1>2, <2>3, BeginRunFits, LostNames DEF TakeJob
  <2>5. OutsideFits' /\ HealthFits' /\ RoundFits' /\ RestFits' /\ UNCHANGED <<mon, rounds>>
    BY <1>1, <1>2 DEF TakeJob, OutsideFits, outside, HealthFits, health, RoundFits, monitor,
       RestFits, rest
  <2>6. Outstanding'
    <3>1. PICK m, n, k \in {0, 1} :
            /\ m = (IF mon.at # "idle" THEN 1 ELSE 0)
            /\ n = (IF ens["worker"].left > 0 THEN 1 ELSE 0)
            /\ k = IF ens'["worker"].left > 0 THEN 1 ELSE 0
      OBVIOUS
    <3>2. Len(jobs) + n + m <= rounds
      BY <1>1, <3>1 DEF Outstanding
    <3>3. rounds \in Nat
      BY <1>1, SessionsAssumption DEF RoundFits, SessionsAssumption
    <3>4. Len(jobs') + k + m <= rounds'
      BY <2>2, <2>5, <3>2, <3>3
    <3> QED
      BY <2>5, <3>1, <3>4 DEF Outstanding
  <2> QED
    BY <2>1, <2>2, <2>4, <2>5, <2>6 DEF LostInv, QueueFits
<1>3. CASE Request
  <2>1. row.provider \in Providers /\ 0 \in 0 .. Attempts
    BY <1>1, SessionsAssumption DEF RestFits, SessionsAssumption
  <2>2. RunsFit' /\ CachesFit' /\ ens'["worker"].left = ens["worker"].left
    BY <1>1, <1>3, <2>1, BeginRunFits, LostNames DEF Request
  <2>3. OutsideFits'
    BY <1>1, <1>3, IncidentFits DEF Request, OutsideFits
  <2>4. /\ HealthFits' /\ RoundFits' /\ RestFits' /\ QueueFits'
        /\ UNCHANGED <<mon, rounds, jobs>>
    BY <1>1, <1>3 DEF Request, HealthFits, health, RoundFits, monitor, RestFits, rest, QueueFits
  <2> QED
    BY <1>1, <2>2, <2>3, <2>4 DEF LostInv, Outstanding
<1> QED
  BY <1>2, <1>3

----------------------------------------------------------------------------
\* The monitor.

\* A step of the monitor inside a round, or the end of one.
LEMMA RoundStep ==
  ASSUME LostInv, UNCHANGED <<ens, jobs, rounds, amiss, health, rest>>, CachesFit',
         OutsideFits', row' \in [provider : Providers, active : BOOLEAN],
         mon.at # "idle", mon' \in Rounds, backoff' \in [Providers -> 0 .. 3],
         seen' \in {<<>>} \cup (Providers \X (States \cup {"error"}))
  PROVE  LostInv'
<1>1. Outstanding'
  <2>1. PICK m, n \in {0, 1} :
          /\ m = (IF mon'.at # "idle" THEN 1 ELSE 0)
          /\ n = IF ens["worker"].left > 0 THEN 1 ELSE 0
    OBVIOUS
  <2>2. Len(jobs) \in Nat /\ rounds \in Nat
    BY SessionsAssumption DEF LostInv, QueueFits, RoundFits, SessionsAssumption
  <2>3. Len(jobs) + n + 1 <= rounds
    BY <2>1 DEF LostInv, Outstanding
  <2>4. Len(jobs) + n + m <= rounds
    BY <2>2, <2>3
  <2> QED
    BY <2>1, <2>4 DEF Outstanding
<1> QED
  BY <1>1 DEF LostInv, HealthFits, health, RunsFit, RoundFits, RestFits, rest, QueueFits

LEMMA SeenFits ==
  ASSUME RoundFits, NEW a \in States \cup {"error"}
  PROVE  Seen(a) \in Providers \X (States \cup {"error"})
BY LostNames DEF RoundFits, Rounds, Seen

LEMMA CheckKeeps ==
  ASSUME LostInv, Check
  PROVE  LostInv'
<1>1. /\ OutsideFits /\ CachesFit /\ HealthFits /\ RunsFit /\ RoundFits /\ RestFits
      /\ QueueFits /\ Outstanding
  BY DEF LostInv
<1>2. mon \in Rounds /\ mon.on \in Providers /\ mon.to \in Providers
      /\ mon.saw \in States \cup {"error"}
  BY <1>1 DEF RoundFits, Rounds
<1>3. Resting \in Rounds /\ Resting.at = "idle"
  BY LostNames DEF Resting, Rounds
<1>4. Len(jobs) \in Nat /\ rounds \in Nat
  BY <1>1, SessionsAssumption DEF QueueFits, RoundFits, SessionsAssumption
<1>5. CASE ListChannel
  <2>1. mon' \in Rounds /\ rounds' \in 0 .. MaxRounds /\ rounds' = rounds + 1
    BY <1>1, <1>4, <1>5, LostNames, SessionsAssumption
    DEF ListChannel, Rounds, RestFits, SessionsAssumption
  <2>2. Outstanding'
    <3>1. PICK m, n \in {0, 1} :
            /\ m = (IF mon'.at # "idle" THEN 1 ELSE 0)
            /\ n = IF ens["worker"].left > 0 THEN 1 ELSE 0
      OBVIOUS
    <3>2. Len(jobs) + n + 0 <= rounds
      BY <1>1, <1>5, <3>1 DEF Outstanding, ListChannel
    <3>3. Len(jobs) + n + m <= rounds'
      BY <1>4, <2>1, <3>2
    <3> QED
      BY <1>5, <3>1, <3>3 DEF Outstanding, ListChannel
  <2>3. /\ OutsideFits' /\ CachesFit' /\ HealthFits' /\ RunsFit' /\ RestFits' /\ QueueFits'
        /\ UNCHANGED <<seen, backoff>>
    BY <1>1, <1>5 DEF ListChannel, unchangedRun, OutsideFits, outside, CachesFit, caches,
       HealthFits, health, RunsFit, RestFits, rest, QueueFits
  <2> QED
    BY <1>1, <2>1, <2>2, <2>3 DEF LostInv, RoundFits
<1>6. CASE CheckSession
  <2>1. OutsideFits' /\ CachesFit'
    BY <1>1, <1>6, AnswersFit, CachesStay DEF CheckSession
  <2>2. mon' \in Rounds
    BY <1>2, <1>6 DEF CheckSession, Rounds
  <2> QED
    BY <1>1, <1>6, <2>1, <2>2, RoundStep DEF CheckSession, unchangedRun, RestFits, RoundFits
<1>7. CASE WriteSession
  <2>1. seen' \in Providers \X (States \cup {"error"})
    BY <1>1, <1>2, <1>7, LostNames, SeenFits DEF WriteSession, SyncRow
  <2>2. row' \in [provider : Providers, active : BOOLEAN]
    BY <1>1, <1>7 DEF WriteSession, SyncRow, RestFits
  <2>3. OutsideFits'
    <3>1. incidents' \in 0 .. MaxIncidents
      BY <1>1, <1>7, IncidentFits DEF WriteSession, SyncRow, OutsideFits
    <3> QED
      BY <1>1, <1>7, <3>1 DEF WriteSession, OutsideFits
  <2>4. backoff' \in [Providers -> 0 .. 3]
    <3>1. \A n \in 0 .. 3 : (IF n < 3 THEN n + 1 ELSE 3) \in 0 .. 3
      OBVIOUS
    <3>2. PICK n \in 0 .. 3 : backoff' \in {backoff, [backoff EXCEPT ![mon.on] = n]}
      BY <1>1, <1>2, <1>7, <3>1 DEF WriteSession, RoundFits
    <3> QED
      BY <1>1, <1>2, <3>2 DEF RoundFits
  <2>5. mon' \in Rounds
    <3>1. [mon EXCEPT !.at = "hand", !.saw = "none"] \in Rounds
      BY <1>2, LostNames DEF Rounds
    <3> QED
      BY <1>3, <1>7, <3>1 DEF WriteSession
  <2> QED
    BY <1>1, <1>7, <2>1, <2>2, <2>3, <2>4, <2>5, CachesStay, RoundStep
    DEF WriteSession, unchangedRun
<1>8. CASE Recover
  <2>0. amiss' \in BOOLEAN
    <3>1. amiss' \in {FALSE, amiss}
      BY <1>8 DEF Recover
    <3> QED
      BY <1>1, <3>1 DEF RestFits
  <2>1. OutsideFits' /\ HealthFits' /\ RestFits' /\ UNCHANGED <<seen, rounds>> /\ mon.at = "hand"
    BY <1>1, <1>8, <2>0 DEF Recover, unchangedRun, OutsideFits, outside, HealthFits, health,
       RestFits, rest
  <2>2. PICK n \in {0, 1} : n = IF ens["worker"].left > 0 THEN 1 ELSE 0
    OBVIOUS
  <2>3. Len(jobs) + n + 1 <= rounds
    BY <1>1, <2>1, <2>2 DEF Outstanding
  <2>4. CASE reachable
    <3>1. /\ jobs' = Append(jobs, [on |-> mon.to, left |-> Attempts]) /\ mon' = Resting
          /\ backoff' = [backoff EXCEPT ![mon.on] = 0] /\ UNCHANGED <<ens, caches>>
      BY <1>8, <2>4 DEF Recover
    <3>2. [on |-> mon.to, left |-> Attempts] \in Jobs
      BY <1>2, SessionsAssumption DEF Jobs, SessionsAssumption
    <3>3. jobs' \in Seq(Jobs) /\ Len(jobs') = Len(jobs) + 1
      BY <1>1, <3>1, <3>2 DEF QueueFits
    <3>4. Len(jobs') + n + 0 <= rounds'
      BY <1>4, <2>1, <2>3, <3>3
    <3>5. Outstanding'
      BY <1>3, <2>2, <3>1, <3>4 DEF Outstanding
    <3>6. RunsFit' /\ CachesFit' /\ RoundFits'
      BY <1>1, <1>2, <1>3, <2>1, <3>1, CachesStay DEF RunsFit, RoundFits
    <3> QED
      BY <2>1, <3>3, <3>5, <3>6 DEF LostInv, QueueFits
  <2>5. CASE ~reachable
    <3>1. mon' = [mon EXCEPT !.at = "wait"] /\ UNCHANGED <<jobs, backoff>>
          /\ (BeginRun("api", mon.to, 0) \/ UNCHANGED <<ens, caches>>)
      BY <1>8, <2>5 DEF Recover
    <3>2. mon' \in Rounds /\ mon'.at = "wait"
      BY <1>2, <3>1 DEF Rounds
    <3>3. RunsFit' /\ CachesFit' /\ ens'["worker"].left = ens["worker"].left
      <4>1. 0 \in 0 .. Attempts
        BY SessionsAssumption DEF SessionsAssumption
      <4>2. CASE BeginRun("api", mon.to, 0)
        BY <1>1, <1>2, <4>1, <4>2, BeginRunFits, LostNames
      <4>3. CASE UNCHANGED <<ens, caches>>
        BY <1>1, <4>3, CachesStay DEF RunsFit
      <4> QED
        BY <3>1, <4>2, <4>3
    <3>4. Outstanding'
      BY <1>4, <2>1, <2>2, <2>3, <3>1, <3>2, <3>3 DEF Outstanding
    <3> QED
      BY <1>1, <2>1, <3>1, <3>2, <3>3, <3>4 DEF LostInv, RoundFits, QueueFits
  <2> QED
    BY <2>4, <2>5
<1> QED
  BY <1>5, <1>6, <1>7, <1>8 DEF Check

----------------------------------------------------------------------------
\* What happens around.

LEMMA AroundKeeps ==
  ASSUME LostInv, UNCHANGED <<ens, jobs, monitor, down>>, amiss' \in BOOLEAN,
         OutsideFits', CachesFit', HealthFits', row' \in [provider : Providers, active : BOOLEAN],
         reachable' \in BOOLEAN
  PROVE  LostInv'
BY DEF LostInv, RunsFit, RoundFits, RestFits, QueueFits, Outstanding, monitor

LEMMA LostStep == LostInv /\ [LostNext]_lostVars => LostInv'
<1> SUFFICES ASSUME LostInv, [LostNext]_lostVars PROVE LostInv'
  OBVIOUS
<1>1. /\ OutsideFits /\ CachesFit /\ HealthFits /\ RestFits
      /\ row \in [provider : Providers, active : BOOLEAN] /\ reachable \in BOOLEAN
  BY DEF LostInv, RestFits
<1>0. amiss \in BOOLEAN
  BY <1>1 DEF RestFits
<1>2. CASE \E w \in Processes : Run(w)
  BY <1>2, RunKeeps, EndingKeeps DEF Run
<1>3. CASE TakeJob \/ Request
  BY <1>3, TakingKeeps
<1>4. CASE Check
  BY <1>4, CheckKeeps
<1>5. CASE Arrive
  <2>1. PICK k \in late :
          /\ late' = late \ {k} /\ incidents' = incidents
          /\ remote' \in {remote, [remote EXCEPT ![k[1]] = Effect(k[1], k[2], remote[k[1]])]}
    BY <1>5 DEF Arrive
  <2>2. k[1] \in Providers /\ remote[k[1]] \in States
    BY <1>1 DEF OutsideFits
  <2>3. OutsideFits'
    BY <1>1, <2>1, <2>2, EffectFits DEF OutsideFits
  <2>4. UNCHANGED <<row, caches, health, ens, jobs, monitor, rest>>
    BY <1>5 DEF Arrive
  <2>5. amiss' \in BOOLEAN
    <3>1. PICK k2 \in late :
            amiss' = (amiss \/ (remote[k2[1]] \in Live /\ remote'[k2[1]] \notin Live))
      BY <1>5 DEF Arrive
    <3> QED
      BY <3>1, Zenon
  <2> QED
    BY <1>1, <2>3, <2>4, <2>5, CachesStay, HealthStays, AroundKeeps DEF rest
<1>6. CASE Scan \/ Lose
  <2>1. OutsideFits'
    BY <1>1, <1>6, IncidentFits, LostNames
    DEF Scan, Lose, unchangedWork, unchangedAround, OutsideFits
  <2>2. amiss' \in BOOLEAN
    BY <1>0, <1>6 DEF Scan, Lose, unchangedWork
  <2> QED
    BY <1>1, <1>6, <2>1, <2>2, CachesStay, HealthStays, AroundKeeps
    DEF Scan, Lose, unchangedWork, unchangedAround
<1>7. CASE Report
  <2>1. OutsideFits' /\ row' \in [provider : Providers, active : BOOLEAN]
    BY <1>0, <1>1, <1>7 DEF Report, unchangedWork, unchangedAround, OutsideFits
  <2> QED
    BY <1>0, <1>1, <1>7, <2>1, CachesStay, HealthStays, AroundKeeps DEF Report, unchangedWork, unchangedAround
<1>8. CASE Expire
  <2>1. OutsideFits' /\ CachesFit'
    BY <1>0, <1>1, <1>8 DEF Expire, unchangedWork, unchangedAround, OutsideFits, CachesFit
  <2> QED
    BY <1>0, <1>1, <1>8, <2>1, HealthStays, AroundKeeps DEF Expire, unchangedWork, unchangedAround
<1>9. CASE Unblock
  <2>1. OutsideFits'
    BY <1>0, <1>1, <1>9, IncidentFits DEF Unblock, unchangedWork, unchangedAround, OutsideFits
  <2>2. HealthFits'
    BY <1>0, <1>1, <1>9, SessionsAssumption DEF Unblock, HealthFits, SessionsAssumption
  <2> QED
    BY <1>0, <1>1, <1>9, <2>1, <2>2, CachesStay, AroundKeeps DEF Unblock, unchangedWork, unchangedAround
<1>10. CASE RedisGoes \/ RedisIsBack
  <2>1. OutsideFits'
    BY <1>0, <1>1, <1>10, IncidentFits DEF RedisGoes, RedisIsBack, unchangedWork, unchangedAround, OutsideFits
  <2> QED
    BY <1>0, <1>1, <1>10, <2>1, CachesStay, HealthStays, AroundKeeps
    DEF RedisGoes, RedisIsBack, unchangedWork, unchangedAround
<1>11. CASE UNCHANGED lostVars
  <2>1. OutsideFits'
    BY <1>0, <1>1, <1>11 DEF lostVars, outside, OutsideFits
  <2> QED
    BY <1>0, <1>1, <1>11, <2>1, CachesStay, HealthStays, AroundKeeps DEF lostVars, rest
<1> QED
  BY <1>2, <1>3, <1>4, <1>5, <1>6, <1>7, <1>8, <1>9, <1>10, <1>11 DEF LostNext

LEMMA LostStart == LostInit => LostInv
<1> SUFFICES ASSUME LostInit PROVE LostInv
  OBVIOUS
<1>1. Idle \in Runs /\ Idle.left = 0
  BY SessionsAssumption, LostNames DEF Idle, Runs, Places, SessionsAssumption
<1>2. OutsideFits /\ CachesFit /\ HealthFits /\ RunsFit /\ QueueFits
  BY <1>1, SessionsAssumption, LostNames
  DEF LostInit, OutsideFits, CachesFit, HealthFits, RunsFit, QueueFits, SessionsAssumption
<1>3. RoundFits /\ RestFits
  <2>1. Resting \in Rounds
    BY LostNames DEF Resting, Rounds
  <2>2. RoundFits
    BY <2>1, SessionsAssumption DEF LostInit, RoundFits, SessionsAssumption
  <2>3. row \in [provider : Providers, active : BOOLEAN]
    BY DEF LostInit
  <2>4. down \subseteq Providers
    BY DEF LostInit
  <2> QED
    BY <2>2, <2>3, <2>4 DEF LostInit, RestFits
<1>4. Outstanding
  BY <1>1, LostNames DEF LostInit, Outstanding, Resting
<1> QED
  BY <1>2, <1>3, <1>4 DEF LostInv

\* Every state of a recovery has the types that the tables allow; in particular no
\* run tries a provider more often than it may, and the queue never holds more jobs
\* than the monitor made rounds, whatever fails and is put back.
THEOREM LostTyped == LostSpec => []LostTypeOK
<1>1. LostSpec => []LostInv
  BY LostStart, LostStep, PTL DEF LostSpec
<1> QED
  BY <1>1, LostTypes, PTL

=============================================================================
