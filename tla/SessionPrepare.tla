--------------------------- MODULE SessionPrepare ---------------------------
(***************************************************************************)
(* Preparing a WAHA session.  Callers of a process that ask for the same   *)
(* tenant and session share one run (sessionLocks); the runs of different  *)
(* processes take turns by a lock in Redis that expires; a run gives up on *)
(* its body after a time, and the body goes on.  In FREE mode all tenants  *)
(* use one session and a connect deletes it first.                         *)
(*                                                                         *)
(* One tick is about 60 s: the lock lives for 2 (120 s), a caller tries to *)
(* take it for 1 (60 s), a run gives up on its body after 3 (180 s).  The  *)
(* circuit that may refuse a connect, the health cache, the QR code and    *)
(* what a run answers are not here.  The provider is external.             *)
(***************************************************************************)
EXTENDS Naturals, FiniteSets

CONSTANTS
  Callers, NoCaller,
  Procs, ProcOf,      \* the process a call is made in
  Keys, KeyOf,        \* provider:tenant:session of a call
  WahaSessions, SessionOf, \* the session of a key
  FreeMode,           \* WAHA_MULTI_SESSION is not "true"
  LockConfigured,     \* Redis is configured and the lock is not disabled
  LockTTL, MaxWait, EnsureTimeout,
  MaxBody,            \* a body's requests and its wait loop are over by then
  MovesTo,            \* bound: the states a session may reach by itself
  MaxFaults           \* bound: outages and errors of Redis, restarts of processes

ASSUME PrepareAssumption ==
  /\ NoCaller \notin Callers
  /\ ProcOf \in [Callers -> Procs] /\ KeyOf \in [Callers -> Keys]
  /\ SessionOf \in [Keys -> WahaSessions]
  /\ LockTTL \in Nat \ {0} /\ MaxWait \in Nat /\ MaxBody \in Nat
  /\ EnsureTimeout \in Nat /\ LockTTL <= EnsureTimeout
  /\ FreeMode \in BOOLEAN /\ LockConfigured \in BOOLEAN
  /\ MovesTo \subseteq {"none", "stopped", "qr", "working", "failed"}
  /\ MaxFaults \in Nat

VARIABLES
  call,         \* where each caller is
  awaits,       \* the run it waits for, named by the call that began it
  run,          \* where the run that a call began is
  waitAge,      \* how long that run has tried to take the lock
  sessionLocks, \* the run that a process shares, per key
  body, bodyAge,
  locked,       \* the bodies that began under the lock
  token, tokenAge, \* the token in Redis, per key
  session,      \* the sessions at the provider
  redisUp, faults

callers == <<call, awaits>>
runs == <<run, waitAge, sessionLocks>>
bodies == <<body, bodyAge, locked>>
redis == <<token, tokenAge, redisUp>>
prepareVars == <<callers, runs, bodies, redis, session, faults>>

Slots == Procs \X Keys
Slot(c) == <<ProcOf[c], KeyOf[c]>>
Session(c) == SessionOf[KeyOf[c]]

Connecting == {"reset", "health", "connecting"}
CallPlaces == Connecting \cup {"idle", "waiting"}
RunPlaces == {"none", "locking", "working", "releasing"}
BodyPlaces == {"none", "list", "create", "start", "detail", "recreate", "restart", "wait"}
SessionStates == {"none", "stopped", "starting", "qr", "working", "failed"}

PrepareTypeOK ==
  /\ call \in [Callers -> CallPlaces]
  /\ awaits \in [Callers -> Callers \cup {NoCaller}]
  /\ run \in [Callers -> RunPlaces]
  /\ waitAge \in [Callers -> 0 .. MaxWait]
  /\ sessionLocks \in [Slots -> Callers \cup {NoCaller}]
  /\ body \in [Callers -> BodyPlaces]
  /\ bodyAge \in [Callers -> 0 .. MaxBody]
  /\ locked \subseteq Callers
  /\ token \in [Keys -> Callers \cup {NoCaller}]
  /\ tokenAge \in [Keys -> 0 .. LockTTL - 1]
  /\ session \in [WahaSessions -> SessionStates]
  /\ redisUp \in BOOLEAN
  /\ faults \in 0 .. MaxFaults

PrepareInit ==
  /\ call = [c \in Callers |-> "idle"]
  /\ awaits = [c \in Callers |-> NoCaller]
  /\ run = [c \in Callers |-> "none"]
  /\ waitAge = [c \in Callers |-> 0]
  /\ sessionLocks = [s \in Slots |-> NoCaller]
  /\ body = [c \in Callers |-> "none"]
  /\ bodyAge = [c \in Callers |-> 0]
  /\ locked = {}
  /\ token = [k \in Keys |-> NoCaller]
  /\ tokenAge = [k \in Keys |-> 0]
  /\ session \in [WahaSessions -> {"none", "stopped", "working"}]
  /\ redisUp = TRUE /\ faults = 0

----------------------------------------------------------------------------
\* The callers: ensureWahaSessionPrepared, up to its first await.

\* Nothing of an earlier use of the call is left.
Unused(c) == call[c] = "idle" /\ run[c] = "none" /\ body[c] = "none"

WaitsFor(c, r, place) ==
  /\ call' = [call EXCEPT ![c] = place] /\ awaits' = [awaits EXCEPT ![c] = r]

Join(c, place) ==
  /\ sessionLocks[Slot(c)] # NoCaller
  /\ WaitsFor(c, sessionLocks[Slot(c)], place)
  /\ UNCHANGED <<run, waitAge, sessionLocks, bodies>>

BeginBody(c, held) ==
  /\ run' = [run EXCEPT ![c] = "working"]
  /\ body' = [body EXCEPT ![c] = "list"] /\ bodyAge' = [bodyAge EXCEPT ![c] = 0]
  /\ locked' = IF held THEN locked \cup {c} ELSE locked \ {c}

\* Without a lock configured the body starts at once.
Begin(c, place) ==
  /\ sessionLocks[Slot(c)] = NoCaller
  /\ WaitsFor(c, c, place)
  /\ sessionLocks' = [sessionLocks EXCEPT ![Slot(c)] = c]
  /\ waitAge' = [waitAge EXCEPT ![c] = 0]
  /\ IF LockConfigured
       THEN run' = [run EXCEPT ![c] = "locking"] /\ UNCHANGED bodies
       ELSE BeginBody(c, FALSE)

\* Mutant: a run in hand is not shared.
PrepareAlways(c, place) ==
  /\ WaitsFor(c, c, place)
  /\ sessionLocks' = [sessionLocks EXCEPT ![Slot(c)] = c]
  /\ waitAge' = [waitAge EXCEPT ![c] = 0]
  /\ run' = [run EXCEPT ![c] = "locking"] /\ UNCHANGED bodies

Prepare(c, place) == Join(c, place) \/ Begin(c, place)

\* getQrCode and createSession prepare a session with no time limit; the reset that
\* createSession makes first is that of a connect which goes no further (Reset).
EnsurePrepared(c) ==
  /\ Unused(c) /\ Prepare(c, "waiting")
  /\ UNCHANGED <<redis, session, faults>>

\* connectWahaChannel that its circuit lets through.
ConnectBegins(c) ==
  /\ Unused(c)
  /\ call' = [call EXCEPT ![c] = IF FreeMode THEN "reset" ELSE "health"]
  /\ UNCHANGED <<awaits, runs, bodies, redis, session, faults>>

\* applyWahaFreeSessionResetIfNeeded: the delete fails or is done.
Reset(c) ==
  /\ call[c] = "reset" /\ call' = [call EXCEPT ![c] = "health"]
  /\ UNCHANGED session \/ session' = [session EXCEPT ![Session(c)] = "none"]
  /\ UNCHANGED <<awaits, runs, bodies, redis, faults>>

\* checkProviderHealth under its own time limit.
Health(c) ==
  /\ call[c] = "health"
  /\ \/ Prepare(c, "connecting")
     \/ call' = [call EXCEPT ![c] = "idle"] /\ UNCHANGED <<awaits, runs, bodies>>
  /\ UNCHANGED <<redis, session, faults>>

\* The time limit of connectWahaChannel, longer than those before it: the
\* caller leaves, the run goes on.
ConnectTimesOut(c) ==
  /\ call[c] = "connecting"
  /\ call' = [call EXCEPT ![c] = "idle"] /\ awaits' = [awaits EXCEPT ![c] = NoCaller]
  /\ UNCHANGED <<runs, bodies, redis, session, faults>>

----------------------------------------------------------------------------
\* The run: withDistributedLock.

\* Mutant: no finally, the entry stays.
EndRunKeepsEntry(c) ==
  /\ run' = [run EXCEPT ![c] = "none"]
  /\ waitAge' = [waitAge EXCEPT ![c] = 0]
  /\ call' = [d \in Callers |-> IF awaits[d] = c THEN "idle" ELSE call[d]]
  /\ awaits' = [d \in Callers |-> IF awaits[d] = c THEN NoCaller ELSE awaits[d]]
  /\ UNCHANGED sessionLocks

\* The promise of run c is settled: the entry of sessionLocks goes, and those
\* who wait for it are answered.
EndRun(c) ==
  /\ run' = [run EXCEPT ![c] = "none"]
  /\ waitAge' = [waitAge EXCEPT ![c] = 0]
  /\ sessionLocks' = [sessionLocks EXCEPT ![Slot(c)] = NoCaller]
  /\ call' = [d \in Callers |-> IF awaits[d] = c THEN "idle" ELSE call[d]]
  /\ awaits' = [d \in Callers |-> IF awaits[d] = c THEN NoCaller ELSE awaits[d]]

Acquire(c) ==
  /\ run[c] = "locking" /\ redisUp /\ token[KeyOf[c]] = NoCaller
  /\ token' = [token EXCEPT ![KeyOf[c]] = c]
  /\ tokenAge' = [tokenAge EXCEPT ![KeyOf[c]] = 0]
  /\ BeginBody(c, TRUE) /\ waitAge' = [waitAge EXCEPT ![c] = 0]
  /\ UNCHANGED <<callers, sessionLocks, redisUp, session, faults>>

Fault == faults < MaxFaults /\ faults' = faults + 1

\* acquireDistributedLock catches the error: the body starts without the lock.
AcquireErrs(c) ==
  /\ run[c] = "locking" /\ redisUp /\ Fault
  /\ BeginBody(c, FALSE) /\ waitAge' = [waitAge EXCEPT ![c] = 0]
  /\ UNCHANGED <<callers, sessionLocks, redis, session>>

AcquireTimesOut(c) ==
  /\ run[c] = "locking" /\ redisUp /\ waitAge[c] = MaxWait
  /\ EndRun(c)
  /\ UNCHANGED <<bodies, redis, session, faults>>

\* The body's answer, or the run's own time limit, settles run c; one that
\* holds a token releases it first.
Resolve(c) ==
  IF c \in locked
    THEN run' = [run EXCEPT ![c] = "releasing"] /\ UNCHANGED <<callers, waitAge, sessionLocks>>
    ELSE EndRun(c)

\* withTimeout does not stop the body.
EnsureTimesOut(c) ==
  /\ run[c] = "working" /\ bodyAge[c] = EnsureTimeout
  /\ Resolve(c)
  /\ UNCHANGED <<bodies, redis, session, faults>>

\* Mutant: the key is deleted whoever holds it.
ReleaseAny(c) ==
  /\ run[c] = "releasing" /\ redisUp
  /\ token' = [token EXCEPT ![KeyOf[c]] = NoCaller]
  /\ tokenAge' = [tokenAge EXCEPT ![KeyOf[c]] = 0]
  /\ EndRun(c)
  /\ UNCHANGED <<bodies, redisUp, session, faults>>

\* releaseDistributedLock deletes the key if it holds this run's token; an
\* error of Redis is ignored.
Release(c) ==
  /\ run[c] = "releasing" /\ redisUp
  /\ \/ /\ token[KeyOf[c]] = c
        /\ token' = [token EXCEPT ![KeyOf[c]] = NoCaller]
        /\ tokenAge' = [tokenAge EXCEPT ![KeyOf[c]] = 0]
        /\ UNCHANGED faults
     \/ token[KeyOf[c]] # c /\ UNCHANGED <<token, tokenAge, faults>>
     \/ Fault /\ UNCHANGED <<token, tokenAge>>
  /\ EndRun(c)
  /\ UNCHANGED <<bodies, redisUp, session>>

----------------------------------------------------------------------------
\* The body: executeEnsureWahaSessionPreparedBody, one request at a time.

BodyGoes(c, place) ==
  /\ body' = [body EXCEPT ![c] = place]
  /\ UNCHANGED <<callers, runs, bodyAge, locked, redis, faults>>

SessionBecomes(c, state) == session' = [session EXCEPT ![Session(c)] = state]

\* With a state or an error; a body that its run gave up on answers nobody.
BodyEnds(c) ==
  /\ body' = [body EXCEPT ![c] = "none"] /\ bodyAge' = [bodyAge EXCEPT ![c] = 0]
  /\ locked' = locked \ {c}
  /\ IF run[c] = "working" THEN Resolve(c) ELSE UNCHANGED <<callers, runs>>
  /\ UNCHANGED <<redis, session, faults>>

List(c) ==
  /\ body[c] = "list"
  /\ BodyGoes(c, IF session[Session(c)] = "none" THEN "create" ELSE "start")
  /\ UNCHANGED session

\* POST /api/sessions: a session that exists by now answers 409, as well done.
Create(c) ==
  /\ \/ body[c] = "create" /\ BodyGoes(c, "start")
     \/ body[c] = "recreate" /\ BodyGoes(c, "restart")
  /\ IF session[Session(c)] = "none"
       THEN \E state \in {"stopped", "starting"} : SessionBecomes(c, state)
       ELSE UNCHANGED session

\* POST start: it starts a session that is not running.
Started(c) ==
  IF session[Session(c)] \in {"stopped", "failed"} THEN SessionBecomes(c, "starting")
                                                  ELSE UNCHANGED session

\* ensureWahaSession ignores an error of its start.
PostStart(c) ==
  /\ body[c] = "start" /\ BodyGoes(c, "detail")
  /\ Started(c) \/ UNCHANGED session

Detail(c) ==
  /\ body[c] = "detail"
  /\ LET s == session[Session(c)] IN
     \/ s = "working" /\ BodyEnds(c)
     \/ s = "none" /\ BodyGoes(c, "recreate") /\ UNCHANGED session
     \/ s = "stopped" /\ BodyGoes(c, "restart") /\ UNCHANGED session
     \/ s \in {"starting", "qr", "failed"} /\ BodyGoes(c, "wait") /\ UNCHANGED session

\* A start whose error ends the body.
PostRestart(c) ==
  /\ body[c] = "restart" /\ session[Session(c)] # "none"
  /\ BodyGoes(c, "wait") /\ Started(c)

\* One turn of waitForValidWahaStatus: absent and starting sessions are asked
\* for again, which changes nothing.
Wait(c) ==
  /\ body[c] = "wait"
  /\ LET s == session[Session(c)] IN
     \/ s \in {"qr", "working", "failed"} /\ BodyEnds(c)
     \/ s = "stopped" /\ BodyGoes(c, "restart") /\ UNCHANGED session

\* A request fails, the wait is over, or there were too many starts.
BodyFails(c) == body[c] \notin {"none", "start"} /\ BodyEnds(c)

\* The limits on each request and on the wait have all passed.
BodyIsOver(c) == body[c] # "none" /\ bodyAge[c] = MaxBody /\ BodyEnds(c)

----------------------------------------------------------------------------
\* The provider, time, Redis and the processes.

\* The session moves by itself, or another operation stops or removes it.
Moved(state) ==
  CASE state = "qr" -> {"starting"}
    [] state = "working" -> {"starting", "qr"}
    [] state = "failed" -> {"starting", "qr", "working"}
    [] state \in {"none", "stopped"} -> SessionStates \ {"none"}

SessionMoves(s) ==
  /\ \E state \in MovesTo :
       session[s] \in Moved(state) /\ session' = [session EXCEPT ![s] = state]
  /\ UNCHANGED <<callers, runs, bodies, redis, faults>>

Due(c) ==
  \/ body[c] # "none" /\ bodyAge[c] = MaxBody
  \/ run[c] = "working" /\ bodyAge[c] = EnsureTimeout
  \/ run[c] = "locking" /\ redisUp /\ waitAge[c] = MaxWait

Expiring(k) == token[k] # NoCaller /\ tokenAge[k] + 1 = LockTTL

\* Timers that are due fire before more time passes.
PrepareTick ==
  /\ \A c \in Callers : ~Due(c)
  /\ waitAge' = [c \in Callers |->
       IF run[c] = "locking" /\ waitAge[c] < MaxWait THEN waitAge[c] + 1 ELSE waitAge[c]]
  /\ bodyAge' = [c \in Callers |-> IF body[c] = "none" THEN 0 ELSE bodyAge[c] + 1]
  /\ token' = [k \in Keys |-> IF Expiring(k) THEN NoCaller ELSE token[k]]
  /\ tokenAge' = [k \in Keys |->
       IF token[k] = NoCaller \/ Expiring(k) THEN 0 ELSE tokenAge[k] + 1]
  /\ UNCHANGED <<callers, run, sessionLocks, body, locked, redisUp, session,
                 faults>>

RedisFails ==
  /\ redisUp /\ redisUp' = FALSE /\ Fault
  /\ UNCHANGED <<callers, runs, bodies, token, tokenAge, session>>

RedisReturns ==
  /\ ~redisUp /\ redisUp' = TRUE
  /\ UNCHANGED <<callers, runs, bodies, token, tokenAge, session, faults>>

\* Process p restarts; the tokens of its runs stay in Redis.
Crash(p) ==
  LET dead == {c \in Callers : ProcOf[c] = p} IN
  /\ Fault
  /\ call' = [c \in Callers |-> IF c \in dead THEN "idle" ELSE call[c]]
  /\ awaits' = [c \in Callers |-> IF c \in dead THEN NoCaller ELSE awaits[c]]
  /\ run' = [c \in Callers |-> IF c \in dead THEN "none" ELSE run[c]]
  /\ waitAge' = [c \in Callers |-> IF c \in dead THEN 0 ELSE waitAge[c]]
  /\ sessionLocks' = [s \in Slots |-> IF s[1] = p THEN NoCaller ELSE sessionLocks[s]]
  /\ body' = [c \in Callers |-> IF c \in dead THEN "none" ELSE body[c]]
  /\ bodyAge' = [c \in Callers |-> IF c \in dead THEN 0 ELSE bodyAge[c]]
  /\ locked' = locked \ dead
  /\ UNCHANGED <<redis, session>>

CallStep(c) == EnsurePrepared(c) \/ ConnectBegins(c) \/ Reset(c) \/ Health(c) \/ ConnectTimesOut(c)

RunStep(c) ==
  \/ Acquire(c) \/ AcquireErrs(c) \/ AcquireTimesOut(c)
  \/ EnsureTimesOut(c) \/ Release(c)

BodyStep(c) ==
  \/ List(c) \/ Create(c) \/ PostStart(c) \/ Detail(c) \/ PostRestart(c) \/ Wait(c)
  \/ BodyFails(c) \/ BodyIsOver(c)

PrepareNext ==
  \/ \E c \in Callers : CallStep(c) \/ RunStep(c) \/ BodyStep(c)
  \/ \E s \in WahaSessions : SessionMoves(s)
  \/ \E p \in Procs : Crash(p)
  \/ PrepareTick \/ RedisFails \/ RedisReturns

PrepareSpec == PrepareInit /\ [][PrepareNext]_prepareVars

----------------------------------------------------------------------------
\* Properties.

\* Of two bodies of a key that began under its lock, one has outlived the lock.
ExclusiveBodies ==
  \A c, d \in locked :
    c # d /\ KeyOf[c] = KeyOf[d] => bodyAge[c] >= LockTTL \/ bodyAge[d] >= LockTTL

\* A process has one run of a key in hand.
OneRunPerKey ==
  \A c, d \in Callers :
    run[c] # "none" /\ run[d] # "none" /\ ProcOf[c] = ProcOf[d] /\ KeyOf[c] = KeyOf[d]
      => c = d

\* A caller waits for a run that is in hand, of its own tenant and session.
WaitsForOwnKey ==
  \A c \in Callers : awaits[c] # NoCaller =>
    /\ run[awaits[c]] # "none"
    /\ ProcOf[awaits[c]] = ProcOf[c] /\ KeyOf[awaits[c]] = KeyOf[c]

\* Sharing: one run of a key, and only callers of its own key wait for it.
SharedRuns == OneRunPerKey /\ WaitsForOwnKey
=============================================================================
