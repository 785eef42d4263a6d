------------------------------ MODULE Evolution ------------------------------
(***************************************************************************)
(* The requests of evolutionService to Evolution: a call passes the        *)
(* circuit breaker, adds a job to the queue evolution-api and waits for    *)
(* its end with a time limit; a worker takes the jobs and sends the HTTP   *)
(* requests, with retries inside a request, inside an attempt and of the   *)
(* whole job.  The list of the instances is kept in Redis for a while and  *)
(* asked for by one call at a time.                                        *)
(*                                                                         *)
(* One process with its breaker and its chain of list calls, one worker,   *)
(* one instance at Evolution.  Whether a phone is linked to it is not told *)
(* apart: a request that needs it may be refused.  The limits of the calls *)
(* other than the list are longer than anything timed here.  A command     *)
(* waits while Redis is away (maxRetriesPerRequest null) and takes no time *)
(* while it is there.                                                      *)
(***************************************************************************)
EXTENDS Naturals, Sequences, FiniteSets, SequencesExt

CONSTANTS
  Calls,
  KindsOf,     \* the operations a call may be
  Slots,       \* EVOLUTION_WORKER_CONCURRENCY
  Attempts,    \* attempts of a job
  HttpTries,   \* EXP_MAX
  Threshold,   \* EVOLUTION_CIRCUIT_FAILURES
  OpenFor,     \* EVOLUTION_CIRCUIT_OPEN_MS, in ticks
  TTL,         \* EVOLUTION_INSTANCES_CACHE_TTL_SEC, in ticks
  Limit,       \* time limit of a list call, in ticks
  MaxFaults    \* deaths of the worker and outages of Redis

ASSUME EvolutionAssumption ==
  /\ Slots \in Nat \ {0} /\ Attempts \in Nat \ {0} /\ HttpTries \in Nat \ {0}
  /\ Threshold \in Nat \ {0} /\ TTL \in Nat \ {0}
  /\ OpenFor \in Nat /\ Limit \in Nat /\ MaxFaults \in Nat

VARIABLES
  exists,      \* the instance is there
  breaker, cache,
  chain,       \* mutexChain: the list calls that missed, in order
  at, kind, result, age,
  job, queue,
  redis, worker,
  since,       \* how long ago exists had its other value, up to Old
  did,         \* calls whose operation Evolution has carried out
  told,        \* the list told in this step
  faults

calls == <<at, kind, result, age>>
jobs == <<job, queue>>
world == <<exists, since>>
faulty == <<redis, worker, faults>>
vars == <<exists, breaker, cache, chain, calls, jobs, faulty, since, did, told>>

Kinds == {"create", "connect", "reset", "disconnect", "delete", "status", "qr", "send", "list"}
Places == {"idle", "get", "chain", "add", "wait", "set", "drop", "answered"}
Results == {"none", "ok", "error", "refused"}
Stages == {"logout", "logout2", "main", "main2", "revive", "revive2", "afresh", "ok", "err"}
JobPlaces == {"none", "waiting", "active", "delayed", "stalled", "done", "failed"}
Breakers == [state : {"closed", "open", "half_open"}, failures : 0 .. Threshold, age : 0 .. OpenFor]
Caches == [kept : BOOLEAN, list : BOOLEAN, age : 0 .. TTL, late : BOOLEAN]
JobRecords ==
  [at : JobPlaces, stage : Stages, tries : 1 .. HttpTries, inner : 1 .. HttpTries,
   attempt : 1 .. Attempts, stalled : BOOLEAN, list : BOOLEAN]
NoJob == [at |-> "none", stage |-> "main", tries |-> 1, inner |-> 1, attempt |-> 1,
          stalled |-> FALSE, list |-> FALSE]
NoList == [kept |-> FALSE, list |-> FALSE, age |-> 0, late |-> FALSE]
Nothing == [list |-> FALSE, age |-> 0, late |-> TRUE]
Old == TTL + Limit
Tellings == [list : BOOLEAN, age : 0 .. Old, late : BOOLEAN]

TypeOK ==
  /\ exists \in BOOLEAN /\ redis \in BOOLEAN /\ worker \in BOOLEAN
  /\ breaker \in Breakers /\ cache \in Caches
  /\ chain \in Seq(Calls) /\ queue \in Seq(Calls)
  /\ at \in [Calls -> Places] /\ kind \in [Calls -> Kinds] /\ result \in [Calls -> Results]
  /\ age \in [Calls -> 0 .. Limit + 1]
  /\ job \in [Calls -> JobRecords]
  /\ since \in 0 .. Old /\ did \subseteq Calls
  /\ told \in Tellings
  /\ faults \in 0 .. MaxFaults

Init ==
  /\ exists \in BOOLEAN /\ since = Old
  /\ breaker = [state |-> "closed", failures |-> 0, age |-> 0]
  /\ cache = NoList /\ chain = <<>>
  /\ at = [c \in Calls |-> "idle"]
  /\ kind \in {k \in [Calls -> Kinds] : \A c \in Calls : k[c] \in KindsOf[c]}
  /\ result = [c \in Calls |-> "none"] /\ age = [c \in Calls |-> 0]
  /\ job = [c \in Calls |-> NoJob] /\ queue = <<>>
  /\ redis = TRUE /\ worker = TRUE
  /\ did = {} /\ told = Nothing /\ faults = 0

----------------------------------------------------------------------------
\* The breaker.

\* execute lets the call through.
Admits == breaker.state # "open" \/ breaker.age >= OpenFor
Entered == [breaker EXCEPT !.state = IF @ = "open" THEN "half_open" ELSE @, !.age = 0]
AfterSuccess == [state |-> "closed", failures |-> 0, age |-> 0]
AfterFailure ==
  IF breaker.state = "half_open"
    THEN [breaker EXCEPT !.state = "open", !.age = 0]
    ELSE LET f == IF breaker.failures < Threshold THEN breaker.failures + 1 ELSE Threshold IN
         IF f >= Threshold THEN [state |-> "open", failures |-> f, age |-> 0]
                           ELSE [breaker EXCEPT !.failures = f]

----------------------------------------------------------------------------
\* The calls.

Goes(c, place) == at' = [at EXCEPT ![c] = place] /\ UNCHANGED <<kind, result, age>>
Ends(c, res) ==
  /\ at' = [at EXCEPT ![c] = "answered"] /\ result' = [result EXCEPT ![c] = res]
  /\ age' = [age EXCEPT ![c] = 0] /\ UNCHANGED kind

\* How long ago Evolution had the list a call is told.
AgeOf(list) == IF list = exists THEN 0 ELSE since
Tells(list, late) == told' = [list |-> list, age |-> AgeOf(list), late |-> late]

\* The next list call of the chain runs when this one, the first, has ended.
Leaves(c) == chain' = IF kind[c] = "list" THEN Tail(chain) ELSE chain

\* A call begins: the list looks into the cache, the others enter the breaker.
Ask(c) ==
  /\ at[c] = "idle"
  /\ \/ kind[c] = "list" /\ Goes(c, "get") /\ UNCHANGED breaker
     \/ kind[c] # "list" /\ Admits /\ breaker' = Entered /\ Goes(c, "add")
     \/ kind[c] # "list" /\ ~Admits /\ Ends(c, "refused") /\ UNCHANGED breaker
  /\ told' = Nothing
  /\ UNCHANGED <<world, cache, chain, jobs, faulty, did>>

\* The list is asked for again and again: once a call for it is answered and its
\* job over, its place is free for another.
Renew(c) ==
  /\ at[c] = "answered" /\ kind[c] = "list" /\ job[c].at \in {"none", "done", "failed"}
  /\ at' = [at EXCEPT ![c] = "idle"] /\ result' = [result EXCEPT ![c] = "none"]
  /\ job' = [job EXCEPT ![c] = NoJob]
  /\ told' = Nothing
  /\ UNCHANGED <<world, breaker, cache, chain, kind, age, queue, faulty, did>>

\* fetchEvolutionInstancesWithCache before its lock.
Get(c) ==
  /\ redis /\ at[c] = "get"
  /\ \/ cache.kept /\ Ends(c, "ok") /\ Tells(cache.list, cache.late) /\ UNCHANGED chain
     \/ ~cache.kept /\ Goes(c, "chain") /\ chain' = Append(chain, c) /\ told' = Nothing
  /\ UNCHANGED <<world, breaker, cache, jobs, faulty, did>>

\* Under the lock the cache is looked at again, then the breaker is entered.
Again(c) ==
  /\ redis /\ at[c] = "chain" /\ Head(chain) = c
  /\ \/ /\ cache.kept /\ Ends(c, "ok") /\ Tells(cache.list, cache.late) /\ Leaves(c)
        /\ UNCHANGED breaker
     \/ /\ ~cache.kept /\ Admits /\ breaker' = Entered /\ Goes(c, "add")
        /\ told' = Nothing /\ UNCHANGED chain
     \/ /\ ~cache.kept /\ ~Admits /\ Ends(c, "refused") /\ Leaves(c)
        /\ told' = Nothing /\ UNCHANGED breaker
  /\ UNCHANGED <<world, cache, jobs, faulty, did>>

\* addEvolutionJobAndWait adds the job and begins to wait.
Add(c) ==
  /\ redis /\ at[c] = "add"
  /\ job' = [job EXCEPT ![c].at = "waiting"] /\ queue' = Append(queue, c)
  /\ Goes(c, "wait") /\ told' = Nothing
  /\ UNCHANGED <<world, breaker, cache, chain, faulty, did>>

\* A list call that has no answer frees the lock.
Fails(c) ==
  /\ Ends(c, "error") /\ breaker' = AfterFailure /\ Leaves(c) /\ told' = Nothing
  /\ UNCHANGED <<world, cache, jobs, faulty, did>>

\* The end of the job reaches the call.  A list is put into the cache, the
\* provisioning that created an instance drops it from there.
Hear(c) ==
  /\ redis /\ at[c] = "wait"
  /\ \/ job[c].at = "failed" /\ Fails(c)
     \/ /\ job[c].at = "done" /\ breaker' = AfterSuccess
        /\ \/ kind[c] = "list" /\ Goes(c, "set")
           \/ kind[c] = "create" /\ Goes(c, "drop")
           \/ kind[c] # "list" /\ Ends(c, "ok")
        /\ told' = Nothing
        /\ UNCHANGED <<world, cache, chain, jobs, faulty, did>>

\* Mutant: the caller waits as long as the worker is gone.
ExpireAlive(c) == at[c] = "wait" /\ worker /\ Fails(c)

\* The limit of waitUntilFinished passes; the job goes on.
Expire(c) == at[c] = "wait" /\ (kind[c] = "list" => age[c] >= Limit) /\ Fails(c)

\* The list is kept and told.
Set(c) ==
  /\ redis /\ at[c] = "set"
  /\ cache' = [kept |-> TRUE, list |-> job[c].list, age |-> 0, late |-> age[c] > Limit]
  /\ Ends(c, "ok") /\ Leaves(c) /\ Tells(job[c].list, age[c] > Limit)
  /\ UNCHANGED <<world, breaker, jobs, faulty, did>>

\* invalidateEvolutionInstancesCache
Drop(c) ==
  /\ redis /\ at[c] = "drop"
  /\ cache' = NoList /\ Ends(c, "ok") /\ told' = Nothing
  /\ UNCHANGED <<world, breaker, chain, jobs, faulty, did>>

----------------------------------------------------------------------------
\* The worker and Evolution.

Active == {c \in Calls : job[c].at = "active"}
Sends(c) == kind[c] = "send"

\* Jobs without a priority go first, in order; those of SEND_TEXT have one.
IsNext(i) ==
  \A j \in DOMAIN queue :
    IF Sends(queue[i]) THEN Sends(queue[j]) /\ j >= i ELSE Sends(queue[j]) \/ j >= i

FirstStage(c) == IF kind[c] = "reset" THEN "logout" ELSE "main"

\* A slot of the worker takes a job and starts its attempt from the beginning.
Take(c) ==
  /\ redis /\ worker /\ Cardinality(Active) < Slots
  /\ \E i \in DOMAIN queue : queue[i] = c /\ IsNext(i) /\ queue' = RemoveAt(queue, i)
  /\ job' = [job EXCEPT ![c].at = "active", ![c].stage = FirstStage(c),
                        ![c].tries = 1, ![c].inner = 1]
  /\ told' = Nothing
  /\ UNCHANGED <<world, breaker, cache, chain, calls, faulty, did>>

\* The operation a request asks of Evolution.
Asked(c) ==
  IF job[c].stage \in {"logout", "logout2"} THEN "logout"
  ELSE IF job[c].stage \in {"revive", "revive2"} \/ kind[c] = "reset" THEN "connect"
  ELSE kind[c]

\* Answers to a request: "ok"; "no", refused for good, as are requests that axios
\* gave up; "busy", which isEvolutionTransientError retries; "method", 404 or
\* 405; "broken", 500 for another reason.
Answers(op) ==
  {"no", "busy", "broken"}
    \cup (IF op = "list" \/ (op = "create") # exists THEN {"ok"} ELSE {})
    \cup (IF (op # "list" /\ ~exists) \/ op \in {"connect", "logout"} THEN {"method"} ELSE {})

\* An answer other than yes may still follow the effect.
Effects(op, answer) ==
  IF (op # "list" /\ (op = "create") = exists) \/ answer = "method" THEN {FALSE}
  ELSE IF answer = "ok" THEN {TRUE} ELSE BOOLEAN

Becomes(op, effect) ==
  /\ exists' = IF effect /\ op \in {"create", "delete"} THEN op = "create" ELSE exists
  /\ since' = IF exists' # exists THEN 0 ELSE since

Stage(j, stage) == [j EXCEPT !.stage = stage]
Counted(j, stage, tries, inner) ==
  [j EXCEPT !.stage = stage, !.tries = tries, !.inner = inner]

\* Mutant: one request too many.
Again1OneMore(j) ==
  IF j.tries <= HttpTries THEN Counted(j, "main", j.tries + 1, 1) ELSE Stage(j, "err")

\* withExponentialRetry: the request again, or the error of the attempt.
Again1(j) ==
  IF j.tries < HttpTries THEN Counted(j, "main", j.tries + 1, 1) ELSE Stage(j, "err")
AgainInner(j) ==
  IF j.inner < HttpTries THEN Counted(j, "revive", j.tries, j.inner + 1) ELSE Again1(j)
AgainLogout(j) ==
  IF j.inner < HttpTries THEN Counted(j, "logout", j.tries, j.inner + 1)
                         ELSE Counted(j, "main", j.tries, 1)

\* createInstance: one request, and its error is wrapped.
Created(j, answer) == Stage(j, IF answer = "ok" THEN "ok" ELSE "err")

\* deleteInstance, getConnectionStatus, fetchInstances, sendText
Plain(j, answer) ==
  CASE answer = "ok" -> Stage(j, "ok")
    [] answer = "busy" -> Again1(j)
    [] OTHER -> Stage(j, "err")

\* connectInstanceSoft and disconnectInstance: 405, and 404 of a connect, ask the
\* older way, once.
Twofold(j, answer) ==
  IF j.stage = "main" /\ answer = "method" THEN Stage(j, "main2") ELSE Plain(j, answer)

\* disconnectBestEffort before the connect: whatever comes of it.
Logout(j, answer) ==
  CASE answer = "method" /\ j.stage = "logout" -> Stage(j, "logout2")
    [] answer = "busy" -> AgainLogout(j)
    [] OTHER -> Counted(j, "main", j.tries, 1)

\* getQRCode: after 404 or 500 one connect, with its own retries, and the code
\* once more.
Code(j, answer) ==
  IF j.stage \in {"main", "afresh"}
    THEN IF j.stage = "main" /\ answer \in {"method", "broken"}
           THEN Stage(j, "revive") ELSE Plain(j, answer)
    ELSE CASE answer = "ok" -> Stage(j, "afresh")
           [] answer = "busy" -> AgainInner(j)
           [] answer = "method" /\ j.stage = "revive" -> Stage(j, "revive2")
           [] OTHER -> Stage(j, "err")

After(c, answer) ==
  LET j == job[c] IN
  IF j.stage \in {"logout", "logout2"} THEN Logout(j, answer)
  ELSE CASE kind[c] = "create" -> Created(j, answer)
         [] kind[c] \in {"connect", "reset", "disconnect"} -> Twofold(j, answer)
         [] kind[c] = "qr" -> Code(j, answer)
         [] OTHER -> Plain(j, answer)

\* A request and its answer.
Request(c) ==
  LET op == Asked(c) IN
  /\ worker /\ job[c].at = "active" /\ job[c].stage \notin {"ok", "err"}
  /\ \E answer \in Answers(op) : \E effect \in Effects(op, answer) :
       /\ Becomes(op, effect)
       /\ job' = [job EXCEPT ![c] = [After(c, answer) EXCEPT !.list = op = "list" /\ exists]]
       /\ did' = IF effect /\ job[c].stage \in {"main", "main2", "afresh"} /\ op # "list"
                   THEN did \cup {c} ELSE did
  /\ told' = Nothing
  /\ UNCHANGED <<breaker, cache, chain, calls, queue, faulty>>

\* Mutant: the serialised error is returned, not thrown.
FinishReturns(c) ==
  /\ redis /\ worker /\ job[c].at = "active" /\ job[c].stage \in {"ok", "err"}
  /\ job' = [job EXCEPT ![c] = [NoJob EXCEPT !.at = "done", !.list = job[c].list]]
  /\ told' = Nothing
  /\ UNCHANGED <<world, breaker, cache, chain, calls, queue, faulty, did>>

\* The attempt ends (wrap): with its value, for good, or for another attempt.
Finish(c) ==
  LET j == job[c] IN
  /\ redis /\ worker /\ j.at = "active" /\ j.stage \in {"ok", "err"}
  /\ job' = [job EXCEPT ![c] =
       IF j.stage = "ok" THEN [NoJob EXCEPT !.at = "done", !.list = j.list]
       ELSE IF j.attempt < Attempts
         THEN [NoJob EXCEPT !.at = "delayed", !.attempt = j.attempt + 1, !.stalled = j.stalled]
       ELSE [NoJob EXCEPT !.at = "failed"]]
  /\ told' = Nothing
  /\ UNCHANGED <<world, breaker, cache, chain, calls, queue, faulty, did>>

\* The backoff has passed, or a job whose worker died is found stalled: it waits
\* again, but a second stall fails it.
Requeue(c) ==
  LET j == job[c]
      again == ~(j.at = "stalled" /\ j.stalled) IN
  /\ redis /\ worker /\ j.at \in {"delayed", "stalled"}
  /\ job' = [job EXCEPT ![c] = IF again THEN [j EXCEPT !.at = "waiting", !.stalled = j.at = "stalled" \/ @]
                                        ELSE [NoJob EXCEPT !.at = "failed"]]
  /\ queue' = IF again THEN Append(queue, c) ELSE queue
  /\ told' = Nothing
  /\ UNCHANGED <<world, breaker, cache, chain, calls, faulty, did>>

----------------------------------------------------------------------------
\* Faults, others, time.

WorkerDies ==
  /\ worker /\ faults < MaxFaults /\ faults' = faults + 1
  /\ worker' = FALSE
  /\ job' = [c \in Calls |-> IF c \in Active THEN [NoJob EXCEPT !.at = "stalled", !.attempt = job[c].attempt,
                                             !.stalled = job[c].stalled]
                       ELSE job[c]]
  /\ told' = Nothing
  /\ UNCHANGED <<world, breaker, cache, chain, calls, queue, redis, did>>

WorkerStarts ==
  /\ ~worker /\ worker' = TRUE /\ told' = Nothing
  /\ UNCHANGED <<world, breaker, cache, chain, calls, jobs, redis, faults, did>>

RedisLeaves ==
  /\ redis /\ faults < MaxFaults /\ faults' = faults + 1
  /\ redis' = FALSE /\ told' = Nothing
  /\ UNCHANGED <<world, breaker, cache, chain, calls, jobs, worker, did>>

RedisReturns ==
  /\ ~redis /\ redis' = TRUE /\ told' = Nothing
  /\ UNCHANGED <<world, breaker, cache, chain, calls, jobs, worker, faults, did>>

\* Mutant: the list is kept without a time to live.
AgedForever == cache

\* A key of Redis is gone when its time has passed.
Aged ==
  IF ~cache.kept THEN cache
  ELSE IF cache.age + 1 >= TTL THEN NoList ELSE [cache EXCEPT !.age = @ + 1]

\* No time passes while a command that Redis would answer is under way.
Prompt == redis => \A c \in Calls :
  at[c] \notin {"get", "set", "drop"} /\ (at[c] = "chain" => Head(chain) # c)

Tick ==
  /\ Prompt
  /\ \A c \in Calls : (at[c] = "wait" /\ kind[c] = "list") => age[c] < Limit
  /\ cache' = Aged
  /\ breaker' = [breaker EXCEPT !.age = IF breaker.state = "open" /\ @ < OpenFor THEN @ + 1 ELSE @]
  /\ since' = IF since < Old THEN since + 1 ELSE since
  /\ age' = [c \in Calls |->
       IF at[c] \in {"wait", "set"} /\ kind[c] = "list" /\ age[c] <= Limit
         THEN age[c] + 1 ELSE age[c]]
  /\ told' = Nothing
  /\ UNCHANGED <<exists, chain, at, kind, result, jobs, faulty, did>>

Next ==
  \/ \E c \in Calls :
       \/ Ask(c) \/ Renew(c) \/ Get(c) \/ Again(c) \/ Add(c) \/ Hear(c) \/ Expire(c) \/ Set(c) \/ Drop(c)
       \/ Take(c) \/ Request(c) \/ Finish(c) \/ Requeue(c)
  \/ WorkerDies \/ WorkerStarts \/ RedisLeaves \/ RedisReturns \/ Tick

Spec == Init /\ [][Next]_vars

\* Redis answers while it is there, timers fire, time passes; neither the worker
\* nor Redis need come back.
LiveSpec ==
  /\ Spec /\ WF_vars(Tick)
  /\ \A c \in Calls : WF_vars(Get(c) \/ Again(c) \/ Add(c) \/ Set(c) \/ Drop(c)) /\ WF_vars(Expire(c))

----------------------------------------------------------------------------
(* Properties.                                                             *)

(* A call that was told of success has had its operation carried out by    *)
(* Evolution, through whichever attempt, and nothing of its job is left to *)
(* come: throughQueue and the worker's wrap.                               *)
OkIsDone ==
  \A c \in Calls : result[c] = "ok" /\ kind[c] # "list"
    => c \in did /\ job[c].at = "done" /\ c \notin ToSet(queue)

(* The list of the instances that a call is told was Evolution's not       *)
(* as long ago as the limit of the call that asked and the life of the     *)
(* cache, whoever asked for it, however often the job was tried and        *)
(* whatever created, removed or dropped meanwhile, unless an outage of     *)
(* Redis came between the answer and the cache                             *)
(* (fetchEvolutionInstancesWithCache).                                     *)
ListIsRecent == told.late \/ told.age < Limit + TTL

(* While Redis is there in the end, every call is answered, also when the  *)
(* worker never comes back or another list call was before it              *)
(* (addEvolutionJobAndWait, withEvolutionFetchLock).                       *)
CallersAnswered ==
  <>[]redis => \A c \in Calls : (at[c] # "idle") ~> (at[c] = "answered")
=============================================================================
