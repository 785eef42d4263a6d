------------------------------ MODULE Sessions ------------------------------
(***************************************************************************)
(* Bringing back the session of one channel.  The monitor of the API asks   *)
(* the provider of each active row for its session, writes what it saw and  *)
(* hands a lost one to a queue; a worker, the monitor itself when Redis is  *)
(* down, and requests call ensureSession, which tries a provider three      *)
(* times, then the other one, and names in the row the one that answered.   *)
(* Each process keeps the last answer in memory, both share it in Redis.    *)
(*                                                                          *)
(* The two providers are external.  One of them may not answer at all; a    *)
(* call to the other may fail before or after its effect, or be given up    *)
(* and take effect later.  A session is "qr" from STARTING on.              *)
(***************************************************************************)
EXTENDS Naturals, Sequences

CONSTANTS
  FreeWaha,     \* WAHA_MULTI_SESSION is not "true"
  Attempts,     \* at one provider, and of one job: 3 in the code
  Threshold,    \* failures that block a provider: 3 in the code
  MaxIncidents, \* bounds: calls that fail, sessions lost by themselves, requests,
                \* outages of Redis and ends of a provider's block, all together
  MaxRounds,    \* rounds of the monitor
  LateCalls     \* the calls that may take effect after they were given up

ASSUME SessionsAssumption ==
  /\ FreeWaha \in BOOLEAN /\ Attempts \in Nat \ {0} /\ Threshold \in Nat \ {0}
  /\ MaxIncidents \in Nat /\ MaxRounds \in Nat
  /\ LateCalls \subseteq {"create", "start", "delete", "qr"}

VARIABLES
  remote,  \* the session at each provider
  down,    \* the providers that do not answer
  late,    \* calls that were given up and may still take effect
  row,     \* the provider in the channel's row, and whether the row is active
  l1, l2,  \* the answer kept by each process, and in Redis
  fails,   \* failures of each provider, as each process counts them
  blocked, \* the providers that a process does not try for 30 s
  ens,     \* the run of ensureSession of each process
  jobs,    \* the queue, with the attempts left
  mon, seen, backoff, \* the monitor's round, the last answer it kept, its failures
  reachable,
  amiss,   \* since the last job was handed over, the row was not told, a kept answer
           \* misled a run, or a session that was there went away
  incidents, rounds

outside == <<remote, late, incidents>>
caches == <<l1, l2>>
health == <<fails, blocked>>
monitor == <<mon, seen, backoff, rounds>>
rest == <<down, reachable>>
lostVars == <<outside, row, amiss, caches, health, ens, jobs, monitor, rest>>

Providers == {"waha", "evolution"}
Processes == {"api", "worker"}
Other(p) == IF p = "waha" THEN "evolution" ELSE "waha"
Live == {"qr", "working"}
States == Live \cup {"none", "offline"}
Places == {"idle", "look", "ask", "clear", "create", "start", "reask", "qr",
          "again", "drop", "done", "throw"}

LostTypeOK ==
  /\ remote \in [Providers -> States] /\ down \subseteq Providers
  /\ late \subseteq (Providers \X LateCalls)
  /\ row \in [provider : Providers, active : BOOLEAN] /\ amiss \in BOOLEAN
  /\ l1 \in [Processes -> States \cup {"nothing"}] /\ l2 \in States \cup {"nothing"}
  /\ fails \in [Processes \X Providers -> 0 .. Threshold]
  /\ blocked \subseteq Processes \X Providers
  /\ ens \in [Processes -> [at : Places, first : Providers, on : Providers,
                        attempt : 1 .. Attempts, saw : {"none", "offline"}, left : 0 .. Attempts]]
  /\ jobs \in Seq([on : Providers, left : 1 .. Attempts]) /\ Len(jobs) <= MaxRounds
  /\ mon \in [at : {"idle", "ask", "write", "hand", "wait"}, on : Providers,
              to : Providers, saw : States \cup {"error"}]
  /\ seen \in {<<>>} \cup (Providers \X (States \cup {"error"}))
  /\ backoff \in [Providers -> 0 .. 3] /\ reachable \in BOOLEAN
  /\ incidents \in 0 .. MaxIncidents /\ rounds \in 0 .. MaxRounds

Idle == [at |-> "idle", first |-> "waha", on |-> "waha", attempt |-> 1,
         saw |-> "none", left |-> 0]
Resting == [at |-> "idle", on |-> "waha", to |-> "waha", saw |-> "none"]

\* A channel that is connected, at either provider; the other has no session.
LostInit ==
  /\ \E p \in Providers :
       /\ remote = [q \in Providers |-> IF q = p THEN "working" ELSE "none"]
       /\ row = [provider |-> p, active |-> TRUE]
  /\ down \in {{}} \cup {{p} : p \in Providers}
  /\ late = {} /\ amiss = FALSE
  /\ l1 = [w \in Processes |-> "nothing"] /\ l2 = "nothing"
  /\ fails = [k \in Processes \X Providers |-> 0] /\ blocked = {}
  /\ ens = [w \in Processes |-> Idle] /\ jobs = <<>>
  /\ mon = Resting /\ seen = <<>> /\ backoff = [p \in Providers |-> 0]
  /\ reachable = TRUE /\ incidents = 0 /\ rounds = 0

\* Something happens that the instance bounds.
Incident == incidents < MaxIncidents /\ incidents' = incidents + 1

----------------------------------------------------------------------------
\* The adapters.

\* What a call makes of a session.  For WAHA both create and start prepare the
\* session, and in FREE mode they delete it first.
Effect(p, call, s) ==
  CASE call = "delete" -> "none"
    [] p = "waha" /\ call = "qr" -> IF s = "none" THEN "qr" ELSE s
    [] p = "waha" /\ call \notin {"delete", "qr"} -> IF s \notin Live \/ FreeWaha THEN "qr" ELSE s
    [] OTHER -> IF s = "working" THEN s ELSE "qr"

\* Evolution creates no instance twice (the conflict is wrapped, and not recognised)
\* and connects none that is not there.
Accepts(p, call, s) ==
  p = "waha" \/ (call = "create") = (s = "none")

Succeeds(p, call) ==
  /\ p \notin down /\ Accepts(p, call, remote[p])
  /\ remote' = [remote EXCEPT ![p] = Effect(p, call, @)]
  /\ UNCHANGED <<late, incidents>>

\* It is refused; or it fails, or is given up, before its effect, after it, between
\* the deletion and the start, or has the effect later.
Fails(p, call) ==
  \/ /\ p \in down \/ ~Accepts(p, call, remote[p])
     /\ UNCHANGED outside
  \/ /\ p \notin down /\ Incident
     /\ \/ /\ remote' \in {remote} \cup
                {[remote EXCEPT ![p] = s] :
                   s \in (IF Accepts(p, call, remote[p]) THEN {Effect(p, call, remote[p])} ELSE {})
                         \cup (IF p = "waha" /\ FreeWaha /\ call \in {"create", "start"}
                                 THEN {"none"} ELSE {})}
           /\ UNCHANGED late
        \/ call \in LateCalls /\ late' = late \cup {<<p, call>>} /\ UNCHANGED remote

\* getSession: for WAHA, an error is a session that does not exist.
Answers(p, a) ==
  \/ p \notin down /\ a = remote[p] /\ UNCHANGED outside
  \/ p \in down /\ p = "waha" /\ a = "none" /\ UNCHANGED outside
  \/ /\ p \notin down /\ p = "waha" /\ a = "none"
     /\ Incident /\ UNCHANGED <<remote, late>>

Throws(p) ==
  /\ p \in down => p # "waha"
  /\ \/ p \in down /\ UNCHANGED outside
     \/ /\ p \notin down /\ Incident /\ UNCHANGED <<remote, late>>

\* A call that was given up arrives.
Arrive ==
  \E k \in late :
    /\ late' = late \ {k} /\ UNCHANGED incidents
    /\ remote' = IF Accepts(k[1], k[2], remote[k[1]])
                   THEN [remote EXCEPT ![k[1]] = Effect(k[1], k[2], @)] ELSE remote
    /\ amiss' = (amiss \/ (remote[k[1]] \in Live /\ remote'[k[1]] \notin Live))
    /\ UNCHANGED <<row, caches, health, ens, jobs, monitor, rest>>

----------------------------------------------------------------------------
\* ensureSession, by a process w.

Keep(w, a) == l1' = [l1 EXCEPT ![w] = a] /\ l2' = IF reachable THEN a ELSE l2
Forget(w) == l1' = [l1 EXCEPT ![w] = "nothing"] /\ l2' = IF reachable THEN "nothing" ELSE l2

RunIs(w, e) == ens' = [ens EXCEPT ![w] = e]
To(w, place) == RunIs(w, [ens[w] EXCEPT !.at = place])

Free(w, p) == <<w, p>> \notin blocked'

\* Mutant: there is no other provider.
NoSwitch(w) == RunIs(w, [ens[w] EXCEPT !.at = "throw", !.saw = "none"]) /\ UNCHANGED caches

\* The other provider has its turn, unless it had it or is blocked.  The caches are
\* emptied before: they do not say whose answer they hold.
Switch(w) ==
  LET e == ens[w] IN
  IF e.on = e.first /\ Free(w, Other(e.on))
    THEN /\ RunIs(w, [e EXCEPT !.at = "look", !.on = Other(@), !.attempt = 1, !.saw = "none"])
         /\ Forget(w)
    ELSE RunIs(w, [e EXCEPT !.at = "throw", !.saw = "none"]) /\ UNCHANGED caches

\* Mutant: one attempt more than the code makes.
RetryOnceMore(w) ==
  IF ens[w].attempt <= Attempts
    THEN RunIs(w, [ens[w] EXCEPT !.at = "look", !.attempt = @ + 1, !.saw = "none"])
         /\ UNCHANGED caches
    ELSE Switch(w)

\* One more attempt, or the next provider.
Retry(w) ==
  IF ens[w].attempt < Attempts
    THEN RunIs(w, [ens[w] EXCEPT !.at = "look", !.attempt = @ + 1, !.saw = "none"])
         /\ UNCHANGED caches
    ELSE Switch(w)

\* The catch of an attempt: the failure counts, and unless it was the last attempt
\* the caches and the session are dropped.
Caught(w) ==
  LET k == <<w, ens[w].on>>
      n == IF fails[k] < Threshold THEN fails[k] + 1 ELSE Threshold
  IN /\ fails' = [fails EXCEPT ![k] = n]
     /\ blocked' = IF n = Threshold THEN blocked \cup {k} ELSE blocked \ {k}
     /\ IF ens[w].attempt < Attempts
          THEN To(w, "drop") /\ Forget(w)
          ELSE Switch(w)

\* Only a session that works clears the failures of its provider.
ClearFailures(w, a) ==
  IF a = "working"
    THEN LET k == <<w, ens[w].on>>
         IN /\ fails' = [fails EXCEPT ![k] = 0] /\ blocked' = blocked \ {k}
    ELSE UNCHANGED health

\* What an attempt does with an answer, fresh or kept.
Decide(w, a) ==
  /\ ClearFailures(w, a)
  /\ CASE a = "none" -> RunIs(w, [ens[w] EXCEPT !.at = "create", !.saw = a]) /\ Keep(w, a)
       [] a = "offline" -> RunIs(w, [ens[w] EXCEPT !.at = "clear", !.saw = a]) /\ Forget(w)
       [] a = "qr" -> To(w, "qr") /\ Keep(w, a)
       [] OTHER -> To(w, "done") /\ Keep(w, a)

Kept(w) == IF l1[w] # "nothing" THEN l1[w] ELSE IF reachable THEN l2 ELSE "nothing"

\* A kept answer says that the session is there, and it is not.
Misled(w) == Kept(w) \in Live /\ remote[ens[w].on] \notin Live

unchangedRow == UNCHANGED <<row, amiss, jobs, monitor, rest>>

Look(w) ==
  /\ ens[w].at = "look"
  /\ IF Kept(w) = "nothing" THEN To(w, "ask") /\ UNCHANGED <<caches, health>>
                             ELSE Decide(w, Kept(w))
  /\ amiss' = (amiss \/ Misled(w))
  /\ UNCHANGED <<outside, row, jobs, monitor, rest>>

GetSession(w) ==
  /\ ens[w].at = "ask"
  /\ \/ \E a \in States : Answers(ens[w].on, a) /\ Decide(w, a)
     \/ Throws(ens[w].on) /\ Caught(w)
  /\ unchangedRow

\* deleteSession; its failure is ignored.
DeleteSession(w) ==
  /\ ens[w].at \in {"clear", "drop"}
  /\ Succeeds(ens[w].on, "delete") \/ Fails(ens[w].on, "delete")
  /\ IF ens[w].at = "clear" THEN To(w, "create") /\ UNCHANGED caches ELSE Retry(w)
  /\ UNCHANGED health /\ unchangedRow

\* A call that succeeds, or ends the attempt in its catch.
Succeeding(w, at, call) ==
  /\ ens[w].at = at /\ Succeeds(ens[w].on, call) /\ UNCHANGED health /\ unchangedRow
Failing(w, at, call) ==
  /\ ens[w].at = at /\ Fails(ens[w].on, call) /\ Caught(w) /\ unchangedRow

CreateSession(w) ==
  \/ Succeeding(w, "create", "create") /\ To(w, "start") /\ UNCHANGED caches
  \/ Failing(w, "create", "create")

\* The answer that the session does not exist is forgotten only now.
StartSession(w) ==
  \/ /\ Succeeding(w, "start", "start") /\ To(w, "reask")
     /\ IF ens[w].saw = "none" THEN Forget(w) ELSE UNCHANGED caches
  \/ Failing(w, "start", "start")

GetQRCode(w) ==
  \/ Succeeding(w, "qr", "qr") /\ To(w, "done") /\ UNCHANGED caches
  \/ Failing(w, "qr", "qr")

\* Neither a code nor connected: the session is started again.
StartAgain(w) ==
  \/ Succeeding(w, "again", "start") /\ Retry(w)
  \/ Failing(w, "again", "start")

\* The answer after the start.
AskAgain(w) ==
  /\ ens[w].at = "reask"
  /\ \/ \E a \in States :
             /\ Answers(ens[w].on, a) /\ Keep(w, a) /\ ClearFailures(w, a)
             /\ RunIs(w, [ens[w] EXCEPT !.saw = "none",
                          !.at = IF a = "qr" THEN "qr"
                                 ELSE IF a = "working" THEN "done" ELSE "again"])
     \/ Throws(ens[w].on) /\ Caught(w)
  /\ unchangedRow

\* A run ends.  A job that failed goes back to the queue while it has attempts; the
\* monitor, if it waits for the run, goes on to the other provider or gives up.
Ends(w, ok) ==
  /\ RunIs(w, Idle)
  /\ jobs' = IF w = "worker" /\ ~ok /\ ens[w].left > 0
               THEN Append(jobs, [on |-> ens[w].first, left |-> ens[w].left]) ELSE jobs
  /\ IF w = "api" /\ mon.at = "wait"
       THEN /\ mon' = IF ok THEN Resting
                      ELSE IF mon.to = mon.on THEN [mon EXCEPT !.at = "hand", !.to = Other(@)]
                      ELSE [mon EXCEPT !.at = "write", !.saw = "error"]
            /\ backoff' = IF ok THEN [backoff EXCEPT ![mon.on] = 0] ELSE backoff
       ELSE UNCHANGED <<mon, backoff>>
  /\ UNCHANGED <<seen, rounds, rest>>

\* No provider is left.
NoProvider(w) ==
  /\ ens[w].at = "throw" /\ Ends(w, FALSE)
  /\ UNCHANGED <<outside, caches, health, row, amiss>>

\* updateChannelProvider; its failure is ignored.
SaveProvider(w) ==
  \/ /\ row' = [row EXCEPT !.provider = ens[w].on]
     /\ UNCHANGED <<amiss, incidents>>
  \/ /\ Incident
     /\ amiss' = TRUE /\ UNCHANGED row

\* The run returns.
Done(w) ==
  /\ ens[w].at = "done" /\ Ends(w, TRUE)
  /\ IF ens[w].on # ens[w].first
       THEN Forget(w) /\ SaveProvider(w)
       ELSE UNCHANGED <<caches, row, amiss, incidents>>
  /\ UNCHANGED <<remote, late, health>>

\* A run begins with the provider of the caller, unless it is blocked.
BeginRun(w, p, left) ==
  LET e == [Idle EXCEPT !.at = "look", !.first = p, !.on = p, !.left = left]
  IN IF Free(w, p) THEN RunIs(w, e) /\ UNCHANGED caches
     ELSE IF Free(w, Other(p)) THEN RunIs(w, [e EXCEPT !.on = Other(p)]) /\ Forget(w)
     ELSE RunIs(w, [e EXCEPT !.at = "throw"]) /\ UNCHANGED caches

Run(w) ==
  \/ Look(w) \/ GetSession(w) \/ DeleteSession(w) \/ CreateSession(w)
  \/ StartSession(w) \/ AskAgain(w) \/ GetQRCode(w) \/ StartAgain(w)
  \/ NoProvider(w) \/ Done(w)

\* The worker takes the next job.
TakeJob ==
  /\ UNCHANGED <<outside, row, amiss, health, monitor, rest>>
  /\ reachable /\ jobs # <<>> /\ ens["worker"].at = "idle"
  /\ BeginRun("worker", Head(jobs).on, Head(jobs).left - 1) /\ jobs' = Tail(jobs)

\* A request for the session: connect, reconnect or its code.  One that finds a run
\* of its process under way gets the answer of that run.
Request ==
  /\ Incident
  /\ UNCHANGED <<remote, late, row, amiss, health, jobs, monitor, rest>>
  /\ ens["api"].at = "idle" /\ BeginRun("api", row.provider, 0)

----------------------------------------------------------------------------
\* The monitor.

unchangedRun == UNCHANGED <<health, rest>>

\* It looks only at active rows.
ListChannel ==
  /\ mon.at = "idle" /\ row.active /\ rounds < MaxRounds /\ rounds' = rounds + 1
  /\ mon' = [at |-> "ask", on |-> row.provider, to |-> row.provider, saw |-> "none"]
  /\ UNCHANGED <<outside, row, amiss, ens, jobs, seen, backoff, caches>> /\ unchangedRun

CheckSession ==
  /\ mon.at = "ask"
  /\ \/ \E a \in States : Answers(mon.on, a) /\ mon' = [mon EXCEPT !.at = "write", !.saw = a]
     \/ Throws(mon.on) /\ mon' = [mon EXCEPT !.at = "write", !.saw = "error"]
  /\ UNCHANGED <<row, amiss, ens, jobs, seen, backoff, rounds, caches>> /\ unchangedRun

\* The answer as the monitor remembers it.
Seen(a) == <<mon.on, IF a = "none" THEN "offline" ELSE a>>

\* It is written when it is new, an error or a session that does not exist, and may
\* be when the code has changed or the row was last seen long ago; a row that is not
\* connected is no longer active.  The statement may fail, and is not repeated.
SyncRow ==
  IF mon.saw = "working" THEN UNCHANGED <<row, incidents>> /\ seen' = Seen("working")
  ELSE \E syncs, stale \in BOOLEAN :
    /\ mon.saw \in {"none", "error"} \/ seen # Seen(mon.saw) \/ stale => syncs
    /\ stale => mon.saw # "error"
    /\ seen' = IF stale THEN Seen("offline") ELSE Seen(mon.saw)
    /\ \/ row' = [row EXCEPT !.active = @ /\ ~syncs] /\ UNCHANGED incidents
       \/ /\ syncs /\ Incident
          /\ UNCHANGED row

\* A session that is lost is recovered, unless three errors in a row make the
\* monitor wait for its next round or longer.
WriteSession ==
  /\ mon.at = "write" /\ SyncRow
  /\ CASE mon.saw = "error" ->
            /\ mon' = Resting
            /\ backoff' = [backoff EXCEPT ![mon.on] = IF @ < 3 THEN @ + 1 ELSE 3]
       [] mon.saw \in Live -> mon' = Resting /\ backoff' = [backoff EXCEPT ![mon.on] = 0]
       [] OTHER ->
            /\ mon' \in {[mon EXCEPT !.at = "hand", !.saw = "none"]} \cup
                        (IF backoff[mon.on] = 3 THEN {Resting} ELSE {})
            /\ UNCHANGED backoff
  /\ UNCHANGED <<remote, late, amiss, ens, jobs, rounds, caches>> /\ unchangedRun

\* recoverWithFailover: a job, or a run of its own when there is no queue.
Recover ==
  /\ mon.at = "hand"
  /\ UNCHANGED <<outside, row, seen, rounds>> /\ unchangedRun
  /\ IF reachable
       THEN /\ jobs' = Append(jobs, [on |-> mon.to, left |-> Attempts])
            /\ mon' = Resting /\ backoff' = [backoff EXCEPT ![mon.on] = 0]
            /\ amiss' = FALSE /\ UNCHANGED <<ens, caches>>
       ELSE /\ mon' = [mon EXCEPT !.at = "wait"] /\ UNCHANGED <<jobs, backoff, amiss>>
            /\ IF ens["api"].at = "idle" THEN BeginRun("api", mon.to, 0)
                                         ELSE UNCHANGED <<ens, caches>>

Check == ListChannel \/ CheckSession \/ WriteSession \/ Recover

----------------------------------------------------------------------------
\* What happens around.

unchangedAround == UNCHANGED <<late, ens, jobs, monitor, down>>
unchangedWork == unchangedAround /\ UNCHANGED amiss

\* The user scans the code.
Scan ==
  /\ \E p \in Providers : remote[p] = "qr" /\ remote' = [remote EXCEPT ![p] = "working"]
  /\ UNCHANGED <<row, caches, health, reachable, incidents>> /\ unchangedWork

Lose ==
  /\ Incident
  /\ \E p \in Providers, s \in {"none", "offline"} :
       remote[p] \in Live /\ remote' = [remote EXCEPT ![p] = s]
  /\ amiss' = TRUE
  /\ UNCHANGED <<row, caches, health, reachable>> /\ unchangedAround

\* A webhook of the row's provider, or its poll: only a connected row is active.
Report ==
  /\ row' = [row EXCEPT !.active = remote[row.provider] = "working"] /\ row' # row
  /\ UNCHANGED <<remote, caches, health, reachable, incidents>> /\ unchangedWork

\* Answers are kept for 5 s.
Expire ==
  /\ \/ \E w \in Processes : l1[w] # "nothing" /\ l1' = [l1 EXCEPT ![w] = "nothing"]
                         /\ UNCHANGED l2
     \/ l2 # "nothing" /\ l2' = "nothing" /\ UNCHANGED l1
  /\ UNCHANGED <<remote, row, health, reachable, incidents>> /\ unchangedWork

\* A provider is no longer blocked; a minute's cleanup forgets its failures.
Unblock ==
  /\ Incident
  /\ \E k \in Processes \X Providers :
       \/ k \in blocked /\ blocked' = blocked \ {k} /\ UNCHANGED fails
       \/ k \notin blocked /\ fails[k] = Threshold /\ fails' = [fails EXCEPT ![k] = 0]
          /\ UNCHANGED blocked
  /\ UNCHANGED <<remote, row, caches, reachable>> /\ unchangedWork

RedisGoes ==
  /\ reachable /\ reachable' = FALSE /\ Incident
  /\ UNCHANGED <<remote, row, caches, health>> /\ unchangedWork
RedisIsBack ==
  /\ ~reachable /\ reachable' = TRUE
  /\ UNCHANGED <<remote, row, caches, health, incidents>> /\ unchangedWork

LostNext ==
  \/ \E w \in Processes : Run(w)
  \/ TakeJob \/ Request \/ Check
  \/ Arrive \/ Scan \/ Lose \/ Report \/ Expire \/ Unblock \/ RedisGoes \/ RedisIsBack

LostSpec == LostInit /\ [][LostNext]_lostVars

\* A call is answered or given up; BullMQ hands its jobs to the worker, and connects
\* to Redis again.
LostFairSpec ==
  /\ LostSpec /\ WF_lostVars(TakeJob) /\ WF_lostVars(RedisIsBack)
  /\ \A w \in Processes : WF_lostVars(Run(w))

----------------------------------------------------------------------------

\* What the monitor hands to the queue is recovered: the row comes to name a provider
\* that has the session again, connected or with a code to scan, also when one of the
\* two does not answer at all.  Except that something may go amiss again before: the
\* statement that names the provider fails, a run believes a kept answer that is not
\* so, or a session that was there is lost or deleted, also by a call given up before.
LostIsRecovered ==
  (\E i \in DOMAIN jobs : jobs[i].left = Attempts)
    ~> \/ remote[row.provider] \in Live \/ amiss
       \/ \A p \in Providers : <<"worker", p>> \in blocked
=============================================================================
