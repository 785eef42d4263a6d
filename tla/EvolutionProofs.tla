--------------------------- MODULE EvolutionProofs ---------------------------
(***************************************************************************)
(* Evolution for every set of calls, every number of slots, attempts and   *)
(* retries, every threshold and time limit: a call that was told of        *)
(* success was carried out, and a list that is told is a recent one.       *)
(***************************************************************************)
EXTENDS Evolution, TLAPS

\* The stages that only some operations reach.
StageFits(k, stage) ==
  /\ stage \in {"logout", "logout2"} => k = "reset"
  /\ stage = "main2" => k \in {"connect", "reset", "disconnect"}
  /\ stage \in {"revive", "revive2", "afresh"} => k = "qr"

AllAnswers == {"ok", "no", "busy", "broken", "method"}
MainStages == {"main", "main2", "afresh"}

\* A job that goes on within its attempt.
Onward(j, r) ==
  r \in JobRecords /\ r.at = j.at /\ r.attempt = j.attempt /\ r.stalled = j.stalled

\* A call and its job: there is none before the call has added it, and the call
\* was told of success, or does what follows it, once the job is done.
CallFits(c) ==
  /\ at[c] \in {"idle", "get", "chain", "add"} => job[c] = NoJob
  /\ at[c] \in {"get", "chain", "set"} => kind[c] = "list"
  /\ at[c] \in {"set", "drop"} => job[c].at = "done"
  /\ result[c] = "ok" => at[c] = "answered" /\ (kind[c] # "list" => job[c].at = "done")

\* A job that has succeeded was carried out.
Succeeded(c) == job[c].at = "done" \/ job[c].stage = "ok"
JobFits(c) ==
  /\ StageFits(kind[c], job[c].stage)
  /\ kind[c] # "list" /\ Succeeded(c) => c \in did

\* The list that a call waits for was Evolution's since the call began to wait.
ListFits(c) ==
  kind[c] = "list" /\ at[c] \in {"wait", "set"} /\ age[c] <= Limit /\ Succeeded(c)
    => job[c].list = exists \/ since <= age[c]

\* The list call that works is the first of the chain.
ChainFits(c) ==
  kind[c] = "list" =>
    /\ at[c] = "chain" => \E i \in DOMAIN chain : chain[i] = c
    /\ at[c] \in {"add", "wait", "set"} => chain # <<>> /\ Head(chain) = c

\* A job that waits is in the queue once, and no other job is.
QueueFits ==
  /\ \A i \in DOMAIN queue : job[queue[i]].at = "waiting"
  /\ \A i, k \in DOMAIN queue : queue[i] = queue[k] => i = k

\* The cached list is out of date by no more than its own age and the time that
\* the call that fetched it took.
CacheFits ==
  cache.kept => /\ cache.age < TTL
                /\ cache.late \/ cache.list = exists \/ since <= cache.age + Limit

Inv ==
  /\ TypeOK /\ QueueFits /\ CacheFits
  /\ \A c \in Calls : CallFits(c) /\ JobFits(c) /\ ListFits(c) /\ ChainFits(c)

----------------------------------------------------------------------------
\* What the helpers for sequences do.

LEMMA RemoveAtFacts ==
  ASSUME NEW S, NEW s \in Seq(S), NEW i \in DOMAIN s
  PROVE  /\ RemoveAt(s, i) \in Seq(S)
         /\ DOMAIN RemoveAt(s, i) = 1 .. Len(s) - 1
         /\ \A k \in DOMAIN RemoveAt(s, i) :
              RemoveAt(s, i)[k] = IF k < i THEN s[k] ELSE s[k + 1]
<1>1. i \in 1 .. Len(s) /\ Len(s) \in Nat
  OBVIOUS
<1>2. SubSeq(s, 1, i - 1) \in Seq(S) /\ SubSeq(s, i + 1, Len(s)) \in Seq(S)
  BY <1>1
<1>3. Len(SubSeq(s, 1, i - 1)) = i - 1 /\ Len(SubSeq(s, i + 1, Len(s))) = Len(s) - i
  BY <1>1
<1>4. /\ \A k \in 1 .. i - 1 : SubSeq(s, 1, i - 1)[k] = s[k]
      /\ \A k \in 1 .. Len(s) - i : SubSeq(s, i + 1, Len(s))[k] = s[k + i]
  BY <1>1
<1> DEFINE front == SubSeq(s, 1, i - 1)
           back == SubSeq(s, i + 1, Len(s))
<1>5. /\ RemoveAt(s, i) = front \o back
      /\ RemoveAt(s, i) \in Seq(S) /\ Len(RemoveAt(s, i)) = Len(s) - 1
  <2>1. RemoveAt(s, i) = front \o back
    BY Zenon DEF RemoveAt
  <2> HIDE DEF front, back
  <2>2. front \in Seq(S) /\ back \in Seq(S)
    BY <1>2 DEF front, back
  <2>3. Len(front) = i - 1 /\ Len(back) = Len(s) - i
    BY <1>3 DEF front, back
  <2>4. front \o back \in Seq(S) /\ Len(front \o back) = Len(front) + Len(back)
    BY <2>2
  <2> QED
    BY <1>1, <2>1, <2>3, <2>4
<1>6. ASSUME NEW k \in 1 .. Len(s) - 1
      PROVE  RemoveAt(s, i)[k] = IF k < i THEN s[k] ELSE s[k + 1]
  <2> HIDE DEF front, back
  <2>1. front \in Seq(S) /\ back \in Seq(S) /\ Len(front) = i - 1 /\ Len(back) = Len(s) - i
    BY <1>2, <1>3 DEF front, back
  <2>2. (front \o back)[k] = IF k <= Len(front) THEN front[k] ELSE back[k - Len(front)]
    BY <1>1, <2>1
  <2>3. CASE k < i
    BY <1>1, <1>4, <1>5, <2>1, <2>2, <2>3 DEF front
  <2>4. CASE ~(k < i)
    <3>1. k - Len(front) \in 1 .. Len(s) - i /\ k - Len(front) + i = k + 1
      BY <1>1, <2>1, <2>4
    <3>2. \A m \in 1 .. Len(s) - i : back[m] = s[m + i]
      BY <1>4 DEF back
    <3>3. back[k - Len(front)] = s[k - Len(front) + i]
      BY <3>1, <3>2
    <3>4. ~(k <= Len(front))
      BY <1>1, <2>1, <2>4
    <3> QED
      BY <1>5, <2>2, <2>4, <3>1, <3>3, <3>4, Zenon
  <2> QED
    BY <2>3, <2>4
<1>7. DOMAIN RemoveAt(s, i) = 1 .. Len(s) - 1
  BY <1>5
<1> QED
  BY <1>5, <1>6, <1>7

LEMMA AppendFacts ==
  ASSUME NEW S, NEW s \in Seq(S), NEW e \in S
  PROVE  /\ Append(s, e) \in Seq(S) /\ DOMAIN Append(s, e) = 1 .. Len(s) + 1
         /\ DOMAIN s = 1 .. Len(s) /\ Len(s) \in Nat
         /\ Append(s, e)[Len(s) + 1] = e /\ \A k \in DOMAIN s : Append(s, e)[k] = s[k]
OBVIOUS

LEMMA TailFacts ==
  ASSUME NEW S, NEW s \in Seq(S), s # <<>>
  PROVE  /\ Tail(s) \in Seq(S) /\ DOMAIN Tail(s) = 1 .. Len(s) - 1 /\ Head(s) = s[1]
         /\ \A k \in DOMAIN Tail(s) : Tail(s)[k] = s[k + 1]
OBVIOUS

----------------------------------------------------------------------------
\* The retries.

LEMMA StageOnward ==
  ASSUME NEW j \in JobRecords, NEW stage \in Stages
  PROVE  Onward(j, Stage(j, stage)) /\ Stage(j, stage).stage = stage
BY DEF Onward, Stage, JobRecords

LEMMA CountedOnward ==
  ASSUME NEW j \in JobRecords, NEW stage \in Stages, NEW t \in 1 .. HttpTries,
         NEW n \in 1 .. HttpTries
  PROVE  Onward(j, Counted(j, stage, t, n)) /\ Counted(j, stage, t, n).stage = stage
<1>1. Counted(j, stage, t, n) \in JobRecords
  BY DEF Counted, JobRecords
<1> QED
  BY <1>1 DEF Counted, Onward, JobRecords

LEMMA Counts ==
  ASSUME NEW j \in JobRecords
  PROVE  /\ j.tries \in 1 .. HttpTries /\ 1 \in 1 .. HttpTries
         /\ j.tries < HttpTries => j.tries + 1 \in 1 .. HttpTries
         /\ j.inner < HttpTries => j.inner + 1 \in 1 .. HttpTries
<1>1. j.tries \in 1 .. HttpTries /\ j.inner \in 1 .. HttpTries
  BY DEF JobRecords
<1> QED
  BY <1>1, EvolutionAssumption

LEMMA Again1Onward ==
  ASSUME NEW j \in JobRecords
  PROVE  Onward(j, Again1(j)) /\ Again1(j).stage \in {"main", "err"}
BY Counts, CountedOnward, StageOnward DEF Again1, Stages

LEMMA AgainInnerOnward ==
  ASSUME NEW j \in JobRecords
  PROVE  Onward(j, AgainInner(j)) /\ AgainInner(j).stage \in {"revive", "main", "err"}
BY Counts, CountedOnward, Again1Onward DEF AgainInner, Stages

LEMMA AgainLogoutOnward ==
  ASSUME NEW j \in JobRecords
  PROVE  Onward(j, AgainLogout(j)) /\ AgainLogout(j).stage \in {"logout", "main"}
BY Counts, CountedOnward DEF AgainLogout, Stages

LEMMA PlainOnward ==
  ASSUME NEW j \in JobRecords, NEW answer \in AllAnswers
  PROVE  /\ Onward(j, Plain(j, answer)) /\ Plain(j, answer).stage \in {"ok", "main", "err"}
         /\ Plain(j, answer).stage = "ok" => answer = "ok"
BY StageOnward, Again1Onward DEF Plain, AllAnswers, Stages

LEMMA TwofoldOnward ==
  ASSUME NEW j \in JobRecords, NEW answer \in AllAnswers
  PROVE  /\ Onward(j, Twofold(j, answer))
         /\ Twofold(j, answer).stage \in {"ok", "main", "main2", "err"}
         /\ Twofold(j, answer).stage = "ok" => answer = "ok"
BY StageOnward, PlainOnward DEF Twofold, Stages

LEMMA LogoutOnward ==
  ASSUME NEW j \in JobRecords, NEW answer \in AllAnswers
  PROVE  /\ Onward(j, Logout(j, answer))
         /\ Logout(j, answer).stage \in {"logout", "logout2", "main"}
<1>1. CASE answer = "method" /\ j.stage = "logout"
  BY <1>1, StageOnward DEF Logout, Stages
<1>2. CASE answer = "busy"
  BY <1>2, AgainLogoutOnward DEF Logout
<1>3. CASE answer # "busy" /\ ~(answer = "method" /\ j.stage = "logout")
  <2>1. Logout(j, answer) = Counted(j, "main", j.tries, 1)
    BY <1>3 DEF Logout
  <2> QED
    BY <2>1, Counts, CountedOnward DEF Stages
<1> QED
  BY <1>1, <1>2, <1>3

LEMMA CodeOnward ==
  ASSUME NEW j \in JobRecords, NEW answer \in AllAnswers
  PROVE  /\ Onward(j, Code(j, answer))
         /\ Code(j, answer).stage \in {"ok", "main", "revive", "revive2", "afresh", "err"}
         /\ Code(j, answer).stage = "ok" => answer = "ok" /\ j.stage \in MainStages
<1>1. CASE j.stage \in {"main", "afresh"}
  BY <1>1, StageOnward, PlainOnward DEF Code, Stages, MainStages
<1>2. CASE j.stage \notin {"main", "afresh"}
  BY <1>2, StageOnward, AgainInnerOnward DEF Code, Stages, AllAnswers
<1> QED
  BY <1>1, <1>2

\* After an answer the job is at a stage of its operation, and it has succeeded
\* only with the answer to the request that the operation is about.
LEMMA AfterFacts ==
  ASSUME NEW c \in Calls, kind[c] \in Kinds, job[c] \in JobRecords,
         StageFits(kind[c], job[c].stage), job[c].stage \notin {"ok", "err"},
         NEW answer \in AllAnswers
  PROVE  /\ Onward(job[c], After(c, answer))
         /\ StageFits(kind[c], After(c, answer).stage)
         /\ After(c, answer).stage = "ok" => answer = "ok" /\ job[c].stage \in MainStages
<1> DEFINE j == job[c]
<1>1. j.stage \in Stages
  BY DEF JobRecords
<1>2. CASE j.stage \in {"logout", "logout2"}
  <2>1. After(c, answer) = Logout(j, answer) /\ kind[c] = "reset"
    BY <1>2 DEF After, StageFits
  <2> QED
    BY <2>1, LogoutOnward DEF StageFits
<1>3. CASE j.stage \notin {"logout", "logout2"} /\ kind[c] = "create"
  <2>1. After(c, answer) = Stage(j, IF answer = "ok" THEN "ok" ELSE "err")
    BY <1>3 DEF After, Created
  <2>2. j.stage = "main"
    BY <1>1, <1>3 DEF StageFits, Stages
  <2> QED
    BY <2>1, <2>2, StageOnward DEF StageFits, Stages, MainStages
<1>4. CASE /\ j.stage \notin {"logout", "logout2"}
           /\ kind[c] \in {"connect", "reset", "disconnect"}
  <2>1. After(c, answer) = Twofold(j, answer)
    BY <1>4 DEF After
  <2>2. j.stage \in {"main", "main2"}
    BY <1>1, <1>4 DEF StageFits, Stages
  <2> QED
    BY <1>4, <2>1, <2>2, TwofoldOnward DEF StageFits, MainStages
<1>5. CASE j.stage \notin {"logout", "logout2"} /\ kind[c] = "qr"
  <2>1. After(c, answer) = Code(j, answer)
    BY <1>5 DEF After
  <2> QED
    BY <1>5, <2>1, CodeOnward DEF StageFits
<1>6. CASE /\ j.stage \notin {"logout", "logout2"}
           /\ kind[c] \notin {"create", "connect", "reset", "disconnect", "qr"}
  <2>1. After(c, answer) = Plain(j, answer)
    BY <1>6 DEF After
  <2>2. j.stage = "main"
    BY <1>1, <1>6 DEF StageFits, Stages
  <2> QED
    BY <2>1, <2>2, PlainOnward DEF StageFits, MainStages
<1> QED
  BY <1>2, <1>3, <1>4, <1>5, <1>6

----------------------------------------------------------------------------
\* What a step of one call leaves as it was for the others.

CallTypes ==
  /\ at \in [Calls -> Places] /\ kind \in [Calls -> Kinds]
  /\ result \in [Calls -> Results] /\ age \in [Calls -> 0 .. Limit + 1]

Moved(c, p, r, a) ==
  /\ CallTypes' /\ kind' = kind
  /\ at'[c] = p /\ result'[c] = r /\ age'[c] = a
  /\ \A d \in Calls \ {c} : at'[d] = at[d] /\ result'[d] = result[d] /\ age'[d] = age[d]

LEMMA GoesMoved ==
  ASSUME TypeOK, NEW c \in Calls, NEW p \in Places, Goes(c, p)
  PROVE  Moved(c, p, result[c], age[c])
BY DEF TypeOK, Goes, Moved, CallTypes

LEMMA EndsMoved ==
  ASSUME TypeOK, NEW c \in Calls, NEW r \in Results, Ends(c, r)
  PROVE  Moved(c, "answered", r, 0)
BY EvolutionAssumption DEF TypeOK, Ends, Moved, CallTypes, Places

LEMMA OthersKept ==
  ASSUME Inv, NEW c \in Calls, kind' = kind, exists' = exists, since' = since, did \subseteq did',
         \A d \in Calls \ {c} : /\ at'[d] = at[d] /\ result'[d] = result[d]
                              /\ age'[d] = age[d] /\ job'[d] = job[d]
  PROVE  \A d \in Calls \ {c} : (CallFits(d) /\ JobFits(d) /\ ListFits(d))'
<1> SUFFICES ASSUME NEW d \in Calls \ {c}
             PROVE  CallFits(d)' /\ JobFits(d)' /\ ListFits(d)'
  OBVIOUS
<1>1. CallFits(d)'
  BY DEF Inv, CallFits
<1>2. JobFits(d)'
  BY DEF Inv, JobFits, Succeeded
<1>3. ListFits(d)'
  BY DEF Inv, ListFits, Succeeded
<1> QED
  BY <1>1, <1>2, <1>3

\* The chain stays, or c joins it, or c, which is its first, leaves it.
ChainStep(c) ==
  \/ chain' = chain
  \/ chain' = Append(chain, c)
  \/ kind[c] = "list" /\ chain # <<>> /\ Head(chain) = c /\ chain' = Tail(chain)

LEMMA ChainOthers ==
  ASSUME Inv, NEW c \in Calls, kind' = kind, ChainStep(c),
         \A d \in Calls \ {c} : at'[d] = at[d]
  PROVE  chain' \in Seq(Calls) /\ \A d \in Calls \ {c} : ChainFits(d)'
<1>0. chain \in Seq(Calls)
  BY DEF Inv, TypeOK
<1>1. CASE chain' = chain
  BY <1>0, <1>1 DEF Inv, ChainFits
<1>2. CASE chain' = Append(chain, c)
  <2>1. /\ chain' \in Seq(Calls) /\ DOMAIN chain' = 1 .. Len(chain) + 1
        /\ DOMAIN chain = 1 .. Len(chain) /\ Len(chain) \in Nat
        /\ \A k \in DOMAIN chain : chain'[k] = chain[k]
    BY <1>0, <1>2, AppendFacts
  <2>2. ASSUME NEW d \in Calls \ {c} PROVE ChainFits(d)'
    <3>1. ASSUME kind[d] = "list", at[d] = "chain"
          PROVE  \E i \in DOMAIN chain' : chain'[i] = d
      BY <2>1, <3>1 DEF Inv, ChainFits
    <3>2. ASSUME kind[d] = "list", at[d] \in {"add", "wait", "set"}
          PROVE  chain' # <<>> /\ Head(chain') = d
      <4>1. chain # <<>> /\ Head(chain) = d
        BY <3>2 DEF Inv, ChainFits
      <4>2. Len(chain) > 0 /\ chain[1] = d
        BY <1>0, <4>1
      <4> QED
        BY <2>1, <4>2
    <3> QED
      BY <3>1, <3>2 DEF ChainFits
  <2> QED
    BY <2>1, <2>2
<1>3. CASE kind[c] = "list" /\ chain # <<>> /\ Head(chain) = c /\ chain' = Tail(chain)
  <2>1. /\ chain' \in Seq(Calls) /\ DOMAIN chain' = 1 .. Len(chain) - 1 /\ chain[1] = c
        /\ \A k \in DOMAIN chain' : chain'[k] = chain[k + 1]
        /\ Len(chain) \in Nat /\ DOMAIN chain = 1 .. Len(chain)
    BY <1>0, <1>3, TailFacts
  <2>2. ASSUME NEW d \in Calls \ {c} PROVE ChainFits(d)'
    <3>1. ASSUME kind[d] = "list", at[d] = "chain"
          PROVE  \E i \in DOMAIN chain' : chain'[i] = d
      <4>1. PICK i \in DOMAIN chain : chain[i] = d
        BY <3>1 DEF Inv, ChainFits
      <4>2. i - 1 \in DOMAIN chain' /\ i - 1 + 1 = i
        BY <2>1, <4>1
      <4> QED
        BY <2>1, <4>1, <4>2
    <3>2. ~(kind[d] = "list" /\ at[d] \in {"add", "wait", "set"})
      BY <1>3 DEF Inv, ChainFits
    <3> QED
      BY <3>1, <3>2 DEF ChainFits
  <2> QED
    BY <2>1, <2>2
<1> QED
  BY <1>1, <1>2, <1>3 DEF ChainStep

\* A step of a call that does nothing to the jobs.
LEMMA CallStep ==
  ASSUME Inv, NEW c \in Calls, NEW p, NEW r, NEW a, Moved(c, p, r, a), ChainStep(c),
         UNCHANGED <<jobs, world, did, faulty>>,
         breaker' \in Breakers, cache' \in Caches, told' \in Tellings, CacheFits',
         CallFits(c)', ListFits(c)', ChainFits(c)'
  PROVE  Inv'
<1>1. /\ job' = job /\ queue' = queue /\ exists' = exists /\ since' = since /\ did' = did
      /\ UNCHANGED <<redis, worker, faults>>
  BY DEF jobs, world, faulty
<1>2. kind' = kind /\ CallTypes'
  BY Zenon DEF Moved
<1>3. \A d \in Calls \ {c} : at'[d] = at[d] /\ result'[d] = result[d] /\ age'[d] = age[d]
  BY Zenon DEF Moved
<1>4. chain' \in Seq(Calls) /\ \A d \in Calls \ {c} : ChainFits(d)'
  BY <1>2, <1>3, ChainOthers
<1>5. \A d \in Calls \ {c} : (CallFits(d) /\ JobFits(d) /\ ListFits(d))'
  BY <1>1, <1>2, <1>3, OthersKept
<1>6. JobFits(c)'
  BY <1>1, <1>2 DEF Inv, JobFits, Succeeded
<1>7. TypeOK'
  BY <1>1, <1>2, <1>4, Zenon DEF Inv, TypeOK, CallTypes
<1>8. QueueFits'
  BY <1>1 DEF Inv, QueueFits
<1> QED
  BY <1>4, <1>5, <1>6, <1>7, <1>8, Zenon DEF Inv

\* A step of a job that does nothing to the calls nor, for what it returns, to
\* Evolution.
LEMMA JobStep ==
  ASSUME Inv, NEW c \in Calls, NEW r \in JobRecords, job' = [job EXCEPT ![c] = r],
         UNCHANGED <<breaker, cache, chain, calls, world, faulty, did>>,
         queue' \in Seq(Calls), QueueFits', told' = Nothing,
         CallFits(c)', JobFits(c)', ListFits(c)'
  PROVE  Inv'
<1>1. /\ UNCHANGED <<breaker, cache, chain, at, kind, result, age, exists, since, did>>
      /\ UNCHANGED <<redis, worker, faults>>
  BY DEF calls, world, faulty
<1>2. /\ job' \in [Calls -> JobRecords]
      /\ \A d \in Calls \ {c} : job'[d] = job[d]
  BY DEF Inv, TypeOK
<1>3. \A d \in Calls \ {c} : (CallFits(d) /\ JobFits(d) /\ ListFits(d))'
  BY <1>1, <1>2, OthersKept
<1>4. \A d \in Calls : ChainFits(d)'
  BY <1>1 DEF Inv, ChainFits
<1>5. CacheFits'
  BY <1>1 DEF Inv, CacheFits
<1>6. told' \in Tellings
  BY EvolutionAssumption DEF Nothing, Tellings, Old
<1>7. TypeOK'
  BY <1>1, <1>2, <1>6, Zenon DEF Inv, TypeOK
<1> QED
  BY <1>3, <1>4, <1>5, <1>7, Zenon DEF Inv

----------------------------------------------------------------------------
\* The steps of the calls.

LEMMA BreakerTypes ==
  ASSUME breaker \in Breakers
  PROVE  Entered \in Breakers /\ AfterSuccess \in Breakers /\ AfterFailure \in Breakers
<1>0. /\ breaker.state \in {"closed", "open", "half_open"} /\ breaker.failures \in 0 .. Threshold
      /\ breaker.age \in 0 .. OpenFor
  BY DEF Breakers
<1>00. 0 \in 0 .. OpenFor
  BY EvolutionAssumption
<1>1. Entered \in Breakers
  <2>1. CASE breaker.state = "open"
    <3>1. Entered = [breaker EXCEPT !.state = "half_open", !.age = 0]
      BY <2>1 DEF Entered
    <3> QED
      BY <1>00, <3>1 DEF Breakers
  <2>2. CASE breaker.state # "open"
    <3>1. Entered = [breaker EXCEPT !.state = breaker.state, !.age = 0]
      BY <2>2 DEF Entered
    <3> QED
      BY <1>0, <1>00, <3>1 DEF Breakers
  <2> QED
    BY <2>1, <2>2
<1>2. AfterSuccess \in Breakers
  BY EvolutionAssumption DEF AfterSuccess, Breakers
<1>3. AfterFailure \in Breakers
  <2> DEFINE f == IF breaker.failures < Threshold THEN breaker.failures + 1 ELSE Threshold
  <2>1. f \in 0 .. Threshold
    BY <1>0, EvolutionAssumption
  <2>2. AfterFailure =
          IF breaker.state = "half_open" THEN [breaker EXCEPT !.state = "open", !.age = 0]
          ELSE IF f >= Threshold THEN [state |-> "open", failures |-> f, age |-> 0]
          ELSE [breaker EXCEPT !.failures = f]
    BY Zenon DEF AfterFailure
  <2> HIDE DEF f
  <2>3. [breaker EXCEPT !.state = "open", !.age = 0] \in Breakers
    BY <1>00 DEF Breakers
  <2>4. [state |-> "open", failures |-> f, age |-> 0] \in Breakers
    BY <1>00, <2>1 DEF Breakers
  <2>5. [breaker EXCEPT !.failures = f] \in Breakers
    BY <2>1 DEF Breakers
  <2> QED
    BY <2>2, <2>3, <2>4, <2>5, Zenon
<1> QED
  BY <1>1, <1>2, <1>3

LEMMA NothingTold ==
  /\ Nothing \in Tellings
  /\ told' = Nothing => told' \in Tellings /\ ListIsRecent'
<1>1. 0 \in 0 .. Old
  BY EvolutionAssumption DEF Old
<1>2. Nothing \in Tellings /\ Nothing.late
  BY <1>1 DEF Nothing, Tellings
<1> QED
  BY <1>2 DEF ListIsRecent

LEMMA CacheKept ==
  ASSUME Inv, cache' = cache, UNCHANGED world
  PROVE  CacheFits' /\ cache' \in Caches
BY DEF Inv, TypeOK, CacheFits, world

LEMMA OldList ==
  ASSUME Inv, NEW list \in BOOLEAN, NEW late \in BOOLEAN, Tells(list, late),
         late \/ list = exists \/ since < Limit + TTL
  PROVE  told' \in Tellings /\ ListIsRecent'
<1>1. since \in 0 .. Old
  BY DEF Inv, TypeOK
<1>2. AgeOf(list) \in 0 .. Old /\ (late \/ AgeOf(list) < Limit + TTL)
  BY <1>1, EvolutionAssumption DEF AgeOf, Old
<1>3. told' = [list |-> list, age |-> AgeOf(list), late |-> late]
  BY DEF Tells
<1>4. told' \in Tellings
  BY <1>2, <1>3 DEF Tellings
<1>5. ListIsRecent'
  BY <1>2, <1>3 DEF ListIsRecent
<1> QED
  BY <1>4, <1>5

\* A step after which the call waits for no list and is not in the chain.
LEMMA Elsewhere ==
  ASSUME Inv, NEW c \in Calls, NEW p, NEW r, NEW a, Moved(c, p, r, a),
         p \notin {"chain", "wait", "set"}, p = "add" => kind[c] # "list"
  PROVE  ListFits(c)' /\ ChainFits(c)'
BY DEF Moved, ListFits, ChainFits

LEMMA AskKeeps ==
  ASSUME Inv, NEW c \in Calls, Ask(c)
  PROVE  Inv' /\ ListIsRecent'
<1>0. /\ at[c] = "idle" /\ told' = Nothing
      /\ UNCHANGED <<world, cache, chain, jobs, faulty, did>>
      /\ UNCHANGED world /\ cache' = cache /\ ChainStep(c) /\ job' = job
  BY DEF Ask, ChainStep, jobs
<1>1. job[c] = NoJob /\ result[c] # "ok" /\ TypeOK /\ breaker \in Breakers
  BY <1>0 DEF Inv, CallFits, TypeOK
<1>2. told' \in Tellings /\ ListIsRecent' /\ CacheFits' /\ cache' \in Caches
  BY <1>0, NothingTold, CacheKept
<1>3. CASE kind[c] = "list" /\ Goes(c, "get") /\ UNCHANGED breaker
  <2>1. Moved(c, "get", result[c], age[c])
    BY <1>1, <1>3, GoesMoved DEF Places
  <2>2. CallFits(c)'
    BY <1>0, <1>1, <1>3, <2>1 DEF Moved, CallFits
  <2>3. ListFits(c)' /\ ChainFits(c)'
    BY <2>1, Elsewhere
  <2> QED
    BY <1>0, <1>1, <1>2, <1>3, <2>1, <2>2, <2>3, CallStep
<1>4. CASE kind[c] # "list" /\ breaker' = Entered /\ Goes(c, "add")
  <2>1. Moved(c, "add", result[c], age[c])
    BY <1>1, <1>4, GoesMoved DEF Places
  <2>2. CallFits(c)'
    BY <1>0, <1>1, <1>4, <2>1 DEF Moved, CallFits
  <2>3. ListFits(c)' /\ ChainFits(c)'
    BY <1>4, <2>1, Elsewhere
  <2>4. breaker' \in Breakers
    BY <1>1, <1>4, BreakerTypes
  <2> QED
    BY <1>0, <1>2, <2>1, <2>2, <2>3, <2>4, CallStep
<1>5. CASE kind[c] # "list" /\ Ends(c, "refused") /\ UNCHANGED breaker
  <2>1. Moved(c, "answered", "refused", 0)
    BY <1>1, <1>5, EndsMoved DEF Results
  <2>2. CallFits(c)'
    BY <2>1 DEF Moved, CallFits
  <2>3. ListFits(c)' /\ ChainFits(c)'
    BY <2>1, Elsewhere
  <2> QED
    BY <1>0, <1>1, <1>2, <1>5, <2>1, <2>2, <2>3, CallStep
<1> QED
  BY <1>3, <1>4, <1>5 DEF Ask

\* The cached list is told.
LEMMA CachedTold ==
  ASSUME Inv, cache.kept, Tells(cache.list, cache.late)
  PROVE  told' \in Tellings /\ ListIsRecent'
<1>1. cache.list \in BOOLEAN /\ cache.late \in BOOLEAN /\ cache.age \in Nat /\ since \in Nat
  BY DEF Inv, TypeOK, Caches
<1>2. cache.late \/ cache.list = exists \/ since < Limit + TTL
  <2>1. cache.age < TTL /\ (cache.late \/ cache.list = exists \/ since <= cache.age + Limit)
    BY DEF Inv, CacheFits
  <2>2. since <= cache.age + Limit => since < Limit + TTL
    BY <1>1, <2>1, EvolutionAssumption
  <2> QED
    BY <2>1, <2>2, Zenon
<1> QED
  BY <1>1, <1>2, OldList

LEMMA GetKeeps ==
  ASSUME Inv, NEW c \in Calls, Get(c)
  PROVE  Inv' /\ ListIsRecent'
<1>0. /\ at[c] = "get" /\ cache' = cache /\ UNCHANGED world /\ breaker' = breaker /\ job' = job
      /\ UNCHANGED <<jobs, world, did, faulty>>
  BY DEF Get, jobs
<1>1. /\ kind[c] = "list" /\ job[c] = NoJob /\ result[c] # "ok" /\ TypeOK
      /\ breaker' \in Breakers
  BY <1>0 DEF Inv, CallFits, TypeOK
<1>2. CacheFits' /\ cache' \in Caches
  BY <1>0, CacheKept
<1>3. CASE cache.kept /\ Ends(c, "ok") /\ Tells(cache.list, cache.late) /\ UNCHANGED chain
  <2>1. Moved(c, "answered", "ok", 0)
    BY <1>1, <1>3, EndsMoved DEF Results
  <2>2. CallFits(c)'
    BY <1>1, <2>1 DEF Moved, CallFits
  <2>3. ListFits(c)' /\ ChainFits(c)'
    BY <2>1, Elsewhere
  <2>4. told' \in Tellings /\ ListIsRecent'
    BY <1>3, CachedTold
  <2>5. ChainStep(c)
    BY <1>3 DEF ChainStep
  <2> QED
    BY <1>0, <1>1, <1>2, <2>1, <2>2, <2>3, <2>4, <2>5, CallStep
<1>4. CASE Goes(c, "chain") /\ chain' = Append(chain, c) /\ told' = Nothing
  <2>1. Moved(c, "chain", result[c], age[c])
    BY <1>1, <1>4, GoesMoved DEF Places
  <2>2. CallFits(c)'
    BY <1>0, <1>1, <2>1 DEF Moved, CallFits
  <2>3. ListFits(c)'
    BY <2>1 DEF Moved, ListFits
  <2>4. ChainFits(c)'
    <3>1. \E k \in DOMAIN chain' : chain'[k] = c
      <4>1. chain \in Seq(Calls)
        BY DEF Inv, TypeOK
      <4>2. /\ DOMAIN chain' = 1 .. Len(chain) + 1 /\ Len(chain) \in Nat
            /\ chain'[Len(chain) + 1] = c
        BY <1>4, <4>1, AppendFacts
      <4> QED
        BY <4>2
    <3> QED
      BY <2>1, <3>1 DEF Moved, ChainFits
  <2>5. told' \in Tellings /\ ListIsRecent' /\ ChainStep(c)
    BY <1>4, NothingTold DEF ChainStep
  <2> QED
    BY <1>0, <1>1, <1>2, <2>1, <2>2, <2>3, <2>4, <2>5, CallStep
<1> QED
  BY <1>3, <1>4 DEF Get

LEMMA AgainKeeps ==
  ASSUME Inv, NEW c \in Calls, Again(c)
  PROVE  Inv' /\ ListIsRecent'
<1>0. /\ at[c] = "chain" /\ Head(chain) = c
      /\ cache' = cache /\ UNCHANGED world /\ job' = job
      /\ UNCHANGED <<jobs, world, did, faulty>>
  BY DEF Again, jobs
<1>1. /\ kind[c] = "list" /\ job[c] = NoJob /\ result[c] # "ok" /\ TypeOK
      /\ breaker \in Breakers /\ chain \in Seq(Calls)
  BY <1>0 DEF Inv, CallFits, TypeOK
<1>2. CacheFits' /\ cache' \in Caches
  BY <1>0, CacheKept
<1>3. chain # <<>>
  <2>1. \E k \in DOMAIN chain : chain[k] = c
    BY <1>0, <1>1 DEF Inv, ChainFits
  <2> QED
    BY <2>1
<1>4. CASE /\ cache.kept /\ Ends(c, "ok") /\ Tells(cache.list, cache.late) /\ Leaves(c)
           /\ UNCHANGED breaker
  <2>1. Moved(c, "answered", "ok", 0)
    BY <1>1, <1>4, EndsMoved DEF Results
  <2>2. CallFits(c)'
    BY <1>1, <2>1 DEF Moved, CallFits
  <2>3. ListFits(c)' /\ ChainFits(c)'
    BY <2>1, Elsewhere
  <2>4. told' \in Tellings /\ ListIsRecent'
    BY <1>4, CachedTold
  <2>5. ChainStep(c) /\ breaker' \in Breakers
    BY <1>0, <1>1, <1>3, <1>4 DEF ChainStep, Leaves
  <2> QED
    BY <1>0, <1>1, <1>2, <2>1, <2>2, <2>3, <2>4, <2>5, CallStep
<1>5. CASE breaker' = Entered /\ Goes(c, "add") /\ told' = Nothing /\ UNCHANGED chain
  <2>1. Moved(c, "add", result[c], age[c])
    BY <1>1, <1>5, GoesMoved DEF Places
  <2>2. CallFits(c)'
    BY <1>0, <1>1, <2>1 DEF Moved, CallFits
  <2>3. ListFits(c)' /\ ChainFits(c)'
    BY <1>0, <1>3, <1>5, <2>1 DEF Moved, ListFits, ChainFits
  <2>4. told' \in Tellings /\ ListIsRecent' /\ ChainStep(c) /\ breaker' \in Breakers
    BY <1>1, <1>5, NothingTold, BreakerTypes DEF ChainStep
  <2> QED
    BY <1>0, <1>1, <1>2, <2>1, <2>2, <2>3, <2>4, CallStep
<1>6. CASE Ends(c, "refused") /\ Leaves(c) /\ told' = Nothing /\ UNCHANGED breaker
  <2>1. Moved(c, "answered", "refused", 0)
    BY <1>1, <1>6, EndsMoved DEF Results
  <2>2. CallFits(c)'
    BY <2>1 DEF Moved, CallFits
  <2>3. ListFits(c)' /\ ChainFits(c)'
    BY <2>1, Elsewhere
  <2>4. told' \in Tellings /\ ListIsRecent' /\ ChainStep(c) /\ breaker' \in Breakers
    BY <1>0, <1>1, <1>3, <1>6, NothingTold DEF ChainStep, Leaves
  <2> QED
    BY <1>0, <1>1, <1>2, <2>1, <2>2, <2>3, <2>4, CallStep
<1> QED
  BY <1>4, <1>5, <1>6 DEF Again

\* A list call that waits, or has its list, leaves the chain as its first.
LEMMA LeavesFirst ==
  ASSUME Inv, NEW c \in Calls, at[c] \in {"wait", "set"}, Leaves(c)
  PROVE  ChainStep(c)
BY DEF Inv, ChainFits, Leaves, ChainStep

LEMMA FailsKeeps ==
  ASSUME Inv, NEW c \in Calls, at[c] = "wait", Fails(c)
  PROVE  Inv' /\ ListIsRecent'
<1>0. /\ Ends(c, "error") /\ breaker' = AfterFailure /\ Leaves(c) /\ told' = Nothing
      /\ cache' = cache /\ UNCHANGED world /\ job' = job
      /\ UNCHANGED <<jobs, world, did, faulty>>
  BY DEF Fails, jobs
<1>1. TypeOK /\ breaker \in Breakers
  BY DEF Inv, TypeOK
<1>2. CacheFits' /\ cache' \in Caches /\ told' \in Tellings /\ ListIsRecent'
  BY <1>0, CacheKept, NothingTold
<1>3. Moved(c, "answered", "error", 0)
  BY <1>0, <1>1, EndsMoved DEF Results
<1>4. CallFits(c)'
  BY <1>3 DEF Moved, CallFits
<1>5. ListFits(c)' /\ ChainFits(c)'
  BY <1>3, Elsewhere
<1>6. ChainStep(c) /\ breaker' \in Breakers
  BY <1>0, <1>1, LeavesFirst, BreakerTypes
<1> QED
  BY <1>0, <1>2, <1>3, <1>4, <1>5, <1>6, CallStep

LEMMA HearKeeps ==
  ASSUME Inv, NEW c \in Calls, Hear(c)
  PROVE  Inv' /\ ListIsRecent'
<1>0. at[c] = "wait"
  BY DEF Hear
<1>1. CASE Fails(c)
  BY <1>0, <1>1, FailsKeeps
<1>2. CASE /\ job[c].at = "done" /\ breaker' = AfterSuccess
           /\ \/ kind[c] = "list" /\ Goes(c, "set")
              \/ kind[c] = "create" /\ Goes(c, "drop")
              \/ kind[c] # "list" /\ Ends(c, "ok")
           /\ told' = Nothing
           /\ UNCHANGED <<world, cache, chain, jobs, faulty, did>>
  <2>0. /\ cache' = cache /\ UNCHANGED world /\ job' = job /\ ChainStep(c) /\ chain' = chain
        /\ UNCHANGED <<jobs, world, did, faulty>> /\ exists' = exists /\ since' = since
    BY <1>2 DEF jobs, ChainStep, world
  <2>1. TypeOK /\ breaker' \in Breakers /\ result[c] # "ok"
    BY <1>0, <1>2, BreakerTypes DEF Inv, TypeOK, CallFits
  <2>2. CacheFits' /\ cache' \in Caches /\ told' \in Tellings /\ ListIsRecent'
    BY <1>2, <2>0, CacheKept, NothingTold
  <2>3. CASE kind[c] = "list" /\ Goes(c, "set")
    <3>1. Moved(c, "set", result[c], age[c])
      BY <2>1, <2>3, GoesMoved DEF Places
    <3>2. CallFits(c)'
      BY <1>2, <2>0, <2>1, <2>3, <3>1 DEF Moved, CallFits
    <3>3. ListFits(c)'
      BY <1>0, <2>0, <2>3, <3>1 DEF Inv, Moved, ListFits, Succeeded
    <3>4. ChainFits(c)'
      BY <1>0, <2>0, <2>3, <3>1 DEF Inv, Moved, ChainFits
    <3> QED
      BY <2>0, <2>1, <2>2, <3>1, <3>2, <3>3, <3>4, CallStep
  <2>4. CASE kind[c] = "create" /\ Goes(c, "drop")
    <3>1. Moved(c, "drop", result[c], age[c])
      BY <2>1, <2>4, GoesMoved DEF Places
    <3>2. CallFits(c)'
      BY <1>2, <2>0, <2>1, <2>4, <3>1 DEF Moved, CallFits
    <3>3. ListFits(c)' /\ ChainFits(c)'
      BY <3>1, Elsewhere
    <3> QED
      BY <2>0, <2>1, <2>2, <3>1, <3>2, <3>3, CallStep
  <2>5. CASE kind[c] # "list" /\ Ends(c, "ok")
    <3>1. Moved(c, "answered", "ok", 0)
      BY <2>1, <2>5, EndsMoved DEF Results
    <3>2. CallFits(c)'
      BY <1>2, <2>0, <2>5, <3>1 DEF Moved, CallFits
    <3>3. ListFits(c)' /\ ChainFits(c)'
      BY <3>1, Elsewhere
    <3> QED
      BY <2>0, <2>1, <2>2, <3>1, <3>2, <3>3, CallStep
  <2> QED
    BY <1>2, <2>3, <2>4, <2>5
<1> QED
  BY <1>1, <1>2 DEF Hear

LEMMA SetKeeps ==
  ASSUME Inv, NEW c \in Calls, Set(c)
  PROVE  Inv' /\ ListIsRecent'
<1> DEFINE late == age[c] > Limit
<1>0. /\ at[c] = "set" /\ Ends(c, "ok") /\ Leaves(c) /\ Tells(job[c].list, late)
      /\ cache' = [kept |-> TRUE, list |-> job[c].list, age |-> 0, late |-> late]
      /\ UNCHANGED world /\ job' = job /\ breaker' = breaker
      /\ UNCHANGED <<jobs, world, did, faulty>> /\ exists' = exists /\ since' = since
  BY DEF Set, jobs, world
<1>1. /\ TypeOK /\ breaker' \in Breakers /\ job[c].list \in BOOLEAN /\ late \in BOOLEAN
      /\ age[c] \in Nat /\ since \in Nat
  <2>1. late \in BOOLEAN
    OBVIOUS
  <2>2. age[c] \in Nat /\ since \in Nat
    BY DEF Inv, TypeOK
  <2>3. TypeOK /\ breaker' \in Breakers /\ job[c] \in JobRecords
    BY <1>0 DEF Inv, TypeOK
  <2> QED
    BY <2>1, <2>2, <2>3 DEF JobRecords
<1>2. kind[c] = "list" /\ job[c].at = "done"
  BY <1>0 DEF Inv, CallFits
<1>3. late \/ job[c].list = exists \/ since <= Limit
  <2>1. ~late => age[c] <= Limit
    BY <1>1, EvolutionAssumption
  <2>2. age[c] <= Limit => job[c].list = exists \/ since <= age[c]
    BY <1>0, <1>2 DEF Inv, ListFits, Succeeded
  <2>3. age[c] <= Limit /\ since <= age[c] => since <= Limit
    BY <1>1, EvolutionAssumption
  <2> QED
    BY <2>1, <2>2, <2>3, Zenon
<1> HIDE DEF late
<1>4. told' \in Tellings /\ ListIsRecent'
  <2>1. since <= Limit => since < Limit + TTL
    BY <1>1, EvolutionAssumption
  <2> QED
    BY <1>0, <1>1, <1>3, <2>1, OldList
<1>5. cache' \in Caches
  <2>1. 0 \in 0 .. TTL
    BY EvolutionAssumption
  <2> QED
    BY <1>0, <1>1, <2>1 DEF Caches
<1>6. CacheFits'
  <2>1. /\ cache'.age = 0 /\ cache'.late = late /\ cache'.list = job[c].list
        /\ 0 < TTL /\ 0 + Limit = Limit
    BY <1>0, EvolutionAssumption
  <2> QED
    BY <1>0, <1>3, <2>1 DEF CacheFits
<1>7. Moved(c, "answered", "ok", 0)
  BY <1>0, <1>1, EndsMoved DEF Results
<1>8. CallFits(c)'
  BY <1>2, <1>7 DEF Moved, CallFits
<1>9. ListFits(c)' /\ ChainFits(c)'
  BY <1>7, Elsewhere
<1>10. ChainStep(c)
  BY <1>0, LeavesFirst
<1> QED
  BY <1>0, <1>1, <1>4, <1>5, <1>6, <1>7, <1>8, <1>9, <1>10, CallStep

LEMMA DropKeeps ==
  ASSUME Inv, NEW c \in Calls, Drop(c)
  PROVE  Inv' /\ ListIsRecent'
<1>0. /\ at[c] = "drop" /\ Ends(c, "ok") /\ told' = Nothing /\ cache' = NoList /\ job' = job
      /\ breaker' = breaker /\ UNCHANGED <<jobs, world, did, faulty>> /\ ChainStep(c)
  BY DEF Drop, jobs, ChainStep
<1>1. TypeOK /\ breaker' \in Breakers /\ job[c].at = "done"
  BY <1>0 DEF Inv, TypeOK, CallFits
<1>2. NoList \in Caches /\ ~NoList.kept
  BY EvolutionAssumption DEF NoList, Caches
<1>3. cache' \in Caches /\ CacheFits' /\ told' \in Tellings /\ ListIsRecent'
  BY <1>0, <1>2, NothingTold DEF CacheFits
<1>4. Moved(c, "answered", "ok", 0)
  BY <1>0, <1>1, EndsMoved DEF Results
<1>5. CallFits(c)'
  BY <1>0, <1>1, <1>4 DEF Moved, CallFits
<1>6. ListFits(c)' /\ ChainFits(c)'
  BY <1>4, Elsewhere
<1> QED
  BY <1>0, <1>1, <1>3, <1>4, <1>5, <1>6, CallStep

----------------------------------------------------------------------------
\* The queue.

LEMMA NoJobFacts ==
  /\ NoJob \in JobRecords /\ NoJob.at = "none" /\ NoJob.stage = "main"
<1>1. 1 \in 1 .. HttpTries /\ 1 \in 1 .. Attempts
  BY EvolutionAssumption
<1> QED
  BY <1>1 DEF NoJob, JobRecords, JobPlaces, Stages

LEMMA QueueSame ==
  ASSUME Inv, NEW c \in Calls, NEW r, job' = [job EXCEPT ![c] = r],
         job[c].at # "waiting", queue' = queue
  PROVE  queue' \in Seq(Calls) /\ QueueFits'
<1>1. queue \in Seq(Calls) /\ job \in [Calls -> JobRecords]
  BY DEF Inv, TypeOK
<1>2. \A i \in DOMAIN queue : queue[i] \in Calls /\ job[queue[i]].at = "waiting"
  BY <1>1 DEF Inv, QueueFits
<1>3. \A i \in DOMAIN queue : job'[queue[i]] = job[queue[i]]
  BY <1>1, <1>2
<1> QED
  BY <1>1, <1>2, <1>3 DEF Inv, QueueFits

LEMMA QueueAppend ==
  ASSUME Inv, NEW c \in Calls, NEW r, job' = [job EXCEPT ![c] = r],
         job[c].at # "waiting", r.at = "waiting", queue' = Append(queue, c)
  PROVE  queue' \in Seq(Calls) /\ QueueFits'
<1>1. queue \in Seq(Calls) /\ job \in [Calls -> JobRecords]
  BY DEF Inv, TypeOK
<1>2. \A i \in DOMAIN queue : queue[i] \in Calls /\ job[queue[i]].at = "waiting"
  BY <1>1 DEF Inv, QueueFits
<1>3. \A i \in DOMAIN queue : queue[i] # c /\ job'[queue[i]] = job[queue[i]]
  BY <1>1, <1>2
<1>4. /\ queue' \in Seq(Calls) /\ DOMAIN queue' = 1 .. Len(queue) + 1
      /\ DOMAIN queue = 1 .. Len(queue) /\ Len(queue) \in Nat
      /\ queue'[Len(queue) + 1] = c /\ \A k \in DOMAIN queue : queue'[k] = queue[k]
  BY <1>1, AppendFacts
<1>5. job'[c].at = "waiting"
  BY <1>1
<1>6. \A i \in DOMAIN queue' : i \in DOMAIN queue \/ i = Len(queue) + 1
  BY <1>4
<1>7. \A i \in DOMAIN queue' : job'[queue'[i]].at = "waiting"
  BY <1>2, <1>3, <1>4, <1>5, <1>6
<1>8. \A i, k \in DOMAIN queue' : queue'[i] = queue'[k] => i = k
  BY <1>3, <1>4, <1>6 DEF Inv, QueueFits
<1> QED
  BY <1>4, <1>7, <1>8 DEF QueueFits

LEMMA QueueTake ==
  ASSUME Inv, NEW c \in Calls, NEW r, job' = [job EXCEPT ![c] = r],
         NEW i \in DOMAIN queue, queue[i] = c, queue' = RemoveAt(queue, i)
  PROVE  queue' \in Seq(Calls) /\ QueueFits'
<1>1. queue \in Seq(Calls) /\ job \in [Calls -> JobRecords]
  BY DEF Inv, TypeOK
<1>2. /\ \A k \in DOMAIN queue : queue[k] \in Calls /\ job[queue[k]].at = "waiting"
      /\ \A k, m \in DOMAIN queue : queue[k] = queue[m] => k = m
  BY <1>1 DEF Inv, QueueFits
<1>3. /\ queue' \in Seq(Calls) /\ DOMAIN queue' = 1 .. Len(queue) - 1
      /\ \A k \in DOMAIN queue' : queue'[k] = IF k < i THEN queue[k] ELSE queue[k + 1]
  BY <1>1, RemoveAtFacts
<1>4. DOMAIN queue = 1 .. Len(queue) /\ Len(queue) \in Nat
  BY <1>1
<1> DEFINE from(k) == IF k < i THEN k ELSE k + 1
<1>5. /\ \A k \in DOMAIN queue' : from(k) \in DOMAIN queue /\ from(k) # i
      /\ \A k, m \in DOMAIN queue' : from(k) = from(m) => k = m
  BY <1>3, <1>4
<1>6. \A k \in DOMAIN queue' : queue'[k] = queue[from(k)]
  BY <1>3
<1> HIDE DEF from
<1>7. \A k \in DOMAIN queue' : job'[queue'[k]].at = "waiting"
  <2> SUFFICES ASSUME NEW k \in DOMAIN queue' PROVE job'[queue'[k]].at = "waiting"
    OBVIOUS
  <2>1. queue'[k] \in Calls /\ job[queue'[k]].at = "waiting" /\ queue'[k] # c
    BY <1>2, <1>5, <1>6
  <2> QED
    BY <1>1, <2>1
<1>8. \A k, m \in DOMAIN queue' : queue'[k] = queue'[m] => k = m
  BY <1>2, <1>5, <1>6
<1> QED
  BY <1>3, <1>7, <1>8 DEF QueueFits

----------------------------------------------------------------------------
\* The steps that a call and its job take together.

LEMMA BothStep ==
  ASSUME Inv, NEW c \in Calls, NEW p, NEW q, NEW a, Moved(c, p, q, a),
         NEW r \in JobRecords, job' = [job EXCEPT ![c] = r],
         UNCHANGED <<world, breaker, cache, chain, faulty, did>>, told' = Nothing,
         queue' \in Seq(Calls), QueueFits',
         CallFits(c)', JobFits(c)', ListFits(c)', ChainFits(c)'
  PROVE  Inv' /\ ListIsRecent'
<1>1. /\ UNCHANGED <<breaker, cache, chain, exists, since, did, redis, worker, faults>>
  BY DEF world, faulty
<1>2. job' \in [Calls -> JobRecords] /\ \A d \in Calls \ {c} : job'[d] = job[d]
  BY DEF Inv, TypeOK
<1>3. kind' = kind /\ CallTypes'
  BY Zenon DEF Moved
<1>4. \A d \in Calls \ {c} : at'[d] = at[d] /\ result'[d] = result[d] /\ age'[d] = age[d]
  BY Zenon DEF Moved
<1>5. \A d \in Calls \ {c} : (CallFits(d) /\ JobFits(d) /\ ListFits(d))'
  BY <1>1, <1>2, <1>3, <1>4, OthersKept
<1>6. \A d \in Calls \ {c} : ChainFits(d)'
  BY <1>1, <1>3, <1>4, ChainOthers DEF ChainStep
<1>7. CacheFits'
  BY <1>1 DEF Inv, CacheFits
<1>8. told' \in Tellings /\ ListIsRecent'
  BY NothingTold
<1>9. TypeOK'
  BY <1>1, <1>2, <1>3, <1>8, Zenon DEF Inv, TypeOK, CallTypes
<1> QED
  BY <1>5, <1>6, <1>7, <1>8, <1>9, Zenon DEF Inv

LEMMA RenewKeeps ==
  ASSUME Inv, NEW c \in Calls, Renew(c)
  PROVE  Inv' /\ ListIsRecent'
<1>1. /\ at[c] = "answered" /\ kind[c] = "list" /\ job[c].at \in {"none", "done", "failed"}
      /\ at' = [at EXCEPT ![c] = "idle"] /\ result' = [result EXCEPT ![c] = "none"]
      /\ job' = [job EXCEPT ![c] = NoJob] /\ kind' = kind /\ age' = age /\ queue' = queue
      /\ UNCHANGED <<world, breaker, cache, chain, faulty, did>> /\ told' = Nothing
  BY DEF Renew
<1>2. Moved(c, "idle", "none", age[c])
  BY <1>1 DEF Inv, TypeOK, Moved, CallTypes, Places, Results
<1>3. queue' \in Seq(Calls) /\ QueueFits'
  BY <1>1, QueueSame
<1>4. job'[c] = NoJob
  BY <1>1 DEF Inv, TypeOK
<1>5. CallFits(c)'
  BY <1>2, <1>4 DEF Moved, CallFits
<1>6. JobFits(c)'
  BY <1>1, <1>4, NoJobFacts DEF JobFits, StageFits, Succeeded
<1>7. ListFits(c)' /\ ChainFits(c)'
  BY <1>2, Elsewhere
<1> QED
  BY <1>1, <1>2, <1>3, <1>5, <1>6, <1>7, NoJobFacts, BothStep

LEMMA AddKeeps ==
  ASSUME Inv, NEW c \in Calls, Add(c)
  PROVE  Inv' /\ ListIsRecent'
<1> DEFINE r == [job[c] EXCEPT !.at = "waiting"]
<1>1. /\ at[c] = "add" /\ job' = [job EXCEPT ![c] = r] /\ queue' = Append(queue, c)
      /\ Goes(c, "wait") /\ told' = Nothing /\ chain' = chain /\ kind' = kind
      /\ UNCHANGED <<world, breaker, cache, chain, faulty, did>>
  BY DEF Add, Goes
<1>2. job[c] = NoJob /\ result[c] # "ok" /\ TypeOK
  BY <1>1 DEF Inv, CallFits
<1>3. /\ r \in JobRecords /\ r.at = "waiting" /\ r.stage = "main" /\ job[c].at = "none"
      /\ job'[c] = r
  <2>1. r = [NoJob EXCEPT !.at = "waiting"]
    BY <1>2
  <2>2. r \in JobRecords
    BY <2>1, NoJobFacts DEF JobRecords, JobPlaces
  <2>3. r.at = "waiting" /\ r.stage = "main" /\ job[c].at = "none"
    BY <1>2, <2>1, NoJobFacts DEF NoJob
  <2>4. job'[c] = r
    BY <1>1, <1>2 DEF TypeOK
  <2> QED
    BY <2>2, <2>3, <2>4
<1> HIDE DEF r
<1>4. Moved(c, "wait", result[c], age[c])
  BY <1>1, <1>2, GoesMoved DEF Places
<1>5. queue' \in Seq(Calls) /\ QueueFits'
  BY <1>1, <1>3, QueueAppend
<1>6. CallFits(c)'
  BY <1>2, <1>4 DEF Moved, CallFits
<1>7. JobFits(c)'
  BY <1>1, <1>3 DEF JobFits, StageFits, Succeeded
<1>8. ListFits(c)'
  BY <1>3 DEF ListFits, Succeeded
<1>9. ChainFits(c)'
  BY <1>1, <1>4 DEF Inv, Moved, ChainFits
<1> QED
  BY <1>1, <1>3, <1>4, <1>5, <1>6, <1>7, <1>8, <1>9, BothStep

----------------------------------------------------------------------------
\* The steps of the worker.

Busy == {"waiting", "active", "delayed", "stalled"}

\* The caller of a job that is not over waits for it or has given up.
LEMMA BusyFits ==
  ASSUME Inv, NEW c \in Calls, job[c].at \in Busy, UNCHANGED calls
  PROVE  CallFits(c)' /\ at[c] \in {"wait", "answered"}
<1>1. at[c] \notin {"idle", "get", "chain", "add", "set", "drop"}
  BY NoJobFacts DEF Inv, CallFits, Busy
<1>2. ~(result[c] = "ok" /\ kind[c] # "list") /\ (result[c] = "ok" => at[c] = "answered")
  BY DEF Inv, CallFits, Busy
<1>3. at[c] \in {"wait", "answered"}
  BY <1>1 DEF Inv, TypeOK, Places
<1> QED
  BY <1>1, <1>2, <1>3 DEF CallFits, calls

LEMMA TakeKeeps ==
  ASSUME Inv, NEW c \in Calls, Take(c)
  PROVE  Inv' /\ ListIsRecent'
<1> DEFINE r == [job[c] EXCEPT !.at = "active", !.stage = FirstStage(c), !.tries = 1, !.inner = 1]
<1>1. /\ job' = [job EXCEPT ![c] = r] /\ told' = Nothing
      /\ UNCHANGED <<world, breaker, cache, chain, calls, faulty, did>> /\ UNCHANGED calls
      /\ kind' = kind
  BY DEF Take, calls
<1>2. PICK i \in DOMAIN queue : queue[i] = c /\ queue' = RemoveAt(queue, i)
  BY Zenon DEF Take
<1>3. job[c].at = "waiting" /\ job[c] \in JobRecords /\ job \in [Calls -> JobRecords]
  BY <1>2 DEF Inv, QueueFits, TypeOK
<1>4. FirstStage(c) \in Stages /\ StageFits(kind[c], FirstStage(c)) /\ FirstStage(c) # "ok"
  BY DEF FirstStage, Stages, StageFits
<1>5. r \in JobRecords
  <2>1. 1 \in 1 .. HttpTries
    BY EvolutionAssumption
  <2> QED
    BY <1>3, <1>4, <2>1 DEF JobRecords, JobPlaces
<1>6. r.at = "active" /\ r.stage = FirstStage(c) /\ job'[c] = r
  BY <1>1, <1>3 DEF JobRecords
<1> HIDE DEF r
<1>7. queue' \in Seq(Calls) /\ QueueFits'
  BY <1>1, <1>2, QueueTake
<1>8. CallFits(c)'
  BY <1>1, <1>3, BusyFits DEF Busy
<1>9. JobFits(c)' /\ ListFits(c)'
  BY <1>1, <1>4, <1>6 DEF JobFits, ListFits, Succeeded
<1>10. Inv'
  BY <1>1, <1>5, <1>7, <1>8, <1>9, JobStep
<1> QED
  BY <1>1, <1>10, NothingTold

LEMMA FinishKeeps ==
  ASSUME Inv, NEW c \in Calls, Finish(c)
  PROVE  Inv' /\ ListIsRecent'
<1> DEFINE j == job[c]
           r == IF j.stage = "ok" THEN [NoJob EXCEPT !.at = "done", !.list = j.list]
                ELSE IF j.attempt < Attempts
                  THEN [NoJob EXCEPT !.at = "delayed", !.attempt = j.attempt + 1, !.stalled = j.stalled]
                ELSE [NoJob EXCEPT !.at = "failed"]
<1>1. /\ job' = [job EXCEPT ![c] = r] /\ told' = Nothing /\ queue' = queue
      /\ UNCHANGED <<world, breaker, cache, chain, calls, faulty, did>> /\ UNCHANGED calls
      /\ kind' = kind /\ exists' = exists /\ since' = since /\ did' = did /\ at' = at /\ age' = age
      /\ j.at = "active"
  BY DEF Finish, calls, world
<1>2. j \in JobRecords /\ job \in [Calls -> JobRecords]
  BY DEF Inv, TypeOK
<1>3. j.list \in BOOLEAN /\ j.stalled \in BOOLEAN /\ j.attempt \in 1 .. Attempts
  BY <1>2 DEF JobRecords
<1>4. /\ r \in JobRecords /\ r.stage = "main"
      /\ r.at = "done" => j.stage = "ok" /\ r.list = j.list
  <2>1. CASE j.stage = "ok"
    <3>1. r = [NoJob EXCEPT !.at = "done", !.list = j.list]
      BY <2>1
    <3> HIDE DEF r, j
    <3> QED
      BY <1>3, <2>1, <3>1, NoJobFacts DEF JobRecords, JobPlaces
  <2>2. CASE j.stage # "ok" /\ j.attempt < Attempts
    <3>1. r = [NoJob EXCEPT !.at = "delayed", !.attempt = j.attempt + 1, !.stalled = j.stalled]
      BY <2>2
    <3>2. j.attempt + 1 \in 1 .. Attempts
      BY <1>3, <2>2, EvolutionAssumption
    <3> HIDE DEF r, j
    <3> QED
      BY <1>3, <3>1, <3>2, NoJobFacts DEF JobRecords, JobPlaces
  <2>3. CASE j.stage # "ok" /\ ~(j.attempt < Attempts)
    <3>1. r = [NoJob EXCEPT !.at = "failed"]
      BY <2>3
    <3> HIDE DEF r, j
    <3> QED
      BY <3>1, NoJobFacts DEF JobRecords, JobPlaces
  <2> QED
    BY <2>1, <2>2, <2>3
<1>5. job'[c] = r
  BY <1>1, <1>2
<1> HIDE DEF r
<1>6. queue' \in Seq(Calls) /\ QueueFits'
  BY <1>1, QueueSame
<1>7. CallFits(c)'
  BY <1>1, BusyFits DEF Busy
<1>8. JobFits(c)'
  BY <1>1, <1>4, <1>5 DEF Inv, JobFits, StageFits, Succeeded
<1>9. ListFits(c)'
  BY <1>1, <1>4, <1>5 DEF Inv, ListFits, Succeeded
<1>10. Inv'
  BY <1>1, <1>4, <1>6, <1>7, <1>8, <1>9, JobStep
<1> QED
  BY <1>1, <1>10, NothingTold

LEMMA RequeueKeeps ==
  ASSUME Inv, NEW c \in Calls, Requeue(c)
  PROVE  Inv' /\ ListIsRecent'
<1> DEFINE j == job[c]
           again == ~(j.at = "stalled" /\ j.stalled)
           r == IF again THEN [j EXCEPT !.at = "waiting", !.stalled = j.at = "stalled" \/ @]
                         ELSE [NoJob EXCEPT !.at = "failed"]
<1>1. /\ job' = [job EXCEPT ![c] = r] /\ told' = Nothing
      /\ queue' = IF again THEN Append(queue, c) ELSE queue
      /\ UNCHANGED <<world, breaker, cache, chain, calls, faulty, did>> /\ UNCHANGED calls
      /\ kind' = kind /\ did' = did /\ j.at \in {"delayed", "stalled"}
      /\ exists' = exists /\ since' = since /\ at' = at /\ age' = age
  BY DEF Requeue, calls, world
<1>2. j \in JobRecords /\ job \in [Calls -> JobRecords]
  BY DEF Inv, TypeOK
<1>3. (j.at = "stalled" \/ j.stalled) \in BOOLEAN
  BY Zenon
<1>4. CASE again
  <2>1. r = [j EXCEPT !.at = "waiting", !.stalled = j.at = "stalled" \/ j.stalled]
    BY <1>4, Zenon
  <2> HIDE DEF r, j, again
  <2>2. r \in JobRecords /\ r.at = "waiting" /\ r.stage = j.stage /\ r.list = j.list
    BY <1>2, <1>3, <2>1 DEF JobRecords, JobPlaces
  <2>3. job'[c] = r
    BY <1>1, <1>2
  <2>4. queue' \in Seq(Calls) /\ QueueFits'
    BY <1>1, <1>4, <2>2, QueueAppend DEF j
  <2>5. CallFits(c)'
    BY <1>1, BusyFits DEF Busy, j
  <2>6. JobFits(c)'
    BY <1>1, <2>2, <2>3 DEF Inv, JobFits, Succeeded, j
  <2>7. ListFits(c)'
    BY <1>1, <2>2, <2>3 DEF Inv, ListFits, Succeeded, j
  <2> QED
    BY <1>1, <2>2, <2>4, <2>5, <2>6, <2>7, JobStep, NothingTold
<1>5. CASE ~again
  <2>1. r = [NoJob EXCEPT !.at = "failed"]
    BY <1>5, Zenon
  <2> HIDE DEF r, j, again
  <2>2. r \in JobRecords /\ r.at = "failed" /\ r.stage = "main"
    BY <2>1, NoJobFacts DEF JobRecords, JobPlaces
  <2>3. job'[c] = r
    BY <1>1, <1>2
  <2>4. queue' \in Seq(Calls) /\ QueueFits'
    BY <1>1, <1>5, QueueSame DEF j
  <2>5. CallFits(c)'
    BY <1>1, BusyFits DEF Busy, j
  <2>6. JobFits(c)' /\ ListFits(c)'
    BY <1>1, <2>2, <2>3 DEF JobFits, ListFits, StageFits, Succeeded
  <2> QED
    BY <1>1, <2>2, <2>4, <2>5, <2>6, JobStep, NothingTold
<1> QED
  BY <1>4, <1>5

----------------------------------------------------------------------------
\* The answers of Evolution.

\* What the answers may be, and that an answer of yes follows the effect.
LEMMA AnswerFacts ==
  ASSUME Inv, NEW op, NEW answer \in Answers(op), NEW effect \in Effects(op, answer)
  PROVE  /\ answer \in AllAnswers /\ effect \in BOOLEAN
         /\ answer = "ok" /\ op # "list" => effect = TRUE
<1>1. answer \in AllAnswers
  BY DEF Answers, AllAnswers
<1>2. effect \in BOOLEAN
  BY Zenon DEF Effects
<1>3. ASSUME answer = "ok", op # "list" PROVE effect = TRUE
  <2>1. (op = "create") # exists
    BY <1>3 DEF Answers
  <2>2. ~((op # "list" /\ (op = "create") = exists) \/ answer = "method")
    BY <1>3, <2>1
  <2>3. Effects(op, answer) = {TRUE}
    BY <1>3, <2>2, Zenon DEF Effects
  <2> QED
    BY <2>3
<1> QED
  BY <1>1, <1>2, <1>3

\* The instance is what it was, or has changed just now.
LEMMA BecomesFacts ==
  ASSUME Inv, NEW op, NEW effect \in BOOLEAN, Becomes(op, effect)
  PROVE  /\ exists' \in BOOLEAN /\ since' \in 0 .. Old
         /\ (exists' = exists /\ since' = since) \/ since' = 0
         /\ op = "list" => exists' = exists /\ since' = since
<1>1. exists \in BOOLEAN /\ since \in 0 .. Old /\ 0 \in 0 .. Old
  BY EvolutionAssumption DEF Inv, TypeOK, Old
<1>2. exists' \in BOOLEAN
  BY <1>1, Zenon DEF Becomes
<1>3. since' = IF exists' # exists THEN 0 ELSE since
  BY Zenon DEF Becomes
<1>4. op = "list" => exists' = exists
  BY Zenon DEF Becomes
<1> QED
  BY <1>1, <1>2, <1>3, <1>4

LEMMA RequestKeeps ==
  ASSUME Inv, NEW c \in Calls, Request(c)
  PROVE  Inv' /\ ListIsRecent'
<1> DEFINE op == Asked(c)
<1>0. PICK answer \in Answers(op) : \E effect \in Effects(op, answer) :
        /\ Becomes(op, effect)
        /\ job' = [job EXCEPT ![c] = [After(c, answer) EXCEPT !.list = op = "list" /\ exists]]
        /\ did' = IF effect /\ job[c].stage \in {"main", "main2", "afresh"} /\ op # "list"
                    THEN did \cup {c} ELSE did
  BY Zenon DEF Request
<1>1. PICK effect \in Effects(op, answer) :
        /\ Becomes(op, effect)
        /\ job' = [job EXCEPT ![c] = [After(c, answer) EXCEPT !.list = op = "list" /\ exists]]
        /\ did' = IF effect /\ job[c].stage \in {"main", "main2", "afresh"} /\ op # "list"
                    THEN did \cup {c} ELSE did
  BY <1>0, Zenon
<1>2. /\ job[c].at = "active" /\ job[c].stage \notin {"ok", "err"} /\ told' = Nothing
      /\ UNCHANGED <<breaker, cache, chain, calls, queue, faulty>> /\ UNCHANGED calls
      /\ queue' = queue /\ kind' = kind /\ at' = at /\ result' = result /\ age' = age
      /\ chain' = chain /\ cache' = cache
      /\ UNCHANGED <<redis, worker, faults>>
  BY DEF Request, calls, faulty
<1>3. /\ job \in [Calls -> JobRecords] /\ job[c] \in JobRecords /\ kind[c] \in Kinds
      /\ did \subseteq Calls /\ StageFits(kind[c], job[c].stage)
      /\ exists \in BOOLEAN /\ age \in [Calls -> 0 .. Limit + 1]
  BY DEF Inv, TypeOK, JobFits
<1>4. /\ answer \in AllAnswers /\ effect \in BOOLEAN
      /\ answer = "ok" /\ op # "list" => effect = TRUE
  BY AnswerFacts
<1>5. /\ exists' \in BOOLEAN /\ since' \in 0 .. Old
      /\ (exists' = exists /\ since' = since) \/ since' = 0
      /\ op = "list" => exists' = exists /\ since' = since
  BY <1>1, <1>4, BecomesFacts
<1> DEFINE j == After(c, answer)
           listed == op = "list" /\ exists
           r == [j EXCEPT !.list = listed]
<1>6. /\ Onward(job[c], j) /\ StageFits(kind[c], j.stage)
      /\ j.stage = "ok" => answer = "ok" /\ job[c].stage \in MainStages
  BY <1>2, <1>3, <1>4, AfterFacts
<1>7. listed \in BOOLEAN
  BY Zenon
<1>8. did' \subseteq Calls /\ did \subseteq did'
  BY <1>1, <1>3
<1>9. kind[c] # "list" <=> op # "list"
  BY <1>3 DEF Asked, StageFits
<1> HIDE DEF j, listed
<1>10. /\ r \in JobRecords /\ r.at = "active" /\ r.stage = j.stage /\ r.list = listed
       /\ job' = [job EXCEPT ![c] = r]
  <2>1. j \in JobRecords /\ j.at = "active"
    BY <1>2, <1>6 DEF Onward
  <2>2. r \in JobRecords /\ r.at = "active" /\ r.stage = j.stage /\ r.list = listed
    BY <1>7, <2>1 DEF JobRecords
  <2>3. job' = [job EXCEPT ![c] = r]
    BY <1>1 DEF j, listed
  <2> QED
    BY <2>2, <2>3
<1> HIDE DEF r
<1>11. /\ job' \in [Calls -> JobRecords] /\ job'[c] = r
       /\ \A d \in Calls \ {c} : job'[d] = job[d]
  BY <1>3, <1>10
<1>12. CallFits(c)'
  BY <1>2, BusyFits DEF Busy
<1>13. JobFits(c)'
  <2>1. StageFits(kind'[c], job'[c].stage)
    BY <1>2, <1>6, <1>10, <1>11
  <2>2. ASSUME kind'[c] # "list", job'[c].at = "done" \/ job'[c].stage = "ok" PROVE c \in did'
    <3>1. answer = "ok" /\ job[c].stage \in MainStages /\ op # "list"
      BY <1>2, <1>6, <1>9, <1>10, <1>11, <2>2
    <3> QED
      BY <1>1, <1>4, <3>1 DEF MainStages
  <2> QED
    BY <2>1, <2>2 DEF JobFits, Succeeded
<1>14. ListFits(c)'
  <2>1. kind'[c] = "list" => job'[c].list = exists'
    <3>1. kind[c] = "list" => op = "list" /\ exists' = exists /\ listed = exists
      BY <1>3, <1>5, <1>9 DEF listed
    <3> QED
      BY <1>2, <1>10, <1>11, <3>1
  <2> QED
    BY <2>1 DEF ListFits
<1>15. ASSUME NEW d \in Calls \ {c} PROVE CallFits(d)' /\ JobFits(d)' /\ ListFits(d)'
  <2>1. CallFits(d)'
    BY <1>2, <1>11 DEF Inv, CallFits
  <2>2. JobFits(d)'
    BY <1>2, <1>8, <1>11 DEF Inv, JobFits, Succeeded
  <2>3. ListFits(d)'
    <3>1. age[d] \in Nat
      BY <1>3, EvolutionAssumption
    <3>2. CASE exists' = exists /\ since' = since
      BY <1>2, <1>11, <3>2 DEF Inv, ListFits, Succeeded
    <3>3. CASE since' = 0
      BY <1>2, <3>1, <3>3 DEF ListFits
    <3> QED
      BY <1>5, <3>2, <3>3
  <2> QED
    BY <2>1, <2>2, <2>3
<1>16. \A d \in Calls : ChainFits(d)'
  BY <1>2 DEF Inv, ChainFits
<1>17. CacheFits'
  <2>1. cache.age \in Nat
    BY EvolutionAssumption DEF Inv, TypeOK, Caches
  <2>2. CASE exists' = exists /\ since' = since
    BY <1>2, <2>2 DEF Inv, CacheFits
  <2>3. CASE since' = 0
    BY <1>2, <2>1, <2>3, EvolutionAssumption DEF Inv, CacheFits
  <2> QED
    BY <1>5, <2>2, <2>3
<1>18. queue' \in Seq(Calls) /\ QueueFits'
  BY <1>2, <1>10, QueueSame
<1>19. told' \in Tellings /\ ListIsRecent'
  BY <1>2, NothingTold
<1>20. TypeOK'
  BY <1>2, <1>5, <1>8, <1>11, <1>18, <1>19, Zenon DEF Inv, TypeOK
<1>21. \A d \in Calls : (CallFits(d) /\ JobFits(d) /\ ListFits(d))'
  BY <1>12, <1>13, <1>14, <1>15
<1> QED
  BY <1>16, <1>17, <1>18, <1>19, <1>20, <1>21, Zenon DEF Inv

----------------------------------------------------------------------------
\* Faults and time.

LEMMA WorkerDiesKeeps ==
  ASSUME Inv, WorkerDies
  PROVE  Inv' /\ ListIsRecent'
<1> DEFINE r(c) == [NoJob EXCEPT !.at = "stalled", !.attempt = job[c].attempt,
                                 !.stalled = job[c].stalled]
<1>1. /\ job' = [c \in Calls |-> IF c \in Active THEN r(c) ELSE job[c]]
      /\ UNCHANGED <<breaker, cache, chain, queue, redis, did, exists, since>>
      /\ UNCHANGED calls /\ UNCHANGED <<at, kind, result, age>>
      /\ told' = Nothing /\ worker' = FALSE /\ faults' = faults + 1 /\ faults < MaxFaults
  BY DEF WorkerDies, world, calls
<1>2. \A c \in Calls : r(c) \in JobRecords /\ r(c).at = "stalled" /\ r(c).stage = "main"
  <2> SUFFICES ASSUME NEW c \in Calls
               PROVE  r(c) \in JobRecords /\ r(c).at = "stalled" /\ r(c).stage = "main"
    OBVIOUS
  <2>1. job[c].attempt \in 1 .. Attempts /\ job[c].stalled \in BOOLEAN
    BY DEF Inv, TypeOK, JobRecords
  <2> QED
    BY <2>1, NoJobFacts DEF JobRecords, JobPlaces
<1> HIDE DEF r
<1>3. job' \in [Calls -> JobRecords]
  BY <1>1, <1>2 DEF Inv, TypeOK
<1>4. QueueFits'
  <2>1. \A i \in DOMAIN queue : queue[i] \in Calls /\ job[queue[i]].at = "waiting"
    BY DEF Inv, TypeOK, QueueFits
  <2>2. \A i \in DOMAIN queue : job'[queue[i]] = job[queue[i]]
    BY <1>1, <2>1 DEF Active
  <2> QED
    BY <1>1, <2>1, <2>2 DEF Inv, QueueFits
<1>5. ASSUME NEW c \in Calls PROVE CallFits(c)' /\ JobFits(c)' /\ ListFits(c)'
  <2>1. CASE c \in Active
    <3>1. job[c].at = "active" /\ job'[c] = r(c)
      BY <1>1, <2>1 DEF Active
    <3>2. CallFits(c)'
      BY <1>1, <3>1, BusyFits DEF Busy
    <3> QED
      BY <1>2, <3>1, <3>2 DEF JobFits, ListFits, StageFits, Succeeded
  <2>2. CASE c \notin Active
    <3>1. job'[c] = job[c]
      BY <1>1, <2>2
    <3> QED
      BY <1>1, <3>1 DEF Inv, CallFits, JobFits, ListFits, Succeeded
  <2> QED
    BY <2>1, <2>2
<1>6. \A c \in Calls : ChainFits(c)'
  BY <1>1 DEF Inv, ChainFits
<1>7. CacheFits'
  BY <1>1 DEF Inv, CacheFits
<1>8. faults' \in 0 .. MaxFaults
  BY <1>1, EvolutionAssumption DEF Inv, TypeOK
<1>9. told' \in Tellings /\ ListIsRecent'
  BY <1>1, NothingTold
<1>10. worker' \in BOOLEAN
  BY <1>1
<1>11. TypeOK'
  BY <1>1, <1>3, <1>8, <1>9, <1>10, Zenon DEF Inv, TypeOK
<1> QED
  BY <1>4, <1>5, <1>6, <1>7, <1>9, <1>11, Zenon DEF Inv

\* Nothing but the worker or Redis changes.
LEMMA FaultsKeep ==
  ASSUME Inv, UNCHANGED <<world, breaker, cache, chain, calls, jobs, did>>,
         redis' \in BOOLEAN, worker' \in BOOLEAN, faults' \in 0 .. MaxFaults,
         told' = Nothing \/ told' = told
  PROVE  Inv'
<1>1. /\ UNCHANGED <<breaker, cache, chain, queue, job, did, exists, since>>
      /\ UNCHANGED <<at, kind, result, age>>
  BY DEF world, calls, jobs
<1>2. told' \in Tellings
  BY NothingTold DEF Inv, TypeOK
<1>3. TypeOK'
  BY <1>1, <1>2, Zenon DEF Inv, TypeOK
<1>4. QueueFits' /\ CacheFits'
  BY <1>1 DEF Inv, QueueFits, CacheFits
<1>5. \A c \in Calls : (CallFits(c) /\ JobFits(c) /\ ListFits(c) /\ ChainFits(c))'
  BY <1>1 DEF Inv, CallFits, JobFits, ListFits, ChainFits, Succeeded
<1> QED
  BY <1>3, <1>4, <1>5, Zenon DEF Inv

LEMMA OutageKeeps ==
  ASSUME Inv, WorkerStarts \/ RedisLeaves \/ RedisReturns
  PROVE  Inv' /\ ListIsRecent'
<1>0. redis \in BOOLEAN /\ worker \in BOOLEAN /\ faults \in 0 .. MaxFaults
  BY DEF Inv, TypeOK
<1>1. /\ UNCHANGED <<world, breaker, cache, chain, calls, jobs, did>> /\ told' = Nothing
      /\ redis' \in BOOLEAN /\ worker' \in BOOLEAN
      /\ faults' = faults \/ (faults' = faults + 1 /\ faults < MaxFaults)
  BY <1>0, Zenon DEF WorkerStarts, RedisLeaves, RedisReturns
<1>2. faults' \in 0 .. MaxFaults
  BY <1>0, <1>1, EvolutionAssumption
<1> QED
  BY <1>1, <1>2, FaultsKeep, NothingTold

LEMMA TickKeeps ==
  ASSUME Inv, Tick
  PROVE  Inv' /\ ListIsRecent'
<1>1. /\ cache' = Aged
      /\ breaker' = [breaker EXCEPT !.age =
                       IF breaker.state = "open" /\ @ < OpenFor THEN @ + 1 ELSE @]
      /\ since' = IF since < Old THEN since + 1 ELSE since
      /\ age' = [c \in Calls |->
           IF at[c] \in {"wait", "set"} /\ kind[c] = "list" /\ age[c] <= Limit
             THEN age[c] + 1 ELSE age[c]]
      /\ told' = Nothing
      /\ UNCHANGED <<exists, chain, at, kind, result, job, queue, redis, worker, faults, did>>
  BY DEF Tick, jobs, faulty
<1>2. /\ since \in 0 .. Old /\ age \in [Calls -> 0 .. Limit + 1]
      /\ cache \in Caches /\ breaker \in Breakers
  BY DEF Inv, TypeOK
<1>3. since' \in 0 .. Old /\ since' <= since + 1
  BY <1>1, <1>2, EvolutionAssumption DEF Old
<1>4. /\ age' \in [Calls -> 0 .. Limit + 1]
      /\ \A c \in Calls : at[c] \in {"wait", "set"} /\ kind[c] = "list" /\ age'[c] <= Limit
           => age[c] <= Limit /\ age'[c] = age[c] + 1
  BY <1>1, <1>2, EvolutionAssumption
<1>5. breaker' \in Breakers
  <2>1. breaker.age \in 0 .. OpenFor
    BY <1>2 DEF Breakers
  <2>2. PICK n \in 0 .. OpenFor : breaker' = [breaker EXCEPT !.age = n]
    <3>1. CASE breaker.state = "open" /\ breaker.age < OpenFor
      <4>1. breaker.age + 1 \in 0 .. OpenFor
        BY <2>1, <3>1, EvolutionAssumption
      <4> QED
        BY <1>1, <3>1, <4>1, Zenon
    <3>2. CASE ~(breaker.state = "open" /\ breaker.age < OpenFor)
      BY <1>1, <2>1, <3>2, Zenon
    <3> QED
      BY <3>1, <3>2
  <2> QED
    BY <1>2, <2>2 DEF Breakers
<1>6. cache' \in Caches /\ CacheFits'
  <2>1. /\ cache.age \in 0 .. TTL /\ cache.kept \in BOOLEAN
    BY <1>2 DEF Caches
  <2>2. CASE ~cache.kept
    <3>1. cache' = cache
      BY <1>1, <2>2 DEF Aged
    <3> QED
      BY <1>2, <2>2, <3>1 DEF CacheFits
  <2>3. CASE cache.kept /\ cache.age + 1 >= TTL
    <3>1. cache' = NoList
      BY <1>1, <2>3 DEF Aged
    <3>2. NoList \in Caches /\ ~NoList.kept
      BY EvolutionAssumption DEF NoList, Caches
    <3> QED
      BY <3>1, <3>2 DEF CacheFits
  <2>4. CASE cache.kept /\ ~(cache.age + 1 >= TTL)
    <3>1. cache' = [cache EXCEPT !.age = cache.age + 1] /\ cache.age + 1 \in 0 .. TTL
      BY <1>1, <2>1, <2>4, EvolutionAssumption DEF Aged
    <3>2. /\ cache' \in Caches /\ cache'.kept = cache.kept /\ cache'.list = cache.list
          /\ cache'.late = cache.late /\ cache'.age = cache.age + 1
      BY <1>2, <3>1 DEF Caches
    <3>3. cache'.age < TTL
      BY <2>1, <2>4, <3>2, EvolutionAssumption
    <3>4. cache.late \/ cache.list = exists \/ since <= cache.age + Limit
      BY <2>4 DEF Inv, CacheFits
    <3>5. since <= cache.age + Limit => since' <= cache'.age + Limit
      BY <1>2, <1>3, <2>1, <3>2, EvolutionAssumption DEF Old
    <3> QED
      BY <1>1, <3>2, <3>3, <3>4, <3>5 DEF CacheFits
  <2> QED
    BY <2>2, <2>3, <2>4
<1>7. ASSUME NEW c \in Calls PROVE CallFits(c)' /\ JobFits(c)' /\ ListFits(c)' /\ ChainFits(c)'
  <2>1. CallFits(c)' /\ JobFits(c)' /\ ChainFits(c)'
    BY <1>1 DEF Inv, CallFits, JobFits, ChainFits, Succeeded
  <2>2. ListFits(c)'
    <3> SUFFICES ASSUME kind[c] = "list", at[c] \in {"wait", "set"}, age'[c] <= Limit,
                        job[c].at = "done" \/ job[c].stage = "ok"
                 PROVE  job[c].list = exists \/ since' <= age'[c]
      BY <1>1 DEF ListFits, Succeeded
    <3>1. age[c] <= Limit /\ age'[c] = age[c] + 1 /\ age[c] \in Nat
      BY <1>2, <1>4, EvolutionAssumption
    <3>2. job[c].list = exists \/ since <= age[c]
      BY <3>1 DEF Inv, ListFits, Succeeded
    <3>3. since <= age[c] => since' <= age'[c]
      BY <1>2, <1>3, <3>1, EvolutionAssumption DEF Old
    <3> QED
      BY <3>2, <3>3
  <2> QED
    BY <2>1, <2>2
<1>8. told' \in Tellings /\ ListIsRecent'
  BY <1>1, NothingTold
<1>9. TypeOK'
  BY <1>1, <1>3, <1>4, <1>5, <1>6, <1>8, Zenon DEF Inv, TypeOK
<1>10. QueueFits'
  BY <1>1 DEF Inv, QueueFits
<1> QED
  BY <1>6, <1>7, <1>8, <1>9, <1>10, Zenon DEF Inv

----------------------------------------------------------------------------
\* Theorems.

LEMMA InvInit == Init => Inv /\ ListIsRecent
<1> SUFFICES ASSUME Init PROVE Inv /\ ListIsRecent
  OBVIOUS
<1>1. 0 \in 0 .. Old /\ Old \in 0 .. Old /\ 0 \in 0 .. TTL /\ 0 \in 0 .. OpenFor
      /\ 0 \in 0 .. Threshold /\ 0 \in 0 .. Limit + 1 /\ 0 \in 0 .. MaxFaults
  BY EvolutionAssumption DEF Old
<1>2. breaker \in Breakers /\ cache \in Caches /\ ~cache.kept /\ told \in Tellings /\ told.late
  BY <1>1 DEF Init, Breakers, Caches, NoList, Tellings, Nothing
<1>3. at \in [Calls -> Places] /\ kind \in [Calls -> Kinds] /\ result \in [Calls -> Results]
      /\ age \in [Calls -> 0 .. Limit + 1] /\ job \in [Calls -> JobRecords]
  BY <1>1, NoJobFacts DEF Init, Places, Results
<1>4. chain \in Seq(Calls) /\ queue \in Seq(Calls) /\ QueueFits
  BY DEF Init, QueueFits
<1>5. exists \in BOOLEAN /\ redis \in BOOLEAN /\ worker \in BOOLEAN
  BY Zenon DEF Init
<1>6. since \in 0 .. Old /\ did \subseteq Calls /\ faults \in 0 .. MaxFaults
  BY <1>1 DEF Init
<1>7. TypeOK
  BY <1>2, <1>3, <1>4, <1>5, <1>6, Zenon DEF TypeOK
<1>8. ASSUME NEW c \in Calls PROVE CallFits(c) /\ JobFits(c) /\ ListFits(c) /\ ChainFits(c)
  <2>1. at[c] = "idle" /\ result[c] = "none" /\ job[c] = NoJob
    BY DEF Init
  <2> QED
    BY <2>1, NoJobFacts DEF CallFits, JobFits, ListFits, ChainFits, StageFits, Succeeded
<1> QED
  BY <1>2, <1>4, <1>7, <1>8 DEF Inv, CacheFits, ListIsRecent

LEMMA InvStep == Inv /\ ListIsRecent /\ [Next]_vars => Inv' /\ ListIsRecent'
<1> SUFFICES ASSUME Inv, ListIsRecent, [Next]_vars PROVE Inv' /\ ListIsRecent'
  OBVIOUS
<1>1. ASSUME NEW c \in Calls,
             Ask(c) \/ Renew(c) \/ Get(c) \/ Again(c) \/ Add(c) \/ Hear(c) \/ Set(c) \/ Drop(c)
      PROVE  Inv' /\ ListIsRecent'
  BY <1>1, AskKeeps, RenewKeeps, GetKeeps, AgainKeeps, AddKeeps, HearKeeps, SetKeeps, DropKeeps
<1>2. ASSUME NEW c \in Calls, Expire(c) PROVE Inv' /\ ListIsRecent'
  BY <1>2, FailsKeeps DEF Expire
<1>3. ASSUME NEW c \in Calls, Take(c) \/ Request(c) \/ Finish(c) \/ Requeue(c)
      PROVE  Inv' /\ ListIsRecent'
  BY <1>3, TakeKeeps, RequestKeeps, FinishKeeps, RequeueKeeps
<1>4. CASE WorkerDies \/ WorkerStarts \/ RedisLeaves \/ RedisReturns \/ Tick
  BY <1>4, WorkerDiesKeeps, OutageKeeps, TickKeeps
<1>5. CASE UNCHANGED vars
  <2>1. /\ UNCHANGED <<world, breaker, cache, chain, calls, jobs, did>>
        /\ redis' = redis /\ worker' = worker /\ faults' = faults /\ told' = told
    BY <1>5 DEF vars, world, calls, jobs, faulty
  <2>2. redis \in BOOLEAN /\ worker \in BOOLEAN /\ faults \in 0 .. MaxFaults
    BY DEF Inv, TypeOK
  <2>3. Inv'
    BY <2>1, <2>2, FaultsKeep
  <2> QED
    BY <2>1, <2>3 DEF ListIsRecent
<1> QED
  BY <1>1, <1>2, <1>3, <1>4, <1>5, Zenon DEF Next

\* Calls, jobs, breaker and cache stay where the code can bring them: no attempt,
\* no request and no failure is counted beyond its limit.
THEOREM TypeCorrect == Spec => []TypeOK
<1>1. Inv => TypeOK
  BY DEF Inv
<1> QED
  BY <1>1, InvInit, InvStep, PTL DEF Spec

\* A call that was told of success has had its operation carried out, and its
\* job is over and in no queue (throughQueue and the worker's wrap).
THEOREM OkDone == Spec => []OkIsDone
<1>1. Inv => OkIsDone
  <2> SUFFICES ASSUME Inv, NEW c \in Calls, result[c] = "ok", kind[c] # "list"
               PROVE  c \in did /\ job[c].at = "done" /\ c \notin ToSet(queue)
    BY DEF OkIsDone
  <2>1. job[c].at = "done"
    BY DEF Inv, CallFits
  <2>2. c \in did
    BY <2>1 DEF Inv, JobFits, Succeeded
  <2>3. c \notin ToSet(queue)
    BY <2>1 DEF Inv, QueueFits, ToSet
  <2> QED
    BY <2>1, <2>2, <2>3
<1> QED
  BY <1>1, InvInit, InvStep, PTL DEF Spec

\* A list that a call is told, from the cache or from its own job, was
\* Evolution's not longer ago than the limit of a list call and the life of the
\* cache together (fetchEvolutionInstancesWithCache).
THEOREM ListRecent == Spec => []ListIsRecent
BY InvInit, InvStep, PTL DEF Spec
=============================================================================
