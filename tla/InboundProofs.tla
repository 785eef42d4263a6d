--------------------------- MODULE InboundProofs ---------------------------
(***************************************************************************)
(* Inbound for every set of webhook calls, messages and conversations:     *)
(* tasks of a conversation run one at a time and in order, replies see the *)
(* whole conversation, and a message passes the claim once per lapse.      *)
(***************************************************************************)
EXTENDS Inbound, TLAPS, SequenceTheorems, FiniteSetTheorems

\* The task in service is the first one of the order that has not ended, the
\* queue is the rest of the order, and the waiting calls are all different.
Busy(d) == at[d] \in Running

Prefix(s, o) == \A i \in 1 .. Len(s) : s[i] = o[i]

\* Order o is the tasks that ended, then the current one, then the queue.
Behind(o, s, q) ==
  /\ Len(o) = Len(s) + 1 + Len(q)
  /\ Prefix(s, o)
  /\ \A i \in 1 .. Len(q) : q[i] = o[Len(s) + 1 + i]

CaughtUp(o, s) == Len(o) = Len(s) /\ Prefix(s, o)

Current(c) == order[c][Len(served[c]) + 1]

Matches(c) ==
  /\ c \in processing => Behind(order[c], served[c], queues[c])
  /\ c \notin processing => CaughtUp(order[c], served[c]) /\ queues[c] = <<>>

Service(c) ==
  \A d \in Deliveries :
    (Conv(d) = c /\ Busy(d))
      <=> (c \in processing /\ d = Current(c))

Waiting(c) ==
  \A i \in 1 .. Len(queues[c]) :
    /\ at[queues[c][i]] = "waiting" /\ Conv(queues[c][i]) = c
    /\ \A j \in 1 .. Len(queues[c]) : queues[c][i] = queues[c][j] => i = j

QInv == TypeOK /\ \A c \in Conversations : Matches(c) /\ Service(c) /\ Waiting(c)

HInv == QInv /\ HistoryIsCurrent

\* What HistoryIsCurrent says of one call.
AsRead(d) ==
  d \notin unread =>
    /\ at[d] = "user" => seen[d] = Recent(log[Conv(d)])
    /\ at[d] = "assistant" =>
         seen[d] = Recent(SubSeq(log[Conv(d)], 1, Len(log[Conv(d)]) - 1))

\* The calls admitted for a message are its lapses and the key Redis holds.
Admitted(m) == {d \in admitted : MessageOf[d] = m}

Counted(m) ==
  /\ m \in claims => Cardinality(Admitted(m)) = lapses[m] + 1
  /\ m \notin claims => Cardinality(Admitted(m)) = lapses[m]

CInv ==
  /\ TypeOK
  /\ \A d \in admitted : at[d] \notin {"idle", "lookup", "claim"}
  /\ \A m \in Keyed : Counted(m)

----------------------------------------------------------------------------
\* A webhook call belongs to one conversation.
LEMMA ConvType == \A d \in Deliveries : Conv(d) \in Conversations
BY InboundAssumption DEF InboundAssumption, Conv

\* An entry of a sequence is one of the elements it is a sequence of.
LEMMA EntryType ==
  ASSUME NEW S, NEW s \in Seq(S), NEW i \in 1 .. Len(s)
  PROVE  s[i] \in S
BY ElementOfSeq

\* What taking the first entry off a queue leaves.
LEMMA TailType ==
  ASSUME NEW S, NEW s \in Seq(S), s # <<>>
  PROVE  /\ Head(s) \in S /\ Tail(s) \in Seq(S) /\ Head(s) = s[1]
         /\ Len(s) \in Nat /\ Len(s) > 0 /\ Len(Tail(s)) = Len(s) - 1
         /\ \A i \in 1 .. Len(Tail(s)) : Tail(s)[i] = s[i + 1]
BY HeadTailProperties, EmptySeq, LenProperties

\* What an entry at the end of a sequence adds.
LEMMA AppendType ==
  ASSUME NEW S, NEW s \in Seq(S), NEW e \in S
  PROVE  /\ Append(s, e) \in Seq(S) /\ Len(s) \in Nat
         /\ Len(Append(s, e)) = Len(s) + 1
         /\ \A i \in 1 .. Len(s) : Append(s, e)[i] = s[i]
         /\ Append(s, e)[Len(s) + 1] = e
BY AppendProperties, LenProperties

\* A task that is enqueued goes to the end of the order and of the queue.
LEMMA BehindEnqueue ==
  ASSUME NEW o \in Seq(Deliveries), NEW s \in Seq(Deliveries),
         NEW q \in Seq(Deliveries), NEW d \in Deliveries, Behind(o, s, q)
  PROVE  Behind(Append(o, d), s, Append(q, d))
<1> DEFINE p == Append(o, d)  r == Append(q, d)
<1>1. /\ Len(o) \in Nat /\ Len(s) \in Nat /\ Len(q) \in Nat
      /\ Len(p) = Len(o) + 1 /\ Len(r) = Len(q) + 1
      /\ \A i \in 1 .. Len(o) : p[i] = o[i]
      /\ \A i \in 1 .. Len(q) : r[i] = q[i]
      /\ p[Len(o) + 1] = d /\ r[Len(q) + 1] = d
  BY AppendType, LenProperties
<1> HIDE DEF p, r
<1>2. Len(o) = Len(s) + 1 + Len(q)
  BY DEF Behind
<1>3. \A i \in 1 .. Len(q) : r[i] = p[Len(s) + 1 + i]
  <2> SUFFICES ASSUME NEW i \in 1 .. Len(q) PROVE r[i] = p[Len(s) + 1 + i]
    OBVIOUS
  <2>1. Len(s) + 1 + i \in 1 .. Len(o)
    BY <1>1, <1>2
  <2>2. q[i] = o[Len(s) + 1 + i]
    BY DEF Behind
  <2> QED
    BY <1>1, <2>1, <2>2
<1>4. r[Len(q) + 1] = p[Len(s) + 1 + (Len(q) + 1)]
  <2>1. Len(s) + 1 + (Len(q) + 1) = Len(o) + 1
    BY <1>1, <1>2
  <2> QED
    BY <1>1, <2>1
<1>5. \A i \in 1 .. Len(r) : i \in 1 .. Len(q) \/ i = Len(q) + 1
  BY <1>1
<1>6. \A i \in 1 .. Len(r) : r[i] = p[Len(s) + 1 + i]
  BY <1>3, <1>4, <1>5
<1>7. Prefix(s, p)
  BY <1>1, <1>2 DEF Prefix, Behind
<1>8. Len(p) = Len(s) + 1 + Len(r)
  BY <1>1, <1>2
<1>9. Behind(p, s, r)
  BY <1>6, <1>7, <1>8 DEF Behind
<1> QED
  BY <1>9 DEF p, r

\* Behind an order there is always a current task.
LEMMA CurrentInOrder ==
  ASSUME NEW o \in Seq(Deliveries), NEW s \in Seq(Deliveries),
         NEW q \in Seq(Deliveries), Behind(o, s, q)
  PROVE  Len(s) + 1 \in 1 .. Len(o)
<1>1. Len(s) \in Nat /\ Len(q) \in Nat /\ Len(o) = Len(s) + 1 + Len(q)
  BY LenProperties DEF Behind
<1> QED
  BY <1>1

\* A task that is enqueued in an idle conversation is the current one.
LEMMA BehindStart ==
  ASSUME NEW o \in Seq(Deliveries), NEW s \in Seq(Deliveries),
         NEW d \in Deliveries, CaughtUp(o, s)
  PROVE  Behind(Append(o, d), s, <<>>)
<1>1. /\ Len(o) \in Nat /\ Len(Append(o, d)) = Len(o) + 1
      /\ \A i \in 1 .. Len(o) : Append(o, d)[i] = o[i]
  BY AppendType
<1>2. Len(o) = Len(s) /\ Prefix(s, o)
  BY DEF CaughtUp
<1>3. Len(<<>>) = 0
  OBVIOUS
<1> QED
  BY <1>1, <1>2, <1>3 DEF Behind, Prefix

\* When the current task ends, the head of the queue is the next one.
LEMMA BehindFinish ==
  ASSUME NEW o \in Seq(Deliveries), NEW s \in Seq(Deliveries),
         NEW q \in Seq(Deliveries), NEW d \in Deliveries,
         Behind(o, s, q), q # <<>>, d = o[Len(s) + 1]
  PROVE  Behind(o, Append(s, d), Tail(q))
<1> DEFINE t == Append(s, d)  r == Tail(q)
<1>1. /\ Len(o) \in Nat /\ Len(s) \in Nat /\ Len(q) \in Nat /\ Len(q) > 0
      /\ Len(t) = Len(s) + 1 /\ Len(r) = Len(q) - 1
      /\ \A i \in 1 .. Len(s) : t[i] = s[i]
      /\ t[Len(s) + 1] = d
      /\ \A i \in 1 .. Len(r) : r[i] = q[i + 1]
  BY AppendType, TailType, LenProperties
<1> HIDE DEF t, r
<1>2. /\ Len(o) = Len(s) + 1 + Len(q) /\ Prefix(s, o)
      /\ \A i \in 1 .. Len(q) : q[i] = o[Len(s) + 1 + i]
  BY DEF Behind
<1>3. \A i \in 1 .. Len(r) : r[i] = o[Len(t) + 1 + i]
  <2> SUFFICES ASSUME NEW i \in 1 .. Len(r) PROVE r[i] = o[Len(t) + 1 + i]
    OBVIOUS
  <2>1. i + 1 \in 1 .. Len(q) /\ Len(s) + 1 + (i + 1) = Len(t) + 1 + i
    BY <1>1
  <2>2. q[i + 1] = o[Len(s) + 1 + (i + 1)]
    BY <1>2, <2>1
  <2> QED
    BY <1>1, <2>1, <2>2
<1>4. Prefix(t, o)
  <2>1. \A i \in 1 .. Len(t) : i \in 1 .. Len(s) \/ i = Len(s) + 1
    BY <1>1
  <2> QED
    BY <1>1, <1>2, <2>1 DEF Prefix
<1>5. Len(o) = Len(t) + 1 + Len(r)
  BY <1>1, <1>2
<1>6. Behind(o, t, r)
  BY <1>3, <1>4, <1>5 DEF Behind
<1> QED
  BY <1>6 DEF t, r

\* The task after the current one is the head of the queue.
LEMMA NextIsHead ==
  ASSUME NEW o \in Seq(Deliveries), NEW s \in Seq(Deliveries),
         NEW q \in Seq(Deliveries), Behind(o, s, q), q # <<>>
  PROVE  o[Len(s) + 1 + 1] = Head(q)
<1>1. Head(q) = q[1] /\ 1 \in 1 .. Len(q)
  BY TailType
<1> QED
  BY <1>1 DEF Behind

\* When the current task ends and the queue is empty, all have ended.
LEMMA BehindIdle ==
  ASSUME NEW o \in Seq(Deliveries), NEW s \in Seq(Deliveries),
         NEW d \in Deliveries,
         Behind(o, s, <<>>), d = o[Len(s) + 1]
  PROVE  CaughtUp(o, Append(s, d))
<1>1. /\ Len(s) \in Nat /\ Len(Append(s, d)) = Len(s) + 1
      /\ \A i \in 1 .. Len(s) : Append(s, d)[i] = s[i]
      /\ Append(s, d)[Len(s) + 1] = d
  BY AppendType
<1>2. Len(o) = Len(s) + 1 /\ Prefix(s, o)
  BY <1>1 DEF Behind
<1>3. \A i \in 1 .. Len(Append(s, d)) : i \in 1 .. Len(s) \/ i = Len(s) + 1
  BY <1>1
<1> QED
  BY <1>1, <1>2, <1>3 DEF CaughtUp, Prefix

\* The newest rows of a log are a log.
LEMMA RecentType ==
  ASSUME NEW S, NEW s \in Seq(S)
  PROVE  Recent(s) \in Seq(S)
<1> DEFINE first == IF Len(s) <= HistoryLimit THEN 1 ELSE Len(s) - HistoryLimit + 1
<1>1. Len(s) \in Nat /\ HistoryLimit \in Nat
  BY LenProperties, InboundAssumption DEF InboundAssumption
<1>2. first \in Nat /\ first >= 1
  BY <1>1
<1> HIDE DEF first
<1>3. \A i \in first .. Len(s) : i \in 1 .. Len(s)
  BY <1>1, <1>2
<1>4. \A i \in first .. Len(s) : s[i] \in S
  BY <1>3, EntryType
<1>5. SubSeq(s, first, Len(s)) \in Seq(S)
  BY <1>1, <1>2, <1>4, SubSeqProperties
<1> QED
  BY <1>5 DEF Recent, first

\* A log without the row that was just put at its end is the log before.
LEMMA WithoutLast ==
  ASSUME NEW S, NEW s \in Seq(S), NEW e \in S
  PROVE  SubSeq(Append(s, e), 1, Len(Append(s, e)) - 1) = s
<1> DEFINE t == Append(s, e)  r == SubSeq(t, 1, Len(t) - 1)
<1>1. /\ Len(s) \in Nat /\ Len(t) = Len(s) + 1 /\ t \in Seq(S)
      /\ \A i \in 1 .. Len(s) : t[i] = s[i]
  BY AppendType
<1> HIDE DEF t
<1>2. \A i \in 1 .. Len(t) - 1 : t[i] \in S
  BY <1>1, EntryType
<1>3. /\ r \in Seq(S) /\ Len(r) = Len(s)
      /\ \A i \in 1 .. Len(s) : r[i] = t[i]
  BY <1>1, <1>2, SubSeqProperties
<1> HIDE DEF r
<1>4. r = s
  BY <1>1, <1>3, SeqEqual
<1> QED
  BY <1>4 DEF r, t

----------------------------------------------------------------------------
LEMMA TypeInit == Init => TypeOK
BY EmptySeq DEF Init, TypeOK, Places, Handling, Running, Ended, Conv

LEMMA TypeStep == TypeOK /\ [Next]_vars => TypeOK'
<1> SUFFICES ASSUME TypeOK, [Next]_vars PROVE TypeOK'
  OBVIOUS
<1> USE ConvType
<1>1. ASSUME NEW d \in Deliveries,
             \/ Receive(d) \/ LookupFails(d) \/ ChannelFound(d)
             \/ PersistFails(d) \/ QueueReply(d)
      PROVE  TypeOK'
  BY <1>1 DEF TypeOK, Receive, LookupFails, ChannelFound, PersistFails, QueueReply,
     Goes, Places, Handling, Running, Ended, queue, claim, rows, bounds
<1>10. ASSUME NEW d \in Deliveries, ClaimWebhookMessageOnce(d) PROVE TypeOK'
  <2>1. MessageOf[d] \in Messages
    BY InboundAssumption DEF InboundAssumption
  <2>2. at' \in [Deliveries -> Places]
    BY <1>10 DEF TypeOK, ClaimWebhookMessageOnce, Pass, Goes, Places, Handling,
       Ended
  <2>3. claims' \subseteq Messages /\ admitted' \subseteq Deliveries
    BY <1>10, <2>1 DEF TypeOK, ClaimWebhookMessageOnce, Pass
  <2>4. \/ lapses' = lapses
        \/ lapses' = [lapses EXCEPT ![MessageOf[d]] = @ + 1]
    BY <1>10 DEF ClaimWebhookMessageOnce
  <2>5. lapses' \in [Messages -> Nat]
    <3>1. lapses \in [Messages -> Nat] /\ lapses[MessageOf[d]] + 1 \in Nat
      BY <2>1 DEF TypeOK
    <3> QED
      BY <2>1, <2>4, <3>1
  <2> QED
    BY <1>10, <2>2, <2>3, <2>5 DEF TypeOK, ClaimWebhookMessageOnce, queue, rows, bounds
<1>2. ASSUME NEW d \in Deliveries, AgentFound(d) PROVE TypeOK'
  <2>1. /\ Append(order[Conv(d)], d) \in Seq(Deliveries)
        /\ Append(queues[Conv(d)], d) \in Seq(Deliveries)
    BY AppendType DEF TypeOK
  <2>2. /\ order' \in [Conversations -> Seq(Deliveries)]
        /\ queues' \in [Conversations -> Seq(Deliveries)]
        /\ processing' \subseteq Conversations
        /\ served' = served
    BY <1>2, <2>1 DEF TypeOK, AgentFound, EnqueueConversationTask
  <2>3. at' \in [Deliveries -> Places]
    BY <1>2 DEF TypeOK, AgentFound, EnqueueConversationTask, Goes, Places, Running
  <2> QED
    BY <1>2, <2>2, <2>3 DEF TypeOK, AgentFound, claim, rows, bounds
<1>3. ASSUME NEW d \in Deliveries, ReadHistory(d) PROVE TypeOK'
  <2>1. log[Conv(d)] \in Seq(Deliveries \X Roles)
    BY DEF TypeOK
  <2>2. /\ Recent(log[Conv(d)]) \in Seq(Deliveries \X Roles)
        /\ <<>> \in Seq(Deliveries \X Roles)
    BY <2>1, RecentType, EmptySeq
  <2>3. seen' \in [Deliveries -> Seq(Deliveries \X Roles)] /\ unread' \subseteq Deliveries
    BY <1>3, <2>2 DEF TypeOK, ReadHistory
  <2>4. at' \in [Deliveries -> Places]
    BY <1>3 DEF TypeOK, ReadHistory, Goes, Places, Running
  <2> QED
    BY <1>3, <2>3, <2>4 DEF TypeOK, ReadHistory, queue, claim, bounds
<1>4. ASSUME NEW d \in Deliveries, PersistUser(d) \/ PersistAssistant(d)
      PROVE  TypeOK'
  <2>1. /\ Append(log[Conv(d)], <<d, "user">>) \in Seq(Deliveries \X Roles)
        /\ Append(log[Conv(d)], <<d, "assistant">>) \in Seq(Deliveries \X Roles)
    BY AppendType DEF TypeOK, Roles
  <2>2. log' \in [Conversations -> Seq(Deliveries \X Roles)]
    BY <1>4, <2>1 DEF TypeOK, PersistUser, PersistAssistant
  <2>3. at' \in [Deliveries -> Places]
    BY <1>4 DEF TypeOK, PersistUser, PersistAssistant, Goes, Places, Running
  <2> QED
    BY <1>4, <2>2, <2>3 DEF TypeOK, PersistUser, PersistAssistant, queue, claim,
       bounds
<1>5. ASSUME NEW d \in Deliveries, SendAndFinish(d) PROVE TypeOK'
  <2>1. Append(served[Conv(d)], d) \in Seq(Deliveries)
    BY AppendType DEF TypeOK
  <2>2. queues[Conv(d)] # <<>> => /\ Tail(queues[Conv(d)]) \in Seq(Deliveries)
                                  /\ Head(queues[Conv(d)]) \in Deliveries
    BY TailType DEF TypeOK
  <2>3. /\ queues' \in [Conversations -> Seq(Deliveries)]
        /\ served' \in [Conversations -> Seq(Deliveries)]
        /\ processing' \subseteq Conversations
    BY <1>5, <2>1, <2>2 DEF TypeOK, SendAndFinish
  <2>4. at' \in [Deliveries -> Places]
    BY <1>5, <2>2 DEF TypeOK, SendAndFinish, Goes, Places, Running, Ended
  <2> QED
    BY <1>5, <2>3, <2>4 DEF TypeOK, SendAndFinish, claim, rows, bounds
<1>6. ASSUME NEW r \in {"up", "error", "down"}, RedisBecomes(r) PROVE TypeOK'
  BY <1>6 DEF TypeOK, RedisBecomes, queue, rows, bounds
<1>7. ASSUME NEW m \in Messages, ClaimExpires(m) PROVE TypeOK'
  BY <1>7 DEF TypeOK, ClaimExpires, queue, rows
<1>8. CASE Crash
  BY <1>8, EmptySeq DEF TypeOK, Crash, Places, Handling, Running, Ended, claim, rows
<1>9. CASE UNCHANGED vars
  BY <1>9 DEF TypeOK, vars, queue, claim, rows, bounds
<1> QED
  BY <1>1, <1>10, <1>2, <1>3, <1>4, <1>5, <1>6, <1>7, <1>8, <1>9
     DEF Next, Handler, Task

\* Type correctness of Inbound.
THEOREM TypeCorrect == Spec => []TypeOK
BY TypeInit, TypeStep, PTL DEF Spec

----------------------------------------------------------------------------
\* A step that leaves the queues alone and moves no call into or out of a
\* running task, nor out of a queue, keeps their shape.
LEMMA QFrame ==
  ASSUME QInv, TypeOK', UNCHANGED queue,
         \A d \in Deliveries : /\ Busy(d)' <=> Busy(d)
                               /\ at[d] = "waiting" => at'[d] = "waiting"
  PROVE  QInv'
<1> SUFFICES ASSUME NEW c \in Conversations
             PROVE  Matches(c)' /\ Service(c)' /\ Waiting(c)'
  BY DEF QInv
<1>1. Matches(c) /\ Service(c) /\ Waiting(c)
  BY DEF QInv
<1>2. Matches(c)'
  BY <1>1 DEF Matches, queue
<1>3. Service(c)'
  BY <1>1 DEF Service, Current, queue, Conv
<1>4. \A i \in 1 .. Len(queues[c]) : queues[c][i] \in Deliveries
  BY EntryType DEF QInv, TypeOK
<1>5. Waiting(c)'
  BY <1>1, <1>4 DEF Waiting, queue, Conv
<1> QED
  BY <1>2, <1>3, <1>5

\* Enqueueing keeps the shape of the queues.
LEMMA QEnqueue ==
  ASSUME QInv, TypeOK', NEW d \in Deliveries, AgentFound(d)
  PROVE  QInv'
<1> PICK c \in Conversations : c = Conv(d)
  BY ConvType
<1>1. TypeOK /\ EnqueueConversationTask(d) /\ at[d] \in {"agent", "lookup"}
  BY DEF QInv, AgentFound
<1>2. SUFFICES ASSUME NEW k \in Conversations
               PROVE  Matches(k)' /\ Service(k)' /\ Waiting(k)'
  BY DEF QInv
<1>3. Matches(k) /\ Service(k) /\ Waiting(k)
  BY DEF QInv
<1>4. \A i \in 1 .. Len(queues[k]) : queues[k][i] \in Deliveries
  BY <1>1, EntryType DEF TypeOK
<1>5. /\ \A e \in Deliveries : e # d => at'[e] = at[e]
      /\ served' = served
      /\ ~Busy(d) /\ at[d] # "waiting"
  BY <1>1 DEF EnqueueConversationTask, Goes, TypeOK, Busy, Running
<1>6. CASE k # c
  <2>1. /\ order'[k] = order[k] /\ queues'[k] = queues[k]
        /\ (k \in processing' <=> k \in processing) /\ served'[k] = served[k]
    BY <1>1, <1>6 DEF EnqueueConversationTask, TypeOK
  <2>2. Matches(k)'
    BY <1>3, <2>1 DEF Matches
  <2>3. Service(k)'
    BY <1>3, <1>5, <1>6, <2>1 DEF Service, Current, Busy, Conv
  <2>4. \A i \in 1 .. Len(queues[k]) : queues[k][i] # d
    BY <1>3, <1>6 DEF Waiting
  <2>5. Waiting(k)'
    BY <1>3, <1>4, <1>5, <2>1, <2>4 DEF Waiting, Conv
  <2> QED
    BY <2>2, <2>3, <2>5
<1>7. ASSUME k = c, c \in processing PROVE Matches(k)' /\ Service(k)' /\ Waiting(k)'
  <2>1. /\ queues[c] \in Seq(Deliveries) /\ order[c] \in Seq(Deliveries)
        /\ served[c] \in Seq(Deliveries)
    BY <1>1 DEF TypeOK
  <2>2. /\ order'[c] = Append(order[c], d) /\ queues'[c] = Append(queues[c], d)
        /\ c \in processing' /\ at'[d] = "waiting" /\ served'[c] = served[c]
    BY <1>1, <1>7 DEF EnqueueConversationTask, Goes, TypeOK
  <2>3. Behind(order[c], served[c], queues[c])
    BY <1>3, <1>7 DEF Matches
  <2>4. /\ Behind(Append(order[c], d), served[c], Append(queues[c], d))
        /\ Append(order[c], d)[Len(served[c]) + 1] = order[c][Len(served[c]) + 1]
    <3>1. Behind(Append(order[c], d), served[c], Append(queues[c], d))
      BY <2>1, <2>3, BehindEnqueue
    <3>2. Append(order[c], d)[Len(served[c]) + 1] = order[c][Len(served[c]) + 1]
      <4>1. Len(served[c]) + 1 \in 1 .. Len(order[c])
        BY <2>1, <2>3, CurrentInOrder
      <4> QED
        BY <2>1, <4>1, AppendType
    <3> QED
      BY <3>1, <3>2
  <2>5. Matches(c)'
    BY <2>2, <2>4 DEF Matches
  <2>6. Service(c)'
    <3>1. Current(c)' = Current(c)
      BY <2>2, <2>4 DEF Current
    <3>2. ~Busy(d)' /\ \A e \in Deliveries : e # d => (Busy(e)' <=> Busy(e))
      BY <1>5, <2>2 DEF Busy, Running
    <3>3. d # Current(c)
      BY <1>3, <1>5, <1>7 DEF Service
    <3> QED
      BY <1>3, <1>7, <2>2, <3>1, <3>2, <3>3 DEF Service, Conv
  <2>7. Waiting(c)'
    <3> DEFINE q == queues[c]  n == Len(q)
    <3>1. /\ n \in Nat /\ Len(queues'[c]) = n + 1
          /\ \A i \in 1 .. n : queues'[c][i] = q[i]
          /\ queues'[c][n + 1] = d
      BY <2>1, <2>2, AppendType
    <3>2. \A i \in 1 .. n : /\ q[i] \in Deliveries /\ at[q[i]] = "waiting"
                            /\ Conv(q[i]) = c /\ q[i] # d
      BY <1>3, <1>4, <1>5, <1>7 DEF Waiting
    <3>3. \A i, j \in 1 .. n : q[i] = q[j] => i = j
      BY <1>3, <1>7 DEF Waiting
    <3> HIDE DEF q, n
    <3>4. \A i \in 1 .. n + 1 : i \in 1 .. n \/ i = n + 1
      BY <3>1
    <3>5. \A i \in 1 .. n + 1 :
            at'[queues'[c][i]] = "waiting" /\ Conv(queues'[c][i]) = c
      BY <1>5, <2>2, <3>1, <3>2, <3>4
    <3>6. \A i, j \in 1 .. n + 1 : queues'[c][i] = queues'[c][j] => i = j
      BY <3>1, <3>2, <3>3, <3>4
    <3> QED
      BY <3>1, <3>5, <3>6 DEF Waiting, Conv
  <2> QED
    BY <1>7, <2>5, <2>6, <2>7
<1>8. ASSUME k = c, c \notin processing PROVE Matches(k)' /\ Service(k)' /\ Waiting(k)'
  <2>1. order[c] \in Seq(Deliveries) /\ served[c] \in Seq(Deliveries)
    BY <1>1 DEF TypeOK
  <2>2. queues[c] = <<>> /\ CaughtUp(order[c], served[c])
    BY <1>3, <1>8 DEF Matches
  <2>3. /\ order'[c] = Append(order[c], d) /\ queues'[c] = <<>>
        /\ c \in processing' /\ at'[d] = "history" /\ served'[c] = served[c]
    BY <1>1, <1>8, <2>2 DEF EnqueueConversationTask, Goes, TypeOK
  <2>4. /\ Behind(Append(order[c], d), served[c], <<>>)
        /\ Append(order[c], d)[Len(served[c]) + 1] = d
    <3>1. Behind(Append(order[c], d), served[c], <<>>)
      BY <2>1, <2>2, BehindStart
    <3>2. Append(order[c], d)[Len(order[c]) + 1] = d
      BY <2>1, AppendType
    <3> QED
      BY <2>2, <3>1, <3>2 DEF CaughtUp
  <2>5. Matches(c)'
    BY <2>3, <2>4 DEF Matches
  <2>6. Service(c)'
    <3>1. Busy(d)' /\ \A e \in Deliveries : e # d => (Busy(e)' <=> Busy(e))
      BY <1>5, <2>3 DEF Busy, Running
    <3>2. Current(c)' = d
      BY <2>3, <2>4 DEF Current
    <3> QED
      BY <1>3, <1>8, <2>3, <3>1, <3>2 DEF Service, Conv
  <2>7. Waiting(c)'
    BY <2>3 DEF Waiting
  <2> QED
    BY <1>8, <2>5, <2>6, <2>7
<1> QED
  BY <1>1, <1>6, <1>7, <1>8 DEF TypeOK

\* The end of a task keeps the shape of the queues.
LEMMA QFinish ==
  ASSUME QInv, TypeOK', NEW d \in Deliveries, SendAndFinish(d)
  PROVE  QInv'
<1> PICK c \in Conversations : c = Conv(d)
  BY ConvType
<1>1. /\ TypeOK /\ at[d] \in {"send", "sent"} /\ Busy(d)
      /\ served' = [served EXCEPT ![c] = Append(@, d)] /\ order' = order
  BY DEF QInv, SendAndFinish, Replied, Busy, Running
<1>2. Matches(c) /\ Service(c) /\ Waiting(c)
  BY DEF QInv
<1>3. c \in processing /\ d = Current(c)
  BY <1>1, <1>2 DEF Service
<1>4. Behind(order[c], served[c], queues[c])
  BY <1>2, <1>3 DEF Matches
<1>5. /\ queues[c] \in Seq(Deliveries) /\ order[c] \in Seq(Deliveries)
      /\ served[c] \in Seq(Deliveries) /\ order'[c] = order[c]
      /\ served'[c] = Append(served[c], d)
  BY <1>1 DEF TypeOK
<1>6. SUFFICES ASSUME NEW k \in Conversations
               PROVE  Matches(k)' /\ Service(k)' /\ Waiting(k)'
  BY DEF QInv
<1>7. Matches(k) /\ Service(k) /\ Waiting(k)
  BY DEF QInv
<1>8. \A i \in 1 .. Len(queues[k]) : queues[k][i] \in Deliveries
  BY <1>1, EntryType DEF TypeOK
<1>9. ASSUME queues[c] # <<>> PROVE Matches(k)' /\ Service(k)' /\ Waiting(k)'
  <2> DEFINE q == queues[c]
  <2> PICK h \in Deliveries : h = Head(queues[c])
    BY <1>5, <1>9, TailType
  <2>1. /\ Tail(q) \in Seq(Deliveries) /\ h = q[1] /\ Len(q) \in Nat /\ Len(q) > 0
        /\ Len(Tail(q)) = Len(q) - 1
        /\ \A i \in 1 .. Len(Tail(q)) : Tail(q)[i] = q[i + 1]
    BY <1>5, <1>9, TailType
  <2>2. /\ queues' = [queues EXCEPT ![c] = Tail(@)]
        /\ at' = [at EXCEPT ![d] = "done", ![h] = "history"]
        /\ processing' = processing
    BY <1>9 DEF SendAndFinish
  <2>3. 1 \in 1 .. Len(q)
    BY <2>1
  <2>4. at[h] = "waiting" /\ Conv(h) = c
    BY <1>2, <2>1, <2>3 DEF Waiting
  <2>5. /\ h # d /\ at'[h] = "history" /\ at'[d] = "done"
        /\ \A e \in Deliveries : e # d /\ e # h => at'[e] = at[e]
    BY <1>1, <2>2, <2>4 DEF TypeOK
  <2>6. CASE k # c
    <3>1. /\ order'[k] = order[k] /\ queues'[k] = queues[k]
          /\ (k \in processing' <=> k \in processing) /\ served'[k] = served[k]
      BY <1>1, <2>2, <2>6 DEF TypeOK
    <3>2. Matches(k)'
      BY <1>7, <3>1 DEF Matches
    <3>3. Service(k)'
      BY <1>7, <2>4, <2>5, <2>6, <3>1 DEF Service, Current, Busy, Conv
    <3>4. \A i \in 1 .. Len(queues[k]) : queues[k][i] # d /\ queues[k][i] # h
      BY <1>7, <2>4, <2>6 DEF Waiting
    <3>5. Waiting(k)'
      BY <1>7, <1>8, <2>5, <3>1, <3>4 DEF Waiting, Conv
    <3> QED
      BY <3>2, <3>3, <3>5
  <2>7. CASE k = c
    <3>1. queues'[c] = Tail(q) /\ c \in processing'
      BY <1>1, <1>3, <2>2 DEF TypeOK
    <3>2. /\ Behind(order[c], Append(served[c], d), Tail(queues[c]))
          /\ order[c][Len(served[c]) + 1 + 1] = Head(queues[c])
      <4>1. d = order[c][Len(served[c]) + 1]
        BY <1>3 DEF Current
      <4> QED
        BY <1>4, <1>5, <1>9, <4>1, BehindFinish, NextIsHead
    <3>7. Len(Append(served[c], d)) = Len(served[c]) + 1
      BY <1>5, AppendType
    <3>3. Matches(c)'
      BY <1>5, <3>1, <3>2 DEF Matches
    <3>4. Service(c)'
      <4>1. Current(c)' = h
        BY <1>5, <3>2, <3>7 DEF Current
      <4>2. /\ Busy(h)' /\ ~Busy(d)'
            /\ \A e \in Deliveries : e # d /\ e # h => (Busy(e)' <=> Busy(e))
        BY <2>5 DEF Busy, Running
      <4>3. \A e \in Deliveries : Conv(e) = c /\ Busy(e) => e = d
        BY <1>2, <1>3 DEF Service
      <4> QED
        BY <2>4, <2>5, <3>1, <4>1, <4>2, <4>3 DEF Service, Conv
    <3>5. Waiting(c)'
      <4>1. \A i \in 1 .. Len(Tail(q)) :
              i + 1 \in 1 .. Len(q) /\ i + 1 # 1 /\ Tail(q)[i] = q[i + 1]
        BY <2>1
      <4>2. \A i \in 1 .. Len(q) : /\ q[i] \in Deliveries /\ at[q[i]] = "waiting"
                                   /\ Conv(q[i]) = c /\ q[i] # d
        BY <1>1, <1>2, <1>8, <2>7 DEF Waiting
      <4>3. \A i, j \in 1 .. Len(q) : q[i] = q[j] => i = j
        BY <1>2 DEF Waiting
      <4>4. \A i \in 1 .. Len(Tail(q)) : Tail(q)[i] # h
        BY <2>1, <2>3, <4>1, <4>3
      <4>5. \A i \in 1 .. Len(Tail(q)) :
              at'[Tail(q)[i]] = "waiting" /\ Conv(Tail(q)[i]) = c
        BY <2>5, <4>1, <4>2, <4>4
      <4>6. \A i, j \in 1 .. Len(Tail(q)) : Tail(q)[i] = Tail(q)[j] => i = j
        <5> SUFFICES ASSUME NEW i \in 1 .. Len(Tail(q)), NEW j \in 1 .. Len(Tail(q)),
                            Tail(q)[i] = Tail(q)[j]
                     PROVE  i = j
          OBVIOUS
        <5>1. i + 1 = j + 1
          BY <4>1, <4>3
        <5> QED
          BY <2>1, <5>1
      <4>7. \A i \in 1 .. Len(queues'[c]) :
              at'[queues'[c][i]] = "waiting" /\ Conv(queues'[c][i]) = c
        BY <3>1, <4>5
      <4>8. \A i, j \in 1 .. Len(queues'[c]) :
              queues'[c][i] = queues'[c][j] => i = j
        BY <3>1, <4>6
      <4> QED
        BY <4>7, <4>8 DEF Waiting, Conv
    <3> QED
      BY <2>7, <3>3, <3>4, <3>5
  <2> QED
    BY <2>6, <2>7
<1>10. ASSUME queues[c] = <<>> PROVE Matches(k)' /\ Service(k)' /\ Waiting(k)'
  <2>1. /\ queues' = queues /\ processing' = processing \ {c}
        /\ at' = [at EXCEPT ![d] = "done"]
    BY <1>10 DEF SendAndFinish, Goes
  <2>2. at'[d] = "done" /\ \A e \in Deliveries : e # d => at'[e] = at[e]
    BY <1>1, <2>1 DEF TypeOK
  <2>3. ~Busy(d)' /\ \A e \in Deliveries : e # d => (Busy(e)' <=> Busy(e))
    BY <2>2 DEF Busy, Running
  <2>4. Waiting(k)'
    BY <1>1, <1>7, <1>8, <2>1, <2>2 DEF Waiting, Conv
  <2>5. CASE k # c
    <3>1. /\ order'[k] = order[k] /\ served'[k] = served[k]
          /\ (k \in processing' <=> k \in processing)
      BY <1>1, <2>1, <2>5 DEF TypeOK
    <3>2. Matches(k)'
      BY <1>7, <2>1, <3>1 DEF Matches
    <3>3. Service(k)'
      BY <1>7, <2>3, <2>5, <3>1 DEF Service, Current, Conv
    <3> QED
      BY <2>4, <3>2, <3>3
  <2>6. CASE k = c
    <3>1. CaughtUp(order[c], Append(served[c], d))
      BY <1>3, <1>4, <1>5, <1>10, BehindIdle DEF Current
    <3>2. Matches(c)'
      BY <1>5, <1>10, <2>1, <3>1 DEF Matches
    <3>3. \A e \in Deliveries : Conv(e) = c /\ Busy(e) => e = d
      BY <1>2, <1>3 DEF Service
    <3>4. Service(c)'
      BY <2>1, <2>3, <3>3 DEF Service, Conv
    <3> QED
      BY <2>4, <2>6, <3>2, <3>4
  <2> QED
    BY <2>5, <2>6
<1> QED
  BY <1>9, <1>10

\* A restart empties the queues.
LEMMA QCrash ==
  ASSUME QInv, TypeOK', Crash
  PROVE  QInv'
<1>1. /\ processing' = {} /\ queues' = [c \in Conversations |-> <<>>]
      /\ order' = [c \in Conversations |-> <<>>]
      /\ served' = [c \in Conversations |-> <<>>]
  BY DEF Crash
<1>2. \A d \in Deliveries : ~Busy(d)'
  BY DEF Crash, Busy, Ended, Running
<1>3. Len(<<>>) = 0
  OBVIOUS
<1>4. SUFFICES ASSUME NEW c \in Conversations
               PROVE  Matches(c)' /\ Service(c)' /\ Waiting(c)'
  BY DEF QInv
<1>5. c \notin processing' /\ queues'[c] = <<>> /\ order'[c] = <<>> /\ served'[c] = <<>>
  BY <1>1
<1>6. Matches(c)'
  BY <1>3, <1>5 DEF Matches, CaughtUp, Prefix
<1>7. Service(c)'
  BY <1>2, <1>5 DEF Service
<1>8. Waiting(c)'
  BY <1>3, <1>5 DEF Waiting
<1> QED
  BY <1>6, <1>7, <1>8

LEMMA QInit == Init => QInv
<1> SUFFICES ASSUME Init PROVE QInv
  OBVIOUS
<1>1. TypeOK
  BY TypeInit
<1>2. \A d \in Deliveries : ~Busy(d)
  BY DEF Init, Busy, Running
<1>3. Len(<<>>) = 0
  OBVIOUS
<1>4. SUFFICES ASSUME NEW c \in Conversations
               PROVE  Matches(c) /\ Service(c) /\ Waiting(c)
  BY <1>1 DEF QInv
<1>5. c \notin processing /\ queues[c] = <<>> /\ order[c] = <<>> /\ served[c] = <<>>
  BY DEF Init
<1>6. Matches(c)
  BY <1>3, <1>5 DEF Matches, CaughtUp, Prefix
<1>7. Service(c)
  BY <1>2, <1>5 DEF Service
<1>8. Waiting(c)
  BY <1>3, <1>5 DEF Waiting
<1> QED
  BY <1>6, <1>7, <1>8

\* What the steps other than enqueueing, ending a task and a restart do to the
\* queues: nothing, and no call enters or leaves a running task.
LEMMA QOther ==
  ASSUME QInv, TypeOK', NEW d \in Deliveries,
         \/ Receive(d) \/ LookupFails(d) \/ ChannelFound(d)
         \/ ClaimWebhookMessageOnce(d) \/ ReadHistory(d) \/ PersistUser(d)
         \/ PersistAssistant(d) \/ PersistFails(d) \/ QueueReply(d)
  PROVE  QInv'
<1>1. UNCHANGED queue
  BY DEF Receive, LookupFails, ChannelFound, ClaimWebhookMessageOnce, ReadHistory,
     PersistUser, PersistAssistant, PersistFails, QueueReply, queue
<1>2. at \in [Deliveries -> Places]
  BY DEF QInv, TypeOK
<1>3. \E place \in Places :
        /\ at' = [at EXCEPT ![d] = place]
        /\ at[d] # "waiting" /\ (place \in Running <=> at[d] \in Running)
  BY DEF Receive, LookupFails, ChannelFound, ClaimWebhookMessageOnce, Pass,
     ReadHistory, PersistUser, PersistAssistant, PersistFails, QueueReply, Goes,
     Places, Handling, Running, Ended
<1>4. PICK place \in Places :
        /\ at' = [at EXCEPT ![d] = place]
        /\ at[d] # "waiting" /\ (place \in Running <=> at[d] \in Running)
  BY <1>3
<1>5. \A e \in Deliveries : /\ Busy(e)' <=> Busy(e)
                            /\ at[e] = "waiting" => at'[e] = "waiting"
  BY <1>2, <1>4 DEF Busy
<1> QED
  BY <1>1, <1>5, QFrame

LEMMA QStep == QInv /\ [Next]_vars => QInv'
<1> SUFFICES ASSUME QInv, [Next]_vars PROVE QInv'
  OBVIOUS
<1>1. TypeOK'
  BY TypeStep DEF QInv
<1>2. ASSUME NEW d \in Deliveries, Receive(d) \/ Handler(d) \/ Task(d)
      PROVE  QInv'
  <2>1. CASE AgentFound(d)
    BY <1>1, <2>1, QEnqueue
  <2>2. CASE SendAndFinish(d)
    BY <1>1, <2>2, QFinish
  <2>3. CASE ~AgentFound(d) /\ ~SendAndFinish(d)
    <3>1. \/ Receive(d) \/ LookupFails(d) \/ ChannelFound(d)
          \/ ClaimWebhookMessageOnce(d) \/ ReadHistory(d) \/ PersistUser(d)
          \/ PersistAssistant(d) \/ PersistFails(d) \/ QueueReply(d)
      BY <1>2, <2>3 DEF Handler, Task
    <3> QED
      BY <1>1, <3>1, QOther
  <2> QED
    BY <2>1, <2>2, <2>3
<1>3. ASSUME NEW r \in {"up", "error", "down"}, RedisBecomes(r) PROVE QInv'
  BY <1>1, <1>3, QFrame DEF RedisBecomes, Busy
<1>4. ASSUME NEW m \in Messages, ClaimExpires(m) PROVE QInv'
  BY <1>1, <1>4, QFrame DEF ClaimExpires, Busy
<1>5. CASE Crash
  BY <1>1, <1>5, QCrash
<1>6. CASE UNCHANGED vars
  BY <1>1, <1>6, QFrame DEF vars, Busy
<1> QED
  BY <1>2, <1>3, <1>4, <1>5, <1>6 DEF Next

\* In the shape of the queues a conversation has one task or is idle.
LEMMA QInvOneTask == QInv => OneTaskOrIdle
<1> SUFFICES ASSUME QInv, NEW c \in Conversations
             PROVE  IF c \in processing THEN \E d \in Deliveries : InService(c) = {d}
                                        ELSE InService(c) = {} /\ queues[c] = <<>>
  BY DEF OneTaskOrIdle
<1>1. Matches(c) /\ Service(c)
  BY DEF QInv
<1>2. CASE c \in processing
  <2>1. Behind(order[c], served[c], queues[c])
    BY <1>1, <1>2 DEF Matches
  <2>2. /\ order[c] \in Seq(Deliveries) /\ served[c] \in Seq(Deliveries)
        /\ queues[c] \in Seq(Deliveries)
    BY DEF QInv, TypeOK
  <2>3. Len(served[c]) + 1 \in 1 .. Len(order[c])
    BY <2>1, <2>2, CurrentInOrder
  <2>4. PICK d \in Deliveries : d = Current(c)
    BY <2>2, <2>3, EntryType DEF Current
  <2>5. InService(c) = {d}
    BY <1>1, <1>2, <2>4 DEF Service, InService, Busy
  <2> QED
    BY <1>2, <2>5
<1>3. CASE c \notin processing
  BY <1>1, <1>3 DEF Matches, Service, InService, Busy
<1> QED
  BY <1>2, <1>3

\* And its tasks ended in the order in which they came.
LEMMA QInvOrder == QInv => AnsweredInOrder
<1> SUFFICES ASSUME QInv, NEW c \in Conversations
             PROVE  /\ Len(served[c]) <= Len(order[c])
                    /\ \A i \in 1 .. Len(served[c]) : served[c][i] = order[c][i]
  BY DEF AnsweredInOrder
<1>1. Matches(c)
  BY DEF QInv
<1>2. /\ Len(served[c]) \in Nat /\ Len(order[c]) \in Nat /\ Len(queues[c]) \in Nat
  <2>1. /\ order[c] \in Seq(Deliveries) /\ served[c] \in Seq(Deliveries)
        /\ queues[c] \in Seq(Deliveries)
    BY DEF QInv, TypeOK
  <2> QED
    BY <2>1, LenProperties
<1>3. \A i \in 1 .. Len(served[c]) : served[c][i] = order[c][i]
  BY <1>1 DEF Matches, Behind, CaughtUp, Prefix
<1>4. CASE c \in processing
  <2>1. Len(order[c]) = Len(served[c]) + 1 + Len(queues[c])
    BY <1>1, <1>4 DEF Matches, Behind
  <2>2. Len(served[c]) <= Len(order[c])
    <3>1. \A k, n \in Nat : k <= k + 1 + n
      OBVIOUS
    <3> QED
      BY <1>2, <2>1, <3>1
  <2> QED
    BY <1>3, <2>2
<1>5. CASE c \notin processing
  <2>1. Len(order[c]) = Len(served[c])
    BY <1>1, <1>5 DEF Matches, CaughtUp
  <2>2. Len(served[c]) <= Len(order[c])
    <3>1. \A n \in Nat : n <= n
      OBVIOUS
    <3> QED
      BY <1>2, <2>1, <3>1
  <2> QED
    BY <1>3, <2>2
<1> QED
  BY <1>4, <1>5

\* A conversation runs one task at a time, whatever the number of webhook
\* calls, and never marks itself idle with a task waiting.
THEOREM OneTaskAtATime == Spec => []OneTaskOrIdle
BY QInit, QStep, QInvOneTask, PTL DEF Spec

\* Replies leave in the order in which their webhooks enqueued them.
THEOREM RepliesInOrder == Spec => []AnsweredInOrder
BY QInit, QStep, QInvOrder, PTL DEF Spec

----------------------------------------------------------------------------
\* One task at a time means that nobody writes between a reply's read of the
\* history and its two rows.
LEMMA SoleWriter ==
  ASSUME QInv, NEW d \in Deliveries, NEW e \in Deliveries,
         Conv(d) = Conv(e), Busy(d), Busy(e)
  PROVE  d = e
<1>1. Conv(d) \in Conversations
  BY ConvType
<1>2. Service(Conv(d))
  BY <1>1 DEF QInv
<1> QED
  BY <1>2 DEF Service

LEMMA HStep == HInv /\ [Next]_vars => HInv'
<1> SUFFICES ASSUME HInv, [Next]_vars PROVE HInv'
  OBVIOUS
<1> USE ConvType
<1>1. QInv /\ QInv' /\ TypeOK /\ TypeOK'
  BY QStep, TypeStep DEF HInv, QInv
<1>2. SUFFICES ASSUME NEW e \in Deliveries
               PROVE  AsRead(e)'
  BY <1>1 DEF HInv, HistoryIsCurrent, AsRead, Conv
<1>3. AsRead(e)
  BY DEF HInv, HistoryIsCurrent, AsRead
<1>4. /\ at \in [Deliveries -> Places]
      /\ seen \in [Deliveries -> Seq(Deliveries \X Roles)]
  BY <1>1 DEF TypeOK
<1>5. ASSUME UNCHANGED rows,
             at'[e] \in {"user", "assistant"} => at'[e] = at[e]
      PROVE  AsRead(e)'
  BY <1>3, <1>5 DEF AsRead, Conv, rows
<1>6. ASSUME NEW d \in Deliveries,
             \/ Receive(d) \/ LookupFails(d) \/ ChannelFound(d)
             \/ ClaimWebhookMessageOnce(d) \/ AgentFound(d) \/ PersistFails(d)
             \/ QueueReply(d) \/ SendAndFinish(d)
      PROVE  AsRead(e)'
  <2>1. UNCHANGED rows
    BY <1>6 DEF Receive, LookupFails, ChannelFound, ClaimWebhookMessageOnce,
       AgentFound, PersistFails, QueueReply, SendAndFinish, rows
  <2>2. CASE SendAndFinish(d)
    <3>1. queues[Conv(d)] # <<>> => Head(queues[Conv(d)]) \in Deliveries
      BY <1>1, TailType DEF TypeOK
    <3>2. at'[e] \in {"user", "assistant"} => at'[e] = at[e]
      BY <1>4, <2>2, <3>1 DEF SendAndFinish, Goes
    <3> QED
      BY <1>5, <2>1, <3>2
  <2>3. CASE ~SendAndFinish(d)
    <3>1. at'[e] \in {"user", "assistant"} => at'[e] = at[e]
      BY <1>4, <1>6, <2>3 DEF Receive, LookupFails, ChannelFound,
         ClaimWebhookMessageOnce, Pass, AgentFound, EnqueueConversationTask,
         PersistFails, QueueReply, Goes
    <3> QED
      BY <1>5, <2>1, <3>1
  <2> QED
    BY <2>2, <2>3
<1>7. ASSUME NEW d \in Deliveries, ReadHistory(d)
      PROVE  AsRead(e)'
  BY <1>3, <1>4, <1>7 DEF AsRead, Conv, ReadHistory, Goes
<1>8. ASSUME NEW d \in Deliveries, PersistUser(d) \/ PersistAssistant(d)
      PROVE  AsRead(e)'
  <2>1. /\ at[d] \in {"user", "assistant"} /\ Busy(d)
        /\ seen' = seen /\ unread' = unread
        /\ at' = [at EXCEPT ![d] = IF at[d] = "user" THEN "assistant" ELSE "send"]
    BY <1>8 DEF PersistUser, PersistAssistant, Goes, Busy, Running
  <2>2. /\ log \in [Conversations -> Seq(Deliveries \X Roles)]
        /\ <<d, "user">> \in Deliveries \X Roles
        /\ <<d, "assistant">> \in Deliveries \X Roles
    BY <1>1 DEF TypeOK, Roles
  <2>3. \E row \in Deliveries \X Roles :
          log' = [log EXCEPT ![Conv(d)] = Append(@, row)]
    BY <1>8, <2>2 DEF PersistUser, PersistAssistant
  <2>4. CASE e = d
    <3>1. PICK row \in Deliveries \X Roles :
            log' = [log EXCEPT ![Conv(d)] = Append(@, row)]
      BY <2>3
    <3>2. log'[Conv(d)] = Append(log[Conv(d)], row)
      BY <2>2, <3>1
    <3>3. SubSeq(log'[Conv(d)], 1, Len(log'[Conv(d)]) - 1) = log[Conv(d)]
      BY <2>2, <3>2, WithoutLast
    <3>4. at[d] = "user" => at'[d] = "assistant"
      BY <1>4, <2>1
    <3>5. at[d] = "assistant" => at'[d] = "send"
      BY <1>4, <2>1
    <3> QED
      BY <1>3, <2>1, <2>4, <3>3, <3>4, <3>5 DEF AsRead, Conv
  <2>5. CASE e # d
    <3>1. at'[e] = at[e]
      BY <1>4, <2>1, <2>5
    <3>2. CASE Conv(e) # Conv(d)
      <4>1. log'[Conv(e)] = log[Conv(e)]
        BY <2>2, <2>3, <3>2
      <4> QED
        BY <1>3, <2>1, <3>1, <4>1 DEF AsRead, Conv
    <3>3. CASE Conv(e) = Conv(d)
      <4>1. ~Busy(e)
        BY <1>1, <2>1, <2>5, <3>3, SoleWriter
      <4> QED
        BY <3>1, <4>1 DEF AsRead, Busy, Running
    <3> QED
      BY <3>2, <3>3
  <2> QED
    BY <2>4, <2>5
<1>9. CASE \/ \E r \in {"up", "error", "down"} : RedisBecomes(r)
           \/ \E m \in Messages : ClaimExpires(m)
           \/ UNCHANGED vars
  BY <1>5, <1>9 DEF RedisBecomes, ClaimExpires, vars
<1>10. CASE Crash
  BY <1>4, <1>5, <1>10 DEF Crash, Ended
<1> QED
  BY <1>6, <1>7, <1>8, <1>9, <1>10 DEF Next, Handler, Task

\* A reply whose history query did not fail is written to the conversation it
\* was generated from: between the read of the newest rows and the two inserts
\* nobody else adds a row to it, for any limit on the rows.
THEOREM RepliesSeeHistory == Spec => []HistoryIsCurrent
<1>1. Init => HInv
  BY QInit DEF HInv, HistoryIsCurrent, Init
<1>2. HInv => HistoryIsCurrent
  BY DEF HInv
<1> QED
  BY <1>1, <1>2, HStep, PTL DEF Spec

----------------------------------------------------------------------------
\* The calls admitted for a message are counted by its lapses and its key.
LEMMA AdmittedFinite ==
  ASSUME TypeOK, NEW m \in Messages
  PROVE  IsFiniteSet(Admitted(m)) /\ Cardinality(Admitted(m)) \in Nat
<1>1. Admitted(m) \subseteq Deliveries
  BY DEF TypeOK, Admitted
<1> QED
  BY <1>1, InboundAssumption, FS_Subset, FS_CardinalityType DEF InboundAssumption

\* One more call in a finite set that does not hold it.
LEMMA OneMore ==
  ASSUME NEW S, IsFiniteSet(S), NEW d, d \notin S, NEW T, T = S \cup {d}
  PROVE  Cardinality(T) = Cardinality(S) + 1
BY FS_AddElement

\* A step that admits nobody and leaves the keys and the lapses alone.
LEMMA CFrame ==
  ASSUME CInv, TypeOK', UNCHANGED <<admitted, claims, lapses>>,
         \A d \in Deliveries : at[d] \notin {"idle", "lookup", "claim"}
                               => at'[d] \notin {"idle", "lookup", "claim"}
  PROVE  CInv'
BY DEF CInv, TypeOK, Admitted, Counted

LEMMA CClaim ==
  ASSUME CInv, TypeOK', NEW d \in Deliveries, ClaimWebhookMessageOnce(d)
  PROVE  CInv'
<1> PICK m \in Messages : m = MessageOf[d]
  BY InboundAssumption DEF InboundAssumption
<1>1. /\ TypeOK /\ at \in [Deliveries -> Places] /\ at[d] = "claim"
      /\ d \notin admitted
  BY DEF CInv, TypeOK, ClaimWebhookMessageOnce
<1>2. \A n \in Messages : IsFiniteSet(Admitted(n)) /\ Cardinality(Admitted(n)) \in Nat
  BY <1>1, AdmittedFinite
<1>3. Keyed \subseteq Messages
  BY InboundAssumption DEF InboundAssumption
<1>4. \A n \in Keyed : Counted(n)
  BY DEF CInv
<1>5. CASE admitted' = admitted
  <2>1. claims' = claims /\ lapses' = lapses /\ at' = [at EXCEPT ![d] = "ignored"]
    BY <1>1, <1>5 DEF ClaimWebhookMessageOnce, Pass, Goes
  <2> QED
    BY <1>1, <1>5, <2>1, CFrame
<1>6. CASE admitted' = admitted \cup {d} /\ at' = [at EXCEPT ![d] = "agent"]
  <2>1. \A e \in admitted' : at'[e] \notin {"idle", "lookup", "claim"}
    BY <1>1, <1>6 DEF CInv, TypeOK
  <2>2. \A n \in Messages : n # m => Admitted(n)' = Admitted(n)
    BY <1>6 DEF Admitted
  <2>3. Admitted(m)' = Admitted(m) \cup {d} /\ d \notin Admitted(m)
    BY <1>1, <1>6 DEF Admitted
  <2>4. Cardinality(Admitted(m)') = Cardinality(Admitted(m)) + 1
    BY <1>2, <2>3, OneMore
  <2>5. \/ m \notin Keyed /\ claims' = claims /\ lapses' = lapses
        \/ m \notin claims /\ claims' = claims \cup {m} /\ lapses' = lapses
        \/ claims' = claims /\ lapses' = [lapses EXCEPT ![m] = @ + 1]
    BY <1>1, <1>6 DEF ClaimWebhookMessageOnce, Pass, Goes
  <2>6. ASSUME NEW n \in Keyed, n # m PROVE Counted(n)'
    <3>1. (n \in claims' <=> n \in claims) /\ lapses'[n] = lapses[n]
      BY <1>1, <1>3, <2>5, <2>6 DEF TypeOK
    <3> QED
      BY <1>3, <1>4, <2>2, <2>6, <3>1 DEF Counted
  <2>7. ASSUME m \in Keyed PROVE Counted(m)'
    <3>1. lapses[m] \in Nat /\ lapses'[m] \in Nat /\ Counted(m)
      BY <1>1, <1>4, <2>7 DEF TypeOK
    <3>2. CASE m \notin claims /\ claims' = claims \cup {m} /\ lapses' = lapses
      BY <1>2, <2>4, <3>1, <3>2 DEF Counted
    <3>3. CASE claims' = claims /\ lapses' = [lapses EXCEPT ![m] = @ + 1]
      <4>1. lapses'[m] = lapses[m] + 1
        BY <1>1, <3>3 DEF TypeOK
      <4> QED
        BY <1>2, <2>4, <3>1, <3>3, <4>1 DEF Counted
    <3> QED
      BY <2>5, <2>7, <3>2, <3>3
  <2> QED
    BY <2>1, <2>6, <2>7 DEF CInv
<1> QED
  BY <1>5, <1>6 DEF ClaimWebhookMessageOnce, Pass, Goes

LEMMA CExpire ==
  ASSUME CInv, TypeOK', NEW m \in Messages, ClaimExpires(m)
  PROVE  CInv'
<1>1. /\ TypeOK /\ m \in claims /\ claims' = claims \ {m}
      /\ lapses' = [lapses EXCEPT ![m] = @ + 1]
      /\ admitted' = admitted /\ at' = at
  BY DEF CInv, ClaimExpires
<1>2. Keyed \subseteq Messages
  BY InboundAssumption DEF InboundAssumption
<1>3. ASSUME NEW n \in Keyed PROVE Counted(n)'
  <2>1. Counted(n) /\ lapses[n] \in Nat /\ Admitted(n)' = Admitted(n)
    BY <1>1, <1>2, <1>3 DEF CInv, TypeOK, Admitted
  <2>2. CASE n = m
    <3>1. lapses'[n] = lapses[n] + 1 /\ n \in claims /\ n \notin claims'
      BY <1>1, <2>2 DEF TypeOK
    <3> QED
      BY <2>1, <3>1 DEF Counted
  <2>3. CASE n # m
    <3>1. lapses'[n] = lapses[n] /\ (n \in claims' <=> n \in claims)
      BY <1>1, <1>2, <2>3 DEF TypeOK
    <3> QED
      BY <2>1, <3>1 DEF Counted
  <2> QED
    BY <2>2, <2>3
<1> QED
  BY <1>1, <1>3 DEF CInv

LEMMA CStep == CInv /\ [Next]_vars => CInv'
<1> SUFFICES ASSUME CInv, [Next]_vars PROVE CInv'
  OBVIOUS
<1>1. TypeOK /\ TypeOK' /\ at \in [Deliveries -> Places]
  BY TypeStep DEF CInv, TypeOK
<1>2. ASSUME NEW d \in Deliveries,
             \/ Receive(d) \/ LookupFails(d) \/ ChannelFound(d) \/ AgentFound(d)
             \/ ReadHistory(d) \/ PersistUser(d) \/ PersistAssistant(d)
             \/ PersistFails(d) \/ QueueReply(d) \/ SendAndFinish(d)
      PROVE  CInv'
  <2>1. UNCHANGED <<admitted, claims, lapses>>
    BY <1>2 DEF Receive, LookupFails, ChannelFound, AgentFound, ReadHistory,
       PersistUser, PersistAssistant, PersistFails, QueueReply, SendAndFinish, claim
  <2>2. queues[Conv(d)] # <<>> => Head(queues[Conv(d)]) \in Deliveries
    BY <1>1, ConvType, TailType DEF TypeOK
  <2>3. \A e \in Deliveries : at[e] \notin {"idle", "lookup", "claim"}
                              => at'[e] \notin {"idle", "lookup", "claim"}
    <3>1. CASE SendAndFinish(d)
      BY <1>1, <2>2, <3>1 DEF SendAndFinish, Goes
    <3>2. CASE ~SendAndFinish(d)
      BY <1>1, <1>2, <3>2 DEF Receive, LookupFails, ChannelFound, AgentFound,
         EnqueueConversationTask, ReadHistory, PersistUser, PersistAssistant,
         PersistFails, QueueReply, Goes
    <3> QED
      BY <3>1, <3>2
  <2> QED
    BY <1>1, <2>1, <2>3, CFrame
<1>3. ASSUME NEW d \in Deliveries, ClaimWebhookMessageOnce(d) PROVE CInv'
  BY <1>1, <1>3, CClaim
<1>4. ASSUME NEW r \in {"up", "error", "down"}, RedisBecomes(r) PROVE CInv'
  BY <1>1, <1>4, CFrame DEF RedisBecomes
<1>5. ASSUME NEW m \in Messages, ClaimExpires(m) PROVE CInv'
  BY <1>1, <1>5, CExpire
<1>6. CASE Crash
  <2>1. \A e \in Deliveries : at[e] \notin {"idle", "lookup", "claim"}
                              => at'[e] \notin {"idle", "lookup", "claim"}
    BY <1>6 DEF Crash
  <2> QED
    BY <1>1, <1>6, <2>1, CFrame DEF Crash, claim
<1>7. CASE UNCHANGED vars
  BY <1>1, <1>7, CFrame DEF vars, claim
<1> QED
  BY <1>2, <1>3, <1>4, <1>5, <1>6, <1>7 DEF Next, Handler, Task

\* A message with a key passes the claim at most once, and once more for each
\* time its key expired or Redis failed, for any number of redeliveries.
THEOREM ClaimedOnce == Spec => []OncePerClaim
<1>1. Init => CInv
  <2> SUFFICES ASSUME Init PROVE CInv
    OBVIOUS
  <2>1. \A m \in Keyed : Admitted(m) = {} /\ lapses[m] = 0
    BY InboundAssumption DEF InboundAssumption, Init, Admitted
  <2> QED
    BY <2>1, TypeInit, FS_EmptySet DEF CInv, Counted, Init
<1>2. CInv => OncePerClaim
  <2> SUFFICES ASSUME CInv, NEW m \in Keyed
               PROVE  Cardinality({d \in admitted : MessageOf[d] = m}) <= 1 + lapses[m]
    BY DEF OncePerClaim
  <2>1. m \in Messages /\ lapses[m] \in Nat /\ Cardinality(Admitted(m)) \in Nat
    BY InboundAssumption, AdmittedFinite DEF InboundAssumption, CInv, TypeOK
  <2>2. Counted(m)
    BY DEF CInv
  <2> QED
    BY <2>1, <2>2 DEF Counted, Admitted
<1> QED
  BY <1>1, <1>2, CStep, PTL DEF Spec

============================================================================
