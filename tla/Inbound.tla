------------------------------ MODULE Inbound ------------------------------
(***************************************************************************)
(* Messages from WhatsApp: the webhook handlers (evolutionWebhook and      *)
(* wahaWebhook controllers, POST /agents/webhook), the Redis claim that    *)
(* refuses a second delivery of a message (evolutionWebhookDedup), the     *)
(* in-memory queue of each conversation (conversationQueueService) and the *)
(* steps of messagePipeline that read and write the conversation.          *)
(*                                                                         *)
(* One server process, restarted by pm2 after a crash.  Every await is a   *)
(* step boundary.  What the prompt holds and what the model answers is     *)
(* left out; openaiService never throws.                                   *)
(***************************************************************************)
EXTENDS Naturals, Sequences, FiniteSets

CONSTANTS
  Deliveries,     \* webhook calls
  Messages,       \* WhatsApp messages
  Conversations,  \* conversationKey values
  MessageOf,      \* the message a webhook call carries
  ConversationOf, \* the conversation of a message
  Direct,         \* calls of the handlers that make no claim
  Keyed,          \* messages that buildMessagesUpsertDedupKey finds a key for
  ViaQueue,       \* calls whose reply goes to Evolution, by a job of the queue
  HistoryLimit,   \* rows a history query reads at most (10 in the code)
  MaxExpiries,    \* claims that may outlive EVOLUTION_WEBHOOK_DEDUP_TTL_SEC
  MaxCrashes      \* restarts of the process

ASSUME InboundAssumption ==
  /\ IsFiniteSet(Deliveries)
  /\ MessageOf \in [Deliveries -> Messages]
  /\ ConversationOf \in [Messages -> Conversations]
  /\ Direct \subseteq Deliveries /\ Keyed \subseteq Messages
  /\ ViaQueue \subseteq Deliveries /\ HistoryLimit \in Nat \ {0}
  /\ MaxExpiries \in Nat /\ MaxCrashes \in Nat

VARIABLES
  at,         \* how far each webhook call has come
  redis,      \* the server the claims are kept in
  claims,     \* dedup keys it holds
  processing, \* conversations that processing holds true for
  queues,     \* queues of conversationQueueService
  log,        \* rows of the messages table, per conversation
  seen,       \* the rows the call's history query returned
  unread,     \* ghost: calls whose history query failed
  admitted,   \* ghost: calls that passed the claim
  lapses,     \* ghost: keys that expired or were let through without Redis
  order,      \* ghost: tasks of this process, in the order of enqueueing
  served,     \* ghost: tasks of this process that ended, in that order
  crashes, expiries

queue == <<processing, queues, order, served>>
claim == <<redis, claims, admitted, lapses>>
rows == <<log, seen, unread>>
bounds == <<crashes, expiries>>
vars == <<at, queue, claim, rows, bounds>>

Handling == {"lookup", "claim", "agent"}
Running == {"history", "user", "assistant", "send", "sent"}
Ended == {"idle", "ignored", "dropped", "done", "lost"}
Places == Handling \cup Running \cup Ended \cup {"waiting"}
Roles == {"user", "assistant"}

Conv(d) == ConversationOf[MessageOf[d]]
Goes(d, place) == at' = [at EXCEPT ![d] = place]

TypeOK ==
  /\ at \in [Deliveries -> Places]
  /\ redis \in {"up", "error", "down"}
  /\ claims \subseteq Messages
  /\ processing \subseteq Conversations
  /\ queues \in [Conversations -> Seq(Deliveries)]
  /\ log \in [Conversations -> Seq(Deliveries \X Roles)]
  /\ seen \in [Deliveries -> Seq(Deliveries \X Roles)]
  /\ unread \subseteq Deliveries
  /\ admitted \subseteq Deliveries
  /\ lapses \in [Messages -> Nat]
  /\ order \in [Conversations -> Seq(Deliveries)]
  /\ served \in [Conversations -> Seq(Deliveries)]
  /\ crashes \in Nat /\ expiries \in Nat

Init ==
  /\ at = [d \in Deliveries |-> "idle"]
  /\ redis = "up" /\ claims = {}
  /\ processing = {}
  /\ queues = [c \in Conversations |-> <<>>]
  /\ log = [c \in Conversations |-> <<>>]
  /\ seen = [d \in Deliveries |-> <<>>] /\ unread = {}
  /\ admitted = {} /\ lapses = [m \in Messages |-> 0]
  /\ order = [c \in Conversations |-> <<>>]
  /\ served = [c \in Conversations |-> <<>>]
  /\ crashes = 0 /\ expiries = 0

----------------------------------------------------------------------------
\* The webhook handlers.

\* The provider calls the webhook; the payload passes the handler's checks
\* and the channel (or, in a direct handler, the agent) is looked up.
Receive(d) ==
  /\ at[d] = "idle"
  /\ Goes(d, "lookup")
  /\ UNCHANGED <<queue, claim, rows, bounds>>

\* No channel, no agent, or the query failed: answered 200 all the same.
LookupFails(d) ==
  /\ at[d] \in {"lookup", "agent"}
  /\ Goes(d, "dropped")
  /\ UNCHANGED <<queue, claim, rows, bounds>>

ChannelFound(d) ==
  /\ at[d] = "lookup" /\ d \notin Direct
  /\ Goes(d, "claim")
  /\ UNCHANGED <<queue, claim, rows, bounds>>

\* claimWebhookMessageOnce: SET NX decides; an error of Redis lets the message
\* through.  While Redis is unreachable the command waits: the connection has
\* maxRetriesPerRequest null and an offline queue.
Pass(d) ==
  /\ admitted' = admitted \cup {d}
  /\ Goes(d, "agent")

\* Mutant: SET without NX.
ClaimWithoutNX(d) ==
  /\ at[d] = "claim" /\ redis = "up"
  /\ Pass(d)
  /\ claims' = claims \cup {MessageOf[d]} /\ UNCHANGED lapses
  /\ UNCHANGED <<queue, redis, rows, bounds>>

ClaimWebhookMessageOnce(d) ==
  LET m == MessageOf[d] IN
  /\ at[d] = "claim"
  /\ \/ /\ m \notin Keyed
        /\ Pass(d) /\ UNCHANGED <<claims, lapses>>
     \/ /\ m \in Keyed /\ redis = "up" /\ m \notin claims
        /\ Pass(d)
        /\ claims' = claims \cup {m} /\ UNCHANGED lapses
     \/ /\ m \in Keyed /\ redis = "up" /\ m \in claims
        /\ Goes(d, "ignored") /\ UNCHANGED <<admitted, claims, lapses>>
     \/ /\ m \in Keyed /\ redis = "error"
        /\ Pass(d)
        /\ lapses' = [lapses EXCEPT ![m] = @ + 1] /\ UNCHANGED claims
  /\ UNCHANGED <<queue, redis, rows, bounds>>

\* Mutant: processing is never set, so that every task starts at once.
EnqueueAlwaysRuns(d) ==
  /\ order' = [order EXCEPT ![Conv(d)] = Append(@, d)]
  /\ Goes(d, "history")
  /\ UNCHANGED <<processing, queues, served>>

\* enqueueConversationTask: an idle conversation starts the task at once.
EnqueueConversationTask(d) ==
  LET c == Conv(d) IN
  /\ order' = [order EXCEPT ![c] = Append(@, d)]
  /\ IF c \in processing
       THEN /\ queues' = [queues EXCEPT ![c] = Append(@, d)]
            /\ Goes(d, "waiting")
            /\ UNCHANGED processing
       ELSE /\ processing' = processing \cup {c}
            /\ Goes(d, "history")
            /\ UNCHANGED queues
  /\ UNCHANGED served

\* The agent is known: the task is enqueued and the webhook answered.
AgentFound(d) ==
  /\ \/ at[d] = "agent"
     \/ at[d] = "lookup" /\ d \in Direct
  /\ EnqueueConversationTask(d)
  /\ UNCHANGED <<claim, rows, bounds>>

----------------------------------------------------------------------------
\* The task: processIncomingMessage, the reply, and the finally of runTask.

\* The newest rows of a log, which is what findRecentForConversation selects.
Recent(s) ==
  SubSeq(s, IF Len(s) <= HistoryLimit THEN 1 ELSE Len(s) - HistoryLimit + 1, Len(s))

\* getConversationHistory, which answers a failed query with no rows at all,
\* then the call of the model.
ReadHistory(d) ==
  /\ at[d] = "history"
  /\ \/ seen' = [seen EXCEPT ![d] = Recent(log[Conv(d)])] /\ UNCHANGED unread
     \/ seen' = [seen EXCEPT ![d] = <<>>] /\ unread' = unread \cup {d}
  /\ Goes(d, "user")
  /\ UNCHANGED <<queue, claim, log, bounds>>

\* The two inserts; the catch around them is not fatal to the reply.  Rows an
\* operator writes from the inbox are not in the log.
PersistUser(d) ==
  /\ at[d] = "user"
  /\ log' = [log EXCEPT ![Conv(d)] = Append(@, <<d, "user">>)]
  /\ Goes(d, "assistant")
  /\ UNCHANGED <<queue, claim, seen, unread, bounds>>

PersistAssistant(d) ==
  /\ at[d] = "assistant"
  /\ log' = [log EXCEPT ![Conv(d)] = Append(@, <<d, "assistant">>)]
  /\ Goes(d, "send")
  /\ UNCHANGED <<queue, claim, seen, unread, bounds>>

PersistFails(d) ==
  /\ at[d] \in {"user", "assistant"}
  /\ Goes(d, "send")
  /\ UNCHANGED <<queue, claim, rows, bounds>>

\* addEvolutionJobAndWait: the queue takes the job or Redis refuses it.  While
\* Redis is unreachable waitUntilReady and add wait, without any limit; from
\* there on the limit of waitUntilFinished runs in this process.
QueueReply(d) ==
  /\ at[d] = "send" /\ d \in ViaQueue /\ redis # "down"
  /\ Goes(d, "sent")
  /\ UNCHANGED <<queue, claim, rows, bounds>>

\* A reply to WAHA is an HTTP request with a limit of its own.
Replied(d) == at[d] = "sent" \/ (at[d] = "send" /\ d \notin ViaQueue)

\* Mutant: runTask takes the newest task of the queue (pop for shift).
FinishTakesNewest(d) ==
  LET c == Conv(d)
      n == Len(queues[c]) IN
  /\ Replied(d)
  /\ served' = [served EXCEPT ![c] = Append(@, d)]
  /\ IF n > 0
       THEN /\ queues' = [queues EXCEPT ![c] = SubSeq(@, 1, n - 1)]
            /\ at' = [at EXCEPT ![d] = "done", ![queues[c][n]] = "history"]
            /\ UNCHANGED processing
       ELSE /\ processing' = processing \ {c}
            /\ Goes(d, "done") /\ UNCHANGED queues
  /\ UNCHANGED <<order, claim, rows, bounds>>

\* Mutant: the finally only marks the conversation idle.
FinishForgetsQueue(d) ==
  /\ Replied(d)
  /\ served' = [served EXCEPT ![Conv(d)] = Append(@, d)]
  /\ processing' = processing \ {Conv(d)}
  /\ Goes(d, "done")
  /\ UNCHANGED <<queues, order, claim, rows, bounds>>

\* The send answers or fails, the task ends, and runTask takes the next one.
SendAndFinish(d) ==
  LET c == Conv(d) IN
  /\ Replied(d)
  /\ served' = [served EXCEPT ![c] = Append(@, d)]
  /\ IF queues[c] # <<>>
       THEN /\ queues' = [queues EXCEPT ![c] = Tail(@)]
            /\ at' = [at EXCEPT ![d] = "done", ![Head(queues[c])] = "history"]
            /\ UNCHANGED processing
       ELSE /\ processing' = processing \ {c}
            /\ Goes(d, "done")
            /\ UNCHANGED queues
  /\ UNCHANGED <<order, claim, rows, bounds>>

----------------------------------------------------------------------------
\* Redis and the process.

RedisBecomes(r) ==
  /\ redis # r /\ redis' = r
  /\ UNCHANGED <<at, queue, claims, admitted, lapses, rows, bounds>>

ClaimExpires(m) ==
  /\ m \in claims /\ expiries < MaxExpiries
  /\ claims' = claims \ {m}
  /\ lapses' = [lapses EXCEPT ![m] = @ + 1]
  /\ expiries' = expiries + 1
  /\ UNCHANGED <<at, queue, redis, admitted, rows, crashes>>

\* The process dies and is started again: its memory is empty, the calls it
\* had in hand are never answered, the tasks it had queued are gone.
Crash ==
  /\ crashes < MaxCrashes /\ crashes' = crashes + 1
  /\ at' = [d \in Deliveries |-> IF at[d] \in Ended THEN at[d] ELSE "lost"]
  /\ processing' = {}
  /\ queues' = [c \in Conversations |-> <<>>]
  /\ order' = [c \in Conversations |-> <<>>]
  /\ served' = [c \in Conversations |-> <<>>]
  /\ UNCHANGED <<claim, rows, expiries>>

Handler(d) ==
  \/ LookupFails(d) \/ ChannelFound(d)
  \/ ClaimWebhookMessageOnce(d) \/ AgentFound(d)

Task(d) ==
  \/ ReadHistory(d) \/ PersistUser(d) \/ PersistAssistant(d)
  \/ PersistFails(d) \/ QueueReply(d) \/ SendAndFinish(d)

Next ==
  \/ \E d \in Deliveries : Receive(d) \/ Handler(d) \/ Task(d)
  \/ \E r \in {"up", "error", "down"} : RedisBecomes(r)
  \/ \E m \in Messages : ClaimExpires(m)
  \/ Crash

Spec == Init /\ [][Next]_vars

\* Queries, the model and an HTTP request answer or fail in the end, so a step
\* the event loop owes to a call is taken unless it goes on waiting for Redis.
LiveSpec ==
  Spec /\ \A d \in Deliveries : WF_vars(Handler(d)) /\ WF_vars(Task(d))

----------------------------------------------------------------------------
\* Properties.

InService(c) == {d \in Deliveries : Conv(d) = c /\ at[d] \in Running}

\* A conversation that is marked as processing has exactly one task running,
\* one that is not has none and nobody waiting behind it: a task is neither
\* run beside another nor left in a queue that nobody serves.
OneTaskOrIdle ==
  \A c \in Conversations :
    IF c \in processing THEN \E d \in Deliveries : InService(c) = {d}
                     ELSE InService(c) = {} /\ queues[c] = <<>>

\* Tasks of a conversation end in the order in which their webhooks enqueued
\* them, with none skipped and none run twice.
AnsweredInOrder ==
  \A c \in Conversations :
    /\ Len(served[c]) <= Len(order[c])
    /\ \A i \in 1 .. Len(served[c]) : served[c][i] = order[c][i]

\* The history a reply was generated from, unless its query failed, is still the
\* newest rows of the conversation when the reply's own two rows are written: no
\* other reply of the conversation got in between.
HistoryIsCurrent ==
  \A d \in Deliveries \ unread :
    LET l == log[Conv(d)] IN
    /\ at[d] = "user" => seen[d] = Recent(l)
    /\ at[d] = "assistant" => seen[d] = Recent(SubSeq(l, 1, Len(l) - 1))

\* A message with a key passes the claim once, and once more for every time
\* its key expired or Redis failed, however its redeliveries are interleaved.
OncePerClaim ==
  \A m \in Keyed :
    Cardinality({d \in admitted : MessageOf[d] = m}) <= 1 + lapses[m]

\* A task that waits in the queue of its conversation is served, unless the
\* process dies: one that fails or is slow does not strand those behind it.  One
\* whose reply waits for Redis does, for as long as Redis is away, so this says
\* only what happens if Redis is there for good from some time on.
WaitingIsServed ==
  <>[](redis # "down") =>
    \A d \in Deliveries : at[d] = "waiting" ~> at[d] \in {"done", "lost"}
============================================================================
