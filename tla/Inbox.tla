------------------------------- MODULE Inbox -------------------------------
(***************************************************************************)
(* The inbox: the rows of messages and their status events on the server,  *)
(* and one open page (Inbox.jsx).  The page learns of a new message and of *)
(* a new status over the socket, and each makes it ask the server again:   *)
(* a new message because the conversation's entry is replaced, a status    *)
(* because the conversations are asked for.  Requests for a page overlap   *)
(* each other and the events, and the last answer to come in is shown.     *)
(*                                                                         *)
(* Acknowledgements of the provider come in any order, twice or not at     *)
(* all, also before the row of the message they are about is written.      *)
(*                                                                         *)
(* The webhook of Evolution gives the pipeline the tenant of the channel;  *)
(* that of WAHA and POST /agents/webhook give it none, and without one it  *)
(* writes no status events and the page hears nothing.                     *)
(***************************************************************************)
EXTENDS Naturals, Sequences, FiniteSets, SequencesExt

CONSTANTS
  Convs,        \* conversations of the channel that is open
  First,        \* the one that is selected when the page opens
  SendStatuses, \* what a provider says of a message it takes
  AckStatuses,  \* and later
  Tasks,        \* requests the server may be busy with at once
  Webhooks,     \* those of them that are a status from the provider
  PageSize,     \* PAGE_SIZE
  Before,       \* messages of the conversation when the page is opened
  MaxMessages,  \* messages written in a behaviour
  MaxAcks,      \* acknowledgements that arrive
  MaxClicks,    \* conversations selected and older pages asked for
  MaxFaults,    \* statements and requests that fail, connections that break
  MaxAsked      \* requests of the page in flight

ASSUME InboxAssumption ==
  /\ First \in Convs /\ Webhooks \subseteq Tasks
  /\ SendStatuses \subseteq {"PENDING", "SENT"}
  /\ AckStatuses \subseteq {"SENT", "DELIVERED", "READ"}
  /\ PageSize \in Nat \ {0} /\ MaxAsked \in Nat \ {0}
  /\ {Before, MaxMessages, MaxAcks, MaxClicks, MaxFaults} \subseteq Nat

VARIABLES
  rows,      \* the table messages, in the order of created_at
  timeline,  \* the types of the status events of each row
  unlogged,  \* rows for which a status event could not be written
  strays,    \* rows the pipeline wrote without being given a tenant
  sent,      \* messages the provider has taken, by their external id
  at, held,  \* place of each task and the message it is about
  wire,      \* events on their way to the page
  up,        \* its socket is connected
  active,    \* the conversation that is selected
  list,      \* the messages shown
  offset, hasMore, loadingMore,
  asked,     \* its requests in flight, in the order they were made
  missed,    \* something was lost or came late since it last asked for a page
  acks, clicks, faults

server == <<rows, timeline, unlogged, strays, sent>>
view == <<active, list, offset, hasMore, loadingMore>>
bounds == <<acks, clicks, faults>>
vars == <<server, at, held, wire, up, view, asked, missed, bounds>>

Statuses == {"PENDING", "SENT", "DELIVERED", "READ"}
Places == {"idle", "insert", "emit", "event", "notify", "insertReply", "logBoth",
           "emitBoth", "mark"}
Ids == 1 .. Before + MaxMessages
Shown == [id : Ids, status : Statuses]
Rows == [conv : Convs, status : Statuses, ext : 0 .. MaxMessages]
Nobody == [conv |-> First, id |-> 0, reply |-> 0, ext |-> 0,
           status |-> "SENT"]

\* A request for the conversations, for the newest page or for older messages; `rows`
\* is the answer once there is one (of the conversations only the arrival matters),
\* and it is late when one that was made after it has come in.
Request(kind, from) ==
  [kind |-> kind, conv |-> active, from |-> from, answered |-> kind = "conversations",
   rows |-> <<>>, late |-> FALSE]

\* SELECT of listMessagesByConversation: LIMIT PageSize OFFSET from, oldest first.
\* The n-th row of a conversation is the one that has n of them up to itself.
RowsOf(conv) ==
  LET mine == {i \in DOMAIN rows : rows[i].conv = conv}
  IN [n \in 1 .. Cardinality(mine) |->
        CHOOSE i \in mine : Cardinality({j \in mine : j <= i}) = n]
Show(ids) == [k \in DOMAIN ids |-> [id |-> ids[k], status |-> rows[ids[k]].status]]
listMessagesByConversation(conv, from) ==
  LET ids == RowsOf(conv)
      last == IF from > Len(ids) THEN 0 ELSE Len(ids) - from
      first == IF last > PageSize THEN last - PageSize + 1 ELSE 1
  IN Show(SubSeq(ids, first, last))

\* What a task has in hand.
Helds == [conv : Convs, id : {0} \cup Ids, reply : {0} \cup Ids, ext : 0 .. MaxMessages,
          status : Statuses]

ServerTypeOK ==
  /\ rows \in Seq(Rows) /\ Len(rows) <= Before + MaxMessages
  /\ timeline \in Seq(SUBSET Statuses) /\ Len(timeline) = Len(rows)
  /\ unlogged \subseteq DOMAIN rows /\ strays \subseteq DOMAIN rows
  /\ sent \in 0 .. MaxMessages
  /\ at \in [Tasks -> Places] /\ held \in [Tasks -> Helds]

\* The flag of loadMoreMessages is up while a request for older messages is in flight.
MoreLoading == loadingMore <=> \E k \in DOMAIN asked : asked[k].kind = "older"

\* The offset may pass the number of messages: older ones may be asked for before
\* the first page has come.
TypeOK ==
  /\ ServerTypeOK
  /\ \A k \in DOMAIN wire : wire[k].kind \in {"new", "update"} /\ wire[k].id \in DOMAIN rows
  /\ up \in BOOLEAN
  /\ active \in Convs /\ \A k \in DOMAIN list : list[k] \in Shown
  /\ offset \in Nat /\ hasMore \in BOOLEAN /\ loadingMore \in BOOLEAN
  /\ Len(asked) <= MaxAsked + 1 /\ MoreLoading
  /\ missed \in BOOLEAN

Init ==
  /\ active = First
  /\ rows = [i \in 1 .. Before |-> [conv |-> active, status |-> "SENT", ext |-> 0]]
  /\ timeline = [i \in 1 .. Before |-> {"SENT"}]
  /\ unlogged = {} /\ strays = {} /\ sent = 0
  /\ at = [t \in Tasks |-> "idle"] /\ held = [t \in Tasks |-> Nobody]
  /\ wire = <<>> /\ up = TRUE
  /\ list = <<>> /\ offset = 0 /\ hasMore = TRUE /\ loadingMore = FALSE
  /\ asked = <<Request("page", 0)>> /\ missed = FALSE
  /\ acks = 0 /\ clicks = 0 /\ faults = 0

----------------------------------------------------------------------------
(* The server *)

Go(t, place, what) ==
  /\ at' = [at EXCEPT ![t] = place]
  /\ held' = [held EXCEPT ![t] = IF place = "idle" THEN Nobody ELSE what]

\* emitChannelEvent: to the room of the tenant; who is not connected gets nothing.
Emit(events) ==
  /\ wire' = IF up THEN wire \o events ELSE wire
  /\ missed' = (missed \/ ~up)
Event(kind, id, status) ==
  [kind |-> kind, id |-> id, conv |-> rows[id].conv, status |-> status]

\* INSERT INTO messages.
createMessage(conv, status, ext) ==
  /\ rows' = Append(rows, [conv |-> conv, status |-> status, ext |-> ext])
  /\ timeline' = Append(timeline, {})
RoomFor(n) == Len(rows) + Cardinality({t \in Tasks : at[t] \in {"insert", "insertReply"}}) + n
                <= Before + MaxMessages

Fault == faults < MaxFaults /\ faults' = faults + 1

\* Mutant: a message has one status event.
LoggedOnce(id, status) ==
  /\ timeline' = IF timeline[id] = {} THEN [timeline EXCEPT ![id] = {status}] ELSE timeline
  /\ UNCHANGED <<unlogged, faults>>

\* INSERT INTO message_status_events: done, or failed.
Logged(id, status) ==
  timeline' = [timeline EXCEPT ![id] = @ \cup {status}] /\ UNCHANGED <<unlogged, faults>>
NotLogged(id) == Fault /\ unlogged' = unlogged \cup {id} /\ UNCHANGED timeline

\* onSend and POST /send: the provider takes the message before there is a row for it.
Send(t, status) ==
  /\ at[t] = "idle" /\ RoomFor(1) /\ sent < MaxMessages
  /\ sent' = sent + 1
  /\ Go(t, "insert", [Nobody EXCEPT !.conv = active, !.ext = sent + 1, !.status = status])
  /\ UNCHANGED <<rows, timeline, unlogged, strays, wire, up, view, asked, missed, bounds>>

\* Then it is written, and the page is told; a failure leaves a message that the
\* contact has and the inbox has not.
InsertSent(t) ==
  /\ at[t] = "insert"
  /\ \/ /\ createMessage(held[t].conv, held[t].status, held[t].ext)
        /\ Go(t, "emit", [held[t] EXCEPT !.id = Len(rows) + 1])
        /\ UNCHANGED faults
     \/ Fault /\ Go(t, "idle", Nobody) /\ UNCHANGED <<rows, timeline>>
  /\ UNCHANGED <<unlogged, strays, sent, wire, up, view, asked, missed, acks, clicks>>

EmitSent(t) ==
  /\ at[t] = "emit"
  /\ Emit(<<Event("new", held[t].id, held[t].status)>>)
  /\ Go(t, "event", held[t])
  /\ UNCHANGED <<server, up, view, asked, bounds>>

LogSent(t) ==
  /\ at[t] = "event"
  /\ Logged(held[t].id, held[t].status) \/ NotLogged(held[t].id)
  /\ Go(t, "idle", Nobody)
  /\ UNCHANGED <<rows, strays, sent, wire, up, view, asked, missed, acks, clicks>>

\* A status of the provider, whichever it sends now.  The row takes it whatever it
\* had before; without a row it is dropped.
Acknowledge(t, ext, status) ==
  /\ at[t] = "idle" /\ acks < MaxAcks /\ acks' = acks + 1
  /\ LET found == {i \in DOMAIN rows : rows[i].ext = ext}
     IN IF found = {} THEN UNCHANGED <<rows, at, held>>
        ELSE \E i \in found :
          /\ rows' = [rows EXCEPT ![i].status = status]
          /\ Go(t, "mark", [Nobody EXCEPT !.id = i, !.status = status])
  /\ UNCHANGED <<timeline, unlogged, strays, sent, wire, up, view, asked, missed, clicks, faults>>

\* The status event comes before the page is told, which it is not when the event
\* could not be written.
LogAck(t) ==
  /\ at[t] = "mark"
  /\ \/ Logged(held[t].id, held[t].status) /\ Go(t, "notify", held[t]) /\ UNCHANGED missed
     \/ NotLogged(held[t].id) /\ Go(t, "idle", Nobody) /\ missed' = TRUE
  /\ UNCHANGED <<rows, strays, sent, wire, up, view, asked, acks, clicks>>

EmitAck(t) ==
  /\ at[t] = "notify"
  /\ Emit(<<Event("update", held[t].id, held[t].status)>>)
  /\ Go(t, "idle", Nobody)
  /\ UNCHANGED <<server, up, view, asked, bounds>>

\* The pipeline writes what a contact wrote and then the reply, without an external
\* id.  When the second fails the page hears of neither.
InsertReceived(t, conv) ==
  /\ at[t] = "idle" /\ RoomFor(2)
  /\ createMessage(conv, "DELIVERED", 0)
  /\ strays' \in {strays, strays \cup {Len(rows) + 1}}
  /\ Go(t, "insertReply", [Nobody EXCEPT !.conv = conv, !.id = Len(rows) + 1])
  /\ UNCHANGED <<unlogged, sent, wire, up, view, asked, missed, bounds>>

Stray(t) == held[t].id \in strays

InsertReply(t) ==
  /\ at[t] = "insertReply"
  /\ \/ /\ createMessage(held[t].conv, "SENT", 0)
        /\ strays' = IF Stray(t) THEN strays \cup {Len(rows) + 1} ELSE strays
        /\ Go(t, "logBoth", [held[t] EXCEPT !.reply = Len(rows) + 1])
        /\ UNCHANGED <<unlogged, faults, missed>>
     \/ /\ Fault /\ Go(t, "idle", Nobody)
        /\ unlogged' = unlogged \cup {held[t].id} /\ missed' = TRUE
        /\ UNCHANGED <<rows, timeline, strays>>
  /\ UNCHANGED <<sent, wire, up, view, asked, acks, clicks>>

\* A failure among the status events of the two is passed over.
LogBoth(t) ==
  /\ at[t] = "logBoth"
  /\ LET both == {held[t].id, held[t].reply}
     IN \/ Stray(t) /\ UNCHANGED <<timeline, unlogged, faults>>
        \/ /\ ~Stray(t)
           /\ timeline' = [timeline EXCEPT ![held[t].id] = {"DELIVERED"},
                                           ![held[t].reply] = {"SENT"}]
           /\ UNCHANGED <<unlogged, faults>>
        \/ /\ ~Stray(t) /\ Fault
           /\ \E lost \in {both, {held[t].reply}} :
                /\ unlogged' = unlogged \cup lost
                /\ timeline' = IF held[t].id \in lost THEN timeline
                               ELSE [timeline EXCEPT ![held[t].id] = {"DELIVERED"}]
  /\ Go(t, "emitBoth", held[t])
  /\ UNCHANGED <<rows, strays, sent, wire, up, view, asked, missed, acks, clicks>>

\* emitChannelEvent drops an event without a tenant.
EmitBoth(t) ==
  /\ at[t] = "emitBoth"
  /\ IF Stray(t) THEN missed' = TRUE /\ UNCHANGED wire
     ELSE Emit(<<Event("new", held[t].id, "DELIVERED"), Event("new", held[t].reply, "SENT")>>)
  /\ Go(t, "idle", Nobody)
  /\ UNCHANGED <<server, up, view, asked, bounds>>

\* A SELECT of the page is evaluated.
Answer(k) ==
  /\ k \in DOMAIN asked /\ ~asked[k].answered
  /\ LET r == asked[k]
     IN asked' = [asked EXCEPT ![k] =
          [r EXCEPT !.answered = TRUE, !.rows = listMessagesByConversation(r.conv, r.from)]]
  /\ UNCHANGED <<server, at, held, wire, up, view, missed, bounds>>

----------------------------------------------------------------------------
(* The page *)

\* The effect of loadMessages runs: what was missed before will be in the answer.
LoadPage(others) == asked' = Append(others, Request("page", 0)) /\ missed' = FALSE

\* Mutant: the entry of the conversation is kept, so the effect does not run.
AppendOnly(e) ==
  /\ list' = IF e.conv = active THEN Append(list, [id |-> e.id, status |-> e.status]) ELSE list
  /\ UNCHANGED <<asked, missed>>

\* message:new is shown below the others, without a look at what is there; the
\* entry of the conversation is replaced, and the newest page asked for.
OnNew(e) ==
  IF e.conv = active
  THEN list' = Append(list, [id |-> e.id, status |-> e.status]) /\ LoadPage(asked)
  ELSE UNCHANGED <<list, asked, missed>>

\* message:update: the status is shown, and the conversations are asked for.
OnUpdate(e) ==
  /\ list' = [k \in DOMAIN list |-> IF list[k].id = e.id THEN [list[k] EXCEPT !.status = e.status]
                                     ELSE list[k]]
  /\ asked' = Append(asked, Request("conversations", 0))
  /\ UNCHANGED missed

Receive ==
  /\ wire # <<>> /\ Len(asked) < MaxAsked
  /\ wire' = Tail(wire)
  /\ CASE Head(wire).kind = "new" -> OnNew(Head(wire))
       [] Head(wire).kind = "update" -> OnUpdate(Head(wire))
  /\ UNCHANGED <<server, at, held, up, active, offset, hasMore, loadingMore, bounds>>

\* The requests without the k-th, those before it late.
Without(k) ==
  [j \in 1 .. Len(asked) - 1 |->
    IF j < k THEN [asked[j] EXCEPT !.late = (@ \/ asked[j].kind # "conversations")]
    ELSE asked[j + 1]]

\* loadConversations: every entry is a new one, so the newest page is asked for.
ConversationsArrive(k) ==
  /\ asked[k].kind = "conversations"
  /\ asked' = Append(RemoveAt(asked, k), Request("page", 0))
  /\ missed' = FALSE
  /\ UNCHANGED <<list, offset, hasMore, loadingMore>>

\* loadMessages: the answer is shown, whichever conversation it was asked for.
PageArrives(k) ==
  LET r == asked[k] IN
  /\ r.kind = "page"
  /\ list' = r.rows /\ offset' = Len(r.rows) /\ hasMore' = (Len(r.rows) = PageSize)
  /\ asked' = Without(k) /\ missed' = (missed \/ r.late)
  /\ UNCHANGED loadingMore

\* Mutant: an empty answer returns before the flag is cleared.
FinallyIfAny(older) == loadingMore' = (loadingMore /\ older = <<>>)
Finally(older) == loadingMore' = FALSE

\* loadMoreMessages: older messages above the others.
OlderArrive(k) ==
  LET r == asked[k] IN
  /\ r.kind = "older"
  /\ list' = r.rows \o list
  /\ offset' = offset + Len(r.rows) /\ hasMore' = (Len(r.rows) = PageSize)
  /\ Finally(r.rows)
  /\ asked' = Without(k)
  /\ missed' = (missed \/ r.late \/ r.from # offset)

Arrive(k) ==
  /\ k \in DOMAIN asked /\ asked[k].answered
  /\ ConversationsArrive(k) \/ PageArrives(k) \/ OlderArrive(k)
  /\ UNCHANGED <<server, at, held, wire, up, active, bounds>>

\* A request fails, and nobody asks again.
Fail(k) ==
  /\ k \in DOMAIN asked /\ Fault
  /\ asked' = RemoveAt(asked, k) /\ missed' = TRUE
  /\ loadingMore' = (loadingMore /\ asked[k].kind # "older")
  /\ UNCHANGED <<server, at, held, wire, up, active, list, offset, hasMore, acks, clicks>>

\* A scroll to the top.
loadMoreMessages ==
  /\ clicks < MaxClicks /\ clicks' = clicks + 1
  /\ hasMore /\ ~loadingMore /\ Len(asked) < MaxAsked
  /\ loadingMore' = TRUE
  /\ asked' = Append(asked, Request("older", offset))
  /\ UNCHANGED <<server, at, held, wire, up, active, list, offset, hasMore, missed, acks, faults>>

\* Another conversation: its messages and the conversations are asked for, and the
\* socket is made anew, with what was on its way lost.  The list stays until then.
Select(c) ==
  /\ c # active /\ RowsOf(c) # <<>>
  /\ clicks < MaxClicks /\ clicks' = clicks + 1 /\ Len(asked) < MaxAsked
  /\ active' = c
  /\ asked' = asked \o <<[Request("conversations", 0) EXCEPT !.conv = c],
                         [Request("page", 0) EXCEPT !.conv = c]>>
  /\ up' = FALSE /\ wire' = <<>> /\ missed' = FALSE
  /\ UNCHANGED <<server, at, held, list, offset, hasMore, loadingMore, acks, faults>>

\* The connection breaks; socket.io makes another, and nothing is asked again.
Break ==
  /\ up /\ Fault
  /\ up' = FALSE /\ wire' = <<>> /\ missed' = (missed \/ wire # <<>>)
  /\ UNCHANGED <<server, at, held, view, asked, acks, clicks>>

Connect == ~up /\ up' = TRUE
           /\ UNCHANGED <<server, at, held, wire, view, asked, missed, bounds>>

----------------------------------------------------------------------------
Handle(t) ==
  \/ InsertSent(t) \/ EmitSent(t) \/ LogSent(t) \/ LogAck(t) \/ EmitAck(t)
  \/ InsertReply(t) \/ LogBoth(t) \/ EmitBoth(t)
Begin(t) ==
  IF t \in Webhooks
  THEN \E ext \in 1 .. sent, s \in AckStatuses : Acknowledge(t, ext, s)
  ELSE (\E s \in SendStatuses : Send(t, s)) \/ \E conv \in Convs : InsertReceived(t, conv)
User == loadMoreMessages \/ \E c \in Convs : Select(c)
Network == \E k \in 1 .. MaxAsked + 1 : Answer(k) \/ Arrive(k)

Next ==
  \/ \E t \in Tasks : Begin(t) \/ Handle(t)
  \/ Receive \/ Network \/ User \/ Connect \/ Break
  \/ \E k \in 1 .. MaxAsked + 1 : Fail(k)

Spec == Init /\ [][Next]_vars

\* A handler that runs goes on, the network carries what it has, and a socket that
\* is down connects again.
FairSpec ==
  /\ Spec
  /\ \A t \in Tasks : WF_vars(Handle(t))
  /\ WF_vars(Network) /\ WF_vars(Receive) /\ WF_vars(Connect)

----------------------------------------------------------------------------
(* Properties *)

\* The timeline of a message explains its status: what the row has is the type of
\* one of its events, of one that is about to be written, or of one whose writing
\* failed.  A row written without a tenant has no timeline.
TimelineExplains ==
  \A i \in DOMAIN rows \ strays :
    \/ rows[i].status \in timeline[i] \/ i \in unlogged
    \/ \E t \in Tasks : i \in {held[t].id, held[t].reply}

\* What the page shows is the end of the conversation that is selected, each
\* message once and with its status, and no less than a page of it.
Current ==
  LET ids == RowsOf(active) IN
  /\ Len(list) <= Len(ids) /\ (Len(list) >= PageSize \/ Len(list) = Len(ids))
  /\ list = Show(SubSeq(ids, Len(ids) - Len(list) + 1, Len(ids)))

\* Whatever events, answers and clicks come between each other, the page comes to
\* show what the server has and stays so, but where an event or a request was lost
\* or failed, a message without a tenant was not told, or an answer came after that
\* of a later request, and nothing made the page ask since.
InboxSettles == <>[](missed \/ Current)
=============================================================================
