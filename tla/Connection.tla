----------------------------- MODULE Connection -----------------------------
(***************************************************************************)
(* The connection columns of one WhatsApp channel, and everything that     *)
(* writes them: requests of the API, webhooks of the two providers, the    *)
(* provisioning of an instance and the monitor that polls Evolution each   *)
(* minute.  Each of them reads the row, waits for a provider and writes    *)
(* what it computed from the row it read.  Each write tells the clients,   *)
(* unless the same status was sent less than 300 ms before.                *)
(*                                                                         *)
(* The providers are external: an instance (Evolution) or session (WAHA)   *)
(* moves by itself or by a call, and a webhook reports each move.          *)
(***************************************************************************)
EXTENDS Naturals, FiniteSets

CONSTANTS
  Tasks,        \* requests and webhooks that may be under way at once
  Cycles,       \* rounds of the monitor that may be under way at once
  Operations,   \* what the requests may ask for
  MaxRequests,  \* requests in a behaviour
  MaxMoves,     \* moves a provider makes by itself
  MaxWebhooks   \* webhooks on their way at once; the others are lost

AllOperations == {"connect", "qr", "status", "artifact", "disconnect", "edit",
                  "switch", "delete", "provision"}

ASSUME ConnectionAssumption ==
  /\ Tasks \cap Cycles = {} /\ Operations \subseteq AllOperations
  /\ MaxRequests \in Nat /\ MaxMoves \in Nat /\ MaxWebhooks \in Nat

VARIABLES
  row,       \* the channel's row
  instance,  \* the instance of the channel at each provider
  webhooks,  \* status events on their way
  stage, op, snap, saw,  \* place, operation, row read and answer of each task
  told,     \* the status last sent to the clients
  throttled, \* statuses sent less than 300 ms ago
  requests, moves

work == <<stage, op, snap, saw>>
clients == <<told, throttled>>
rowVars == <<row, instance, webhooks, work, clients, requests, moves>>

RowProviders == {"evolution", "waha"}
Connections == {"disconnected", "connecting", "connected", "error"}
Phases == {"draft", "provisioning", "awaiting", "connected", "error"}
\* "absent" also stands for a session that WAHA reports FAILED: both are errors.
Instances == {"absent", "close", "connecting", "open"}
RowPlaces == {"idle", "ensure", "connect", "connecting", "fetchQr", "askQr", "waiting",
           "ask", "report", "clear", "open", "persist", "logout", "unlink", "name",
           "remove", "drop", "listing", "provisioning", "create", "created", "failed",
           "sync", "select", "poll", "write", "heal", "healed"}
Rows == [exists : BOOLEAN, provider : RowProviders, ext : RowProviders \cup {"none"},
         conn : Connections, status : {"active", "inactive"}, phase : Phases]
Workers == Tasks \cup Cycles

RowTypeOK ==
  /\ row \in Rows
  /\ instance \in [RowProviders -> Instances]
  /\ webhooks \subseteq (RowProviders \X Instances)
  /\ stage \in [Workers -> RowPlaces]
  /\ op \in [Workers -> Operations \cup {"none", "webhook"}]
  /\ snap \in [Workers -> Rows]
  /\ saw \in [Workers -> Instances]
  /\ told \in Connections /\ throttled \subseteq Connections
  /\ requests \in 0 .. MaxRequests /\ moves \in 0 .. MaxMoves

\* A row as POST /channels leaves it: without an instance for Evolution, with the
\* name of its session for WAHA, or with an instance that was there before.
Created(p) ==
  [exists |-> TRUE, provider |-> p, ext |-> IF p = "waha" THEN "waha" ELSE "none",
   conn |-> "connecting", status |-> "inactive", phase |-> "draft"]
CreatedWithInstance ==
  [exists |-> TRUE, provider |-> "evolution", ext |-> "evolution",
   conn |-> "disconnected", status |-> "inactive", phase |-> "awaiting"]

\* What a worker keeps of the row it read.  The monitor's query has no config, and
\* of the requests two use it later; the connection is used again where the graph
\* decides; the legacy status is read at once.
Kept(o, r) ==
  [r EXCEPT !.status = "inactive",
            !.conn = IF o \in {"connect", "qr", "disconnect", "switch", "provision"} THEN @
                     ELSE "disconnected",
            !.phase = IF o \in {"artifact", "provision"} THEN @ ELSE "draft"]

\* A worker that is idle holds nothing.
Nothing == Created("evolution")

RowInit ==
  /\ \/ /\ row \in {Created(p) : p \in RowProviders}
        /\ instance = [p \in RowProviders |-> "absent"]
     \/ /\ row = CreatedWithInstance
        /\ \E s \in Instances \ {"absent"} :
             instance = [p \in RowProviders |-> IF p = "evolution" THEN s ELSE "absent"]
  /\ webhooks = {}
  /\ stage = [w \in Workers |-> "idle"]
  /\ op = [w \in Workers |-> "none"]
  /\ snap = [w \in Workers |-> Nothing]
  /\ saw = [w \in Workers |-> "absent"]
  /\ told = row.conn /\ throttled = {}
  /\ requests = 0 /\ moves = 0

----------------------------------------------------------------------------
\* The transition of a channel's connection.

LegacyStatus(conn) == IF conn = "connected" THEN "active" ELSE "inactive"

\* The local graph.
Graph == [disconnected |-> {"connecting"},
          connecting |-> {"connected", "disconnected"},
          connected |-> {"disconnected", "connecting"},
          error |-> {"connecting", "disconnected", "connected"}]
CanTransition(from, to) == from = to \/ to = "error" \/ to \in Graph[from]

\* The event for the clients; one with the same content is dropped, and nothing is
\* sent when its window ends.
Tell(conn) ==
  IF conn \in throttled THEN UNCHANGED clients
  ELSE told' = conn /\ throttled' = throttled \cup {conn}

\* updateConnection: the columns given are written, if the row is still there.
Save(r) == IF row.exists THEN row' = r /\ Tell(r.conn) ELSE UNCHANGED <<row, clients>>

\* The columns that each transition writes.
Moved(next) == [row EXCEPT !.conn = next, !.status = LegacyStatus(next)]

\* Mutant: a state that was observed obeys the local graph as well.
TransitionByGraph(seen, next, trusted, r) ==
  IF CanTransition(seen.conn, next)
    THEN Save(r) ELSE UNCHANGED <<row, clients>>

\* Mutant: what would not change the status is not written.
TransitionIfChanged(seen, next, trusted, r) ==
  IF (trusted \/ CanTransition(seen.conn, next)) /\ row.conn # next
    THEN Save(r) ELSE UNCHANGED <<row, clients>>

\* transitionEvolutionChannelConnection: the caller's row decides by the graph,
\* unless the state was observed.  r is Moved(next) with the caller's patch.
Transition(seen, next, trusted, r) ==
  IF trusted \/ CanTransition(seen.conn, next)
    THEN Save(r) ELSE UNCHANGED <<row, clients>>

\* What a provider calls the instance that a row names.  WAHA's session has one
\* name; Evolution is asked for external_id.
Lookup(r) == IF r.provider = "waha" THEN instance["waha"]
             ELSE IF r.ext = "evolution" THEN instance["evolution"] ELSE "absent"

\* A row without external_id is asked for under a name that is not its own.
StatusAnswers(r) == IF r.provider = "evolution" /\ r.ext = "none" THEN Instances
              ELSE {Lookup(r)}

\* Mutant: the provider's word is written.
ConnectionRaw(state) == state

ConnectionOf(state) ==
  CASE state = "open" -> "connected" [] state = "connecting" -> "connecting"
    [] state = "close" -> "disconnected" [] OTHER -> "error"

\* The instance moves, and the provider reports it.
Becomes(p, state) ==
  /\ instance' = [instance EXCEPT ![p] = state]
  /\ webhooks' = IF state \in {"absent", instance[p]} \/ Cardinality(webhooks) >= MaxWebhooks
                 THEN webhooks ELSE webhooks \cup {<<p, state>>}
Still == UNCHANGED <<instance, webhooks>>
Unwritten == UNCHANGED <<row, clients>>

\* Starting an instance that is not open yet.
Starts(p) == Becomes(p, IF instance[p] = "close" THEN "connecting" ELSE instance[p])

GoesTo(w, place) == stage' = [stage EXCEPT ![w] = place] /\ UNCHANGED <<op, snap, saw>>
Sees(w, state, place) ==
  /\ stage' = [stage EXCEPT ![w] = place] /\ saw' = [saw EXCEPT ![w] = state]
  /\ UNCHANGED <<op, snap>>
Ends(w) ==
  /\ stage' = [stage EXCEPT ![w] = "idle"] /\ op' = [op EXCEPT ![w] = "none"]
  /\ snap' = [snap EXCEPT ![w] = Nothing] /\ saw' = [saw EXCEPT ![w] = "absent"]
Counters == UNCHANGED <<requests, moves>>

----------------------------------------------------------------------------
\* Requests.  A task reads the row and goes to its first call.

\* isChannelConnectedBlockingProviderChange
BlocksProviderChange(r) == r.conn = "connected" \/ r.status = "active"

FirstPlace(o, r) ==
  CASE o \in {"connect", "qr", "artifact"} -> "ensure" [] o = "edit" -> "name"
    [] o = "status" -> "ask" [] o = "provision" -> "listing"
    [] o = "delete" -> (IF r.ext = "none" THEN "drop" ELSE "logout")
    [] OTHER -> (IF r.ext = "none" THEN "unlink" ELSE "logout")

\* What each operation asks of the row before it begins.  A second request to
\* provision joins the one under way.
Accepts(o, r) ==
  /\ r.exists
  /\ o = "switch" => ~BlocksProviderChange(r)
  /\ o \in {"qr", "status", "artifact"} =>
       ~(r.provider = "evolution" /\ r.ext = "none" /\ r.phase = "draft")
  /\ o = "provision" => r.provider = "evolution" /\ \A w \in Tasks : op[w] # "provision"

Begin(t, o) ==
  /\ stage[t] = "idle" /\ requests < MaxRequests /\ Accepts(o, row)
  /\ stage' = [stage EXCEPT ![t] = FirstPlace(o, row)]
  /\ op' = [op EXCEPT ![t] = o] /\ snap' = [snap EXCEPT ![t] = Kept(o, row)]
  /\ requests' = requests + 1
  /\ Unwritten /\ Still /\ UNCHANGED <<saw, moves>>

\* The name under which the caller's row has an instance.
Named(r) == r.provider = "waha" \/ r.ext = "evolution"

\* The session orchestrator, asked for a session: it creates or starts one.
EnsureSession(t) ==
  \/ Still
  \/ Named(snap[t]) /\ Becomes(snap[t].provider,
                              IF Lookup(snap[t]) = "open" THEN "open" ELSE "connecting")

\* connect, qrcode and connection-artifact ask it first.  With a QR code or an open
\* session they end without a write.  Otherwise, and for connect and the artifact
\* after an error too, the older path goes on.
EnsureThen(t, o, place) ==
  /\ stage[t] = "ensure" /\ op[t] = o
  /\ EnsureSession(t) /\ (Ends(t) \/ GoesTo(t, place))
  /\ Unwritten /\ Counters

EnsureToConnect(t) == EnsureThen(t, "connect", "connect")
EnsureForQr(t) == EnsureThen(t, "qr", "askQr")
EnsureForArtifact(t) == EnsureThen(t, "artifact", "ask")

\* connectWhatsAppChannel up to provider.connect.  WAHA creates the session if it
\* must; Evolution does not.  No instance, a cooldown and an error end it.
Connect(t) ==
  /\ stage[t] = "connect"
  /\ \/ Ends(t) /\ Still
     \/ /\ Named(snap[t]) /\ snap[t].provider = "evolution" => Lookup(snap[t]) # "absent"
        /\ Becomes(snap[t].provider,
                   IF Lookup(snap[t]) = "open" THEN "open" ELSE "connecting")
        /\ GoesTo(t, "connecting")
  /\ Unwritten /\ Counters

WriteConnecting(t) ==
  /\ stage[t] = "connecting" /\ GoesTo(t, "fetchQr")
  /\ Transition(snap[t], "connecting", FALSE,
       [Moved("connecting") EXCEPT !.ext = snap[t].provider,
          !.provider = snap[t].provider, !.phase = "awaiting"])
  /\ Still /\ Counters

\* The QR code goes into the configuration that was just written.
FetchQr(t) ==
  /\ stage[t] = "fetchQr" /\ Ends(t)
  /\ Save([row EXCEPT !.phase = "awaiting"]) \/ UNCHANGED <<row, clients>>
  /\ Still /\ Counters

\* getChannelQrCode; Evolution's answer may start the instance.
AskQr(t) ==
  /\ stage[t] = "askQr"
  /\ \/ Ends(t) /\ Still
     \/ /\ GoesTo(t, "waiting")
        /\ Still \/ (Named(snap[t]) /\ Starts(snap[t].provider))
  /\ Unwritten /\ Counters

MarkConnecting(t) ==
  /\ stage[t] = "waiting" /\ Ends(t)
  /\ Transition(snap[t], "connecting", FALSE, Moved("connecting"))
  /\ Still /\ Counters

\* The question of getChannelStatus.  A 404 is an answer, an error of the network is not.
AskStatus(t) ==
  /\ stage[t] = "ask" /\ op[t] = "status"
  /\ Ends(t) \/ \E s \in StatusAnswers(snap[t]) : Sees(t, s, "report")
  /\ Unwritten /\ Still /\ Counters

\* The question of getChannelConnectionArtifact.  Here a 404 ends it, and a refusal is
\* an error of the channel.
AskArtifact(t) ==
  /\ stage[t] = "ask" /\ op[t] = "artifact"
  /\ \/ Ends(t)
     \/ Sees(t, "absent", "report")
     \/ \E s \in StatusAnswers(snap[t]) \ {"absent"} :
          Sees(t, s, IF s = "open" /\ snap[t].provider = "evolution" THEN "clear" ELSE "persist")
  /\ Unwritten /\ Still /\ Counters

\* The artifact of a connected channel is cleared before the transition.
Clear(t) ==
  /\ stage[t] = "clear" /\ GoesTo(t, "report")
  /\ Save([row EXCEPT !.phase = snap[t].phase])
  /\ Still /\ Counters

\* The QR code, if there is one, goes into the configuration that was read.
Persist(t) ==
  /\ stage[t] = "persist" /\ Ends(t)
  /\ Save([row EXCEPT !.phase = snap[t].phase]) \/ UNCHANGED <<row, clients>>
  /\ Still /\ Counters

\* Polls and webhooks write what was observed.  A poll of Evolution and a webhook
\* of WAHA write the phase as well.
Report(t) ==
  /\ stage[t] = "report" /\ Ends(t)
  /\ LET phased == saw[t] = "open" /\
                   (op[t] = "webhook" <=> snap[t].provider = "waha")
     IN Transition(snap[t], ConnectionOf(saw[t]), TRUE,
          [Moved(ConnectionOf(saw[t])) EXCEPT !.phase = IF phased THEN "connected" ELSE @])
  /\ Still /\ Counters

\* provider.disconnect, for POST disconnect, a change of provider and DELETE.  When
\* it fails, the handler of POST disconnect fails in its catch and writes nothing.
Logout(t) ==
  /\ stage[t] = "logout"
  /\ \/ /\ IF Named(snap[t]) /\ Lookup(snap[t]) # "absent"
             THEN Becomes(snap[t].provider, "close") ELSE Still
        /\ GoesTo(t, IF op[t] = "delete" THEN "remove" ELSE "unlink")
     \/ op[t] = "disconnect" /\ Ends(t) /\ Still
     \/ op[t] = "switch" /\ GoesTo(t, "name") /\ Still
     \/ op[t] = "delete" /\ GoesTo(t, "remove") /\ Still
  /\ Unwritten /\ Counters

Unlink(t) ==
  /\ stage[t] = "unlink"
  /\ Transition(snap[t], "disconnected", FALSE,
       [Moved("disconnected") EXCEPT !.ext = IF snap[t].ext = "none" THEN @ ELSE "none"])
  /\ IF op[t] = "switch" THEN GoesTo(t, "name") ELSE Ends(t)
  /\ Still /\ Counters

OtherProvider(p) == CHOOSE q \in RowProviders : q # p

\* The last write of a PUT that names a provider; the legacy status is left as it is.
Name(t) ==
  /\ stage[t] = "name" /\ Ends(t)
  /\ Save([row EXCEPT !.conn = "disconnected",
             !.provider = IF op[t] = "switch" THEN OtherProvider(snap[t].provider)
                          ELSE snap[t].provider])
  /\ Still /\ Counters

Remove(t) ==
  /\ stage[t] = "remove" /\ GoesTo(t, "drop")
  /\ Still \/ (Named(snap[t]) /\ Becomes(snap[t].provider, "absent"))
  /\ Unwritten /\ Counters

Drop(t) ==
  /\ stage[t] = "drop" /\ Ends(t)
  /\ row' = [row EXCEPT !.exists = FALSE]
  /\ Still /\ Counters /\ UNCHANGED clients

----------------------------------------------------------------------------
\* Provisioning of an instance at Evolution (runProvisionOnce).  A listing that
\* fails counts as one without the instance.

Listing(t) ==
  /\ stage[t] = "listing"
  /\ \E listed \in {FALSE, Lookup(snap[t]) # "absent"} :
       \/ snap[t].phase = "connected" /\ Ends(t) /\ Unwritten
       \/ /\ snap[t].phase # "connected" /\ snap[t].ext # "none" /\ listed
          /\ Save([row EXCEPT !.phase = "awaiting", !.provider = "evolution",
                              !.ext = snap[t].ext])
          /\ Ends(t)
       \/ /\ snap[t].phase \notin {"connected", "error", "draft"}
          /\ snap[t].ext # "none" /\ ~listed
          /\ Ends(t) /\ Unwritten
       \/ /\ snap[t].phase # "connected"
          /\ snap[t].ext = "none" \/ (~listed /\ snap[t].phase \in {"error", "draft"})
          /\ GoesTo(t, "provisioning") /\ Unwritten
  /\ Still /\ Counters

MarkProvisioning(t) ==
  /\ stage[t] = "provisioning" /\ GoesTo(t, "create")
  /\ Save([row EXCEPT !.phase = "provisioning"])
  /\ Still /\ Counters

\* POST /instance/create; an instance that exists already is taken.
Create(t) ==
  /\ stage[t] = "create"
  /\ \/ /\ Becomes("evolution", IF instance["evolution"] = "absent" THEN "close"
                                ELSE instance["evolution"])
        /\ GoesTo(t, "created")
     \/ GoesTo(t, "failed") /\ Still
  /\ Unwritten /\ Counters

Provisioned(t) ==
  /\ stage[t] = "created" /\ Ends(t)
  /\ Transition(snap[t], "connecting", FALSE,
       [Moved("connecting") EXCEPT !.phase = "awaiting", !.provider = "evolution",
                                   !.ext = "evolution"])
  /\ Still /\ Counters

ProvisionFails(t) ==
  /\ stage[t] = "failed" /\ Ends(t)
  /\ Transition(snap[t], "error", FALSE, [Moved("error") EXCEPT !.phase = "error"])
  /\ Still /\ Counters

----------------------------------------------------------------------------
\* Webhooks, moves of the providers, and the clients' window.

\* A webhook of provider p is taken; if found is false it is dropped.
Receive(t, p, found) ==
  /\ stage[t] = "idle"
  /\ \E event \in webhooks :
       /\ event[1] = p /\ webhooks' = webhooks \ {event}
       /\ IF found
            THEN /\ stage' = [stage EXCEPT ![t] = "report"] /\ op' = [op EXCEPT ![t] = "webhook"]
                 /\ snap' = [snap EXCEPT ![t] = Kept("webhook", row)]
                 /\ saw' = [saw EXCEPT ![t] = event[2]]
            ELSE UNCHANGED work
  /\ Unwritten /\ Counters /\ UNCHANGED instance

\* Evolution's is for any row of that external_id, WAHA's for a row of WAHA.
ReceiveEvolution(t) == Receive(t, "evolution", row.exists /\ row.ext = "evolution")
ReceiveWaha(t) ==
  Receive(t, "waha", row.exists /\ row.ext = "waha" /\ row.provider = "waha")

\* The owner scans the code or logs out on the phone, a code expires, somebody
\* removes the instance.
Moves(p) ==
  /\ moves < MaxMoves /\ moves' = moves + 1 /\ instance[p] # "absent"
  /\ \E s \in {"absent", "close", "open"} \ {instance[p]} :
       (s = "open" => instance[p] = "connecting") /\ Becomes(p, s)
  /\ Unwritten /\ UNCHANGED <<work, requests>>

LoseWebhook ==
  /\ \E event \in webhooks : webhooks' = webhooks \ {event}
  /\ Unwritten /\ UNCHANGED <<instance, work, requests, moves>>

Expire ==
  /\ throttled # {} /\ throttled' = {}
  /\ UNCHANGED <<row, instance, webhooks, work, told, requests, moves>>

----------------------------------------------------------------------------
\* A round of the monitor: the list of instances, then each row's state.

Covers(r) == r.exists /\ r.provider = "evolution" /\ r.ext # "none"

List(m) ==
  /\ stage[m] = "idle"
  /\ Sees(m, instance["evolution"], "sync") \/ GoesTo(m, "select")
  /\ Unwritten /\ Still /\ Counters

\* syncInstancesWithDatabase.  A row whose instance is not listed is disconnected
\* if it was connected.
Sync(m) ==
  /\ stage[m] = "sync" /\ GoesTo(m, "select")
  /\ LET listed == IF row.ext = "evolution" THEN saw[m] ELSE "absent"
     IN IF Covers(row) /\ (listed # "absent" \/ BlocksProviderChange(row))
          THEN LET next == IF listed = "absent" THEN "disconnected" ELSE ConnectionOf(listed)
               IN Transition(row, next, TRUE, Moved(next))
          ELSE Unwritten
  /\ Still /\ Counters

Select(m) ==
  /\ stage[m] = "select"
  /\ IF Covers(row)
       THEN /\ stage' = [stage EXCEPT ![m] = "poll"]
            /\ snap' = [snap EXCEPT ![m] = Kept("none", row)]
            /\ saw' = [saw EXCEPT ![m] = "absent"] /\ UNCHANGED op
       ELSE Ends(m)
  /\ Unwritten /\ Still /\ Counters

PollAnswers(m) ==
  /\ stage[m] = "poll" /\ Sees(m, Lookup(snap[m]), "write")
  /\ Unwritten /\ Still /\ Counters

PollFails(m) ==
  /\ stage[m] = "poll" /\ Ends(m)
  /\ Unwritten /\ Still /\ Counters

\* A closed instance is started again, if the channel and the plan allow it.
WriteState(m) ==
  /\ stage[m] = "write"
  /\ Transition(snap[m], ConnectionOf(saw[m]), TRUE, Moved(ConnectionOf(saw[m])))
  /\ Ends(m) \/ (saw[m] = "close" /\ GoesTo(m, "heal"))
  /\ Still /\ Counters

Heal(m) ==
  /\ stage[m] = "heal"
  /\ \/ /\ Lookup(snap[m]) # "absent" /\ Starts("evolution") /\ GoesTo(m, "healed")
     \/ Ends(m) /\ Still
  /\ Unwritten /\ Counters

Healed(m) ==
  /\ stage[m] = "healed" /\ Ends(m)
  /\ Transition(row, "connecting", FALSE, Moved("connecting"))
  /\ Still /\ Counters

Task(t) ==
  \/ \E o \in Operations : Begin(t, o)
  \/ EnsureToConnect(t) \/ EnsureForQr(t) \/ EnsureForArtifact(t)
  \/ Connect(t) \/ WriteConnecting(t) \/ FetchQr(t)
  \/ AskQr(t) \/ MarkConnecting(t) \/ AskStatus(t) \/ AskArtifact(t)
  \/ Clear(t) \/ Persist(t) \/ Report(t)
  \/ Logout(t) \/ Unlink(t) \/ Name(t) \/ Remove(t) \/ Drop(t)
  \/ Listing(t) \/ MarkProvisioning(t) \/ Create(t) \/ Provisioned(t) \/ ProvisionFails(t)
  \/ ReceiveEvolution(t) \/ ReceiveWaha(t)

Monitor(m) ==
  \/ List(m) \/ Sync(m) \/ Select(m) \/ PollAnswers(m) \/ PollFails(m)
  \/ WriteState(m) \/ Heal(m) \/ Healed(m)

RowNext ==
  \/ \E t \in Tasks : Task(t)
  \/ \E m \in Cycles : Monitor(m)
  \/ \E p \in RowProviders : Moves(p)
  \/ LoseWebhook \/ Expire

RowSpec == RowInit /\ [][RowNext]_rowVars

\* The interval of the monitor fires, its queries are answered, and a poll that is
\* repeated for ever is answered at times.  Nothing is assumed of the requests.
RowFairSpec ==
  /\ RowSpec /\ WF_rowVars(Expire)
  /\ \A m \in Cycles : WF_rowVars(Monitor(m)) /\ SF_rowVars(PollAnswers(m))

----------------------------------------------------------------------------

\* What channelEvolutionState.service.js says of the row: connection_status is what
\* counts, and the legacy status is written with it.  A PUT that names the provider
\* writes connection_status alone, and the change of provider that follows is
\* refused by the legacy status.
DualWrite == row.exists => (row.status = "active" <=> row.conn = "connected")

\* The pair is right again, and stays so, for a row that the monitor polls: each of
\* its writes gives both columns, whether the connection changed or not.
DualWriteConverges == <>[](Covers(row) => DualWrite)

\* The row of a channel with an instance at Evolution comes to say what Evolution
\* says, whatever requests and webhooks wrote from rows they had read before.
RowConverges == <>[](Covers(row) => row.conn = ConnectionOf(Lookup(row)))

\* The clients come to see what that row says, although a status that was sent in
\* the last 300 ms is not sent again.
ClientsConverge == <>[](Covers(row) => told = row.conn)

=============================================================================
