------------------------------- MODULE WahaQr -------------------------------
(***************************************************************************)
(* getQrCode of wahaService: the QR code by which a phone is paired with a *)
(* session at WAHA.  A call looks at the session, asks whether WAHA is     *)
(* alive, prepares the session under a lock that later calls of the same   *)
(* session join, polls for the code, asks once more, waits for a code in   *)
(* the logs of the container, and looks at the session again before it     *)
(* decides what to answer.                                                 *)
(*                                                                         *)
(* One process.  A request to WAHA is served at one moment (Serve) and its *)
(* reply taken up later, so that the session may have moved on.  The       *)
(* preparation is a run of the orchestrator (SessionPrepare has its locks  *)
(* and time limits): a call joins the run in hand, which others may have   *)
(* begun, and which may have seen the session before the call began.       *)
(*                                                                         *)
(* Left out, because it cannot happen: a poll cancelled by another (each   *)
(* poll runs under the lock), and a poll given up after 15 s, which would  *)
(* count towards the circuit of WAHA (the request inside gives up first    *)
(* and becomes an answer without code): that circuit stays closed.         *)
(***************************************************************************)
EXTENDS Naturals

CONSTANTS
  QrCalls, NoCall,
  Sessions, NoSession,
  Tries,      \* WHATSAPP_WAHA_QR_RETRIES
  FailStop,   \* WHATSAPP_WAHA_FAIL_STOP
  Capture,    \* WAHA_QR_LOG_CAPTURE: the container's logs are followed
  NoReply, GaveUp,
  MaxMoves,   \* moves of the sessions at WAHA
  MaxLost     \* requests that fail or pass their time limit

VARIABLES
  status,        \* of the session at WAHA
  captured,      \* currentQr: a code was seen in the logs, of whatever session
  prep,          \* sessionLocks of the orchestrator: how far the run in hand is
  ran,           \* the kinds of status the session had since the run began
  lock,          \* withWahaSessionLock: the call that works on a session
  at, about,     \* where a call is, and the session it is about
  reply,         \* the status of the session when WAHA served its request
  tries, fails,  \* the loop of waitForWahaQr
  been, heard,   \* the kinds of status the session had since the call began,
                 \* and that no request of the call was lost
  told,          \* what a flow told its callers, in the step that tells it
  moves, lost    \* how often the session moved or was prepared by others; losses

waha == <<status, captured, moves>>
preparation == <<prep, ran>>
loop == <<tries, fails>>
history == <<been, heard>>
qrVars == <<waha, preparation, lock, at, about, reply, loop, history, told, lost>>

Waiting == {"STARTING", "SCAN_QR_CODE"}
Dead == {"STOPPED"}
Statuses == {"none", "WORKING"} \cup Waiting \cup Dead
Gates == {"gate", "alive", "retry", "final"}
Locked == {"ensure", "poll", "stop", "again", "rest", "end"}
Places == {"idle", "joined", "logs"} \cup Gates \cup Locked
Kind(st) == IF st \in Waiting THEN "waiting" ELSE IF st = "WORKING" THEN "up" ELSE "down"
Kinds == {"waiting", "up", "down"}
Stages == {"first", "start", "wait"}
Outcomes == {"SCAN_QR_CODE", "WORKING", GaveUp}
States == {"QR_AVAILABLE", "CONNECTED", "PENDING", "OFFLINE", "error"}
Nothing == [state |-> "none", logs |-> FALSE, been |-> {}, heard |-> TRUE]

ASSUME QrAssumption ==
  /\ NoCall \notin QrCalls /\ NoSession \notin Sessions
  /\ NoReply \notin Statuses \cup {GaveUp} /\ GaveUp \notin Statuses \cup Stages \cup {"no"}
  /\ Tries \in Nat \ {0} /\ FailStop \in Nat \ {0}
  /\ MaxMoves \in Nat /\ MaxLost \in Nat

QrTypeOK ==
  /\ status \in [Sessions -> Statuses] /\ captured \in BOOLEAN
  /\ prep \in [Sessions -> {"no"} \cup Stages \cup Outcomes]
  /\ ran \in [Sessions -> SUBSET Kinds]
  /\ lock \in [Sessions -> QrCalls \cup {NoCall}]
  /\ at \in [QrCalls -> Places] /\ about \in [QrCalls -> Sessions \cup {NoSession}]
  /\ reply \in [QrCalls -> Statuses \cup {NoReply, GaveUp}]
  /\ tries \in [QrCalls -> 0 .. Tries] /\ fails \in [QrCalls -> 0 .. FailStop]
  /\ been \in [QrCalls -> SUBSET Kinds] /\ heard \in [QrCalls -> BOOLEAN]
  /\ \/ told = Nothing
     \/ told \in [state : States, logs : BOOLEAN, been : SUBSET Kinds, heard : BOOLEAN]
  /\ moves \in 0 .. MaxMoves /\ lost \in 0 .. MaxLost

QrInit ==
  /\ status \in [Sessions -> {"none", "STOPPED", "WORKING"}]
  /\ captured = FALSE
  /\ prep = [s \in Sessions |-> "no"] /\ ran = [s \in Sessions |-> {}]
  /\ lock = [s \in Sessions |-> NoCall]
  /\ at = [c \in QrCalls |-> "idle"]
  /\ about = [c \in QrCalls |-> NoSession]
  /\ reply = [c \in QrCalls |-> NoReply]
  /\ tries = [c \in QrCalls |-> 0] /\ fails = [c \in QrCalls |-> 0]
  /\ been = [c \in QrCalls |-> {}] /\ heard = [c \in QrCalls |-> TRUE]
  /\ told = Nothing
  /\ moves = 0 /\ lost = 0

----------------------------------------------------------------------------
\* WAHA.

\* The session moves to another status; the calls about it and the run that
\* prepares it remember the kind.
Becomes(s, new) ==
  /\ status' = [status EXCEPT ![s] = new]
  /\ been' = [c \in QrCalls |->
       IF about[c] = s THEN been[c] \cup {Kind(new)} ELSE been[c]]
  /\ ran' = [ran EXCEPT ![s] = IF prep[s] = "no" THEN {} ELSE @ \cup {Kind(new)}]

\* The engine asks for a scan, is paired or gives up; the phone or an
\* administrator ends, deletes or starts the session.
Moves(s) ==
  /\ moves < MaxMoves /\ moves' = moves + 1
  /\ \E new \in Statuses :
       /\ \/ status[s] = "STARTING" /\ new \in {"SCAN_QR_CODE", "STOPPED"}
          \/ status[s] = "SCAN_QR_CODE" /\ new \in {"WORKING", "STOPPED"}
          \/ status[s] = "WORKING" /\ new \in {"STOPPED", "none"}
          \/ status[s] = "STOPPED" /\ new = "STARTING"
       /\ Becomes(s, new)
  /\ told' = Nothing
  /\ UNCHANGED <<captured, prep, lock, at, about, reply, loop, heard, lost>>

\* The lines with a code appear in the container's logs (applyQrFromLog).
LogShows(s) ==
  /\ Capture /\ status[s] = "SCAN_QR_CODE" /\ ~captured
  /\ captured' = TRUE
  /\ told' = Nothing
  /\ UNCHANGED <<status, moves, preparation, lock, at, about, reply, loop, history, lost>>

Asking(c) == at[c] \in (Gates \cup Locked) \ {"ensure"} /\ reply[c] = NoReply

\* WAHA serves the request of c.
Serve(c) ==
  /\ Asking(c)
  /\ reply' = [reply EXCEPT ![c] = status[about[c]]]
  /\ told' = Nothing
  /\ UNCHANGED <<waha, preparation, lock, at, about, loop, history, lost>>

\* The request fails or passes its time limit (wahaRequest).
Lose(c) ==
  /\ Asking(c) /\ lost < MaxLost /\ lost' = lost + 1
  /\ reply' = [reply EXCEPT ![c] = GaveUp]
  /\ heard' = [heard EXCEPT ![c] = FALSE]
  /\ told' = Nothing
  /\ UNCHANGED <<waha, preparation, lock, at, about, loop, been>>

----------------------------------------------------------------------------
\* The preparation: ensureWahaSessionPrepared of the orchestrator.

\* A run begins if none is in hand.
Prepares(s) ==
  IF prep[s] = "no"
    THEN /\ prep' = [prep EXCEPT ![s] = "first"]
         /\ ran' = [ran EXCEPT ![s] = {Kind(status[s])}]
    ELSE UNCHANGED preparation

\* The connect of a channel prepares the session, too.
ConnectPrepares(s) ==
  /\ prep[s] = "no" /\ moves < MaxMoves /\ moves' = moves + 1
  /\ Prepares(s)
  /\ told' = Nothing
  /\ UNCHANGED <<status, captured, lock, at, about, reply, loop, history, lost>>

Stage(s, next) == prep' = [prep EXCEPT ![s] = next] /\ UNCHANGED <<status, been, ran>>

\* Its first look, which creates a session that is not there, its starts, and
\* each look of waitForValidWahaStatus.
PrepGoes(s) ==
  /\ \/ /\ prep[s] = "first"
        /\ \/ status[s] = "none" /\ Becomes(s, "STOPPED")
              /\ prep' = [prep EXCEPT ![s] = "start"]
           \/ status[s] \in Dead /\ Stage(s, "start")
           \/ status[s] \in Waiting /\ Stage(s, "wait")
           \/ status[s] = "WORKING" /\ Stage(s, "WORKING")
     \/ /\ prep[s] = "start" /\ status[s] # "none"
        /\ IF status[s] \in Dead
             THEN Becomes(s, "STARTING") /\ prep' = [prep EXCEPT ![s] = "wait"]
             ELSE Stage(s, "wait")
     \/ /\ prep[s] = "wait"
        /\ \/ status[s] \in {"SCAN_QR_CODE", "WORKING"} /\ Stage(s, status[s])
           \/ status[s] \in Dead /\ Stage(s, "start")
  /\ told' = Nothing
  /\ UNCHANGED <<captured, moves, lock, at, about, reply, loop, heard, lost>>

\* A request of the run fails, or one of its time limits has passed.
PrepFails(s) ==
  /\ prep[s] \in Stages
  /\ Stage(s, GaveUp)
  /\ told' = Nothing
  /\ UNCHANGED <<captured, moves, lock, at, about, reply, loop, heard, lost>>

Joins(c, s) == at[c] = "ensure" /\ about[c] = s

\* The lock in Redis is released, the run is forgotten, and those that joined
\* it get its outcome, whenever it was found.
PrepEnds(s) ==
  /\ prep[s] \in Outcomes
  /\ prep' = [prep EXCEPT ![s] = "no"] /\ ran' = [ran EXCEPT ![s] = {}]
  /\ reply' = [c \in QrCalls |-> IF Joins(c, s) THEN prep[s] ELSE reply[c]]
  /\ been' = [c \in QrCalls |-> IF Joins(c, s) THEN been[c] \cup ran[s] ELSE been[c]]
  /\ heard' = [c \in QrCalls |-> heard[c] /\ ~(Joins(c, s) /\ prep[s] = GaveUp)]
  /\ told' = Nothing
  /\ UNCHANGED <<waha, lock, at, about, loop, lost>>

----------------------------------------------------------------------------
\* The steps of a call.

\* What fetchWahaSessionSnapshotForQr makes of the reply.
Snapshot(c) == IF reply[c] = GaveUp THEN "unknown" ELSE reply[c]

Took(c, place) ==
  /\ at' = [at EXCEPT ![c] = place]
  /\ reply' = [reply EXCEPT ![c] = NoReply]
  /\ told' = Nothing

Goes(c, place) ==
  Took(c, place) /\ UNCHANGED <<preparation, lock, about, loop, history>>

\* Mutant: the error of the preparation is given to the call that works only.
TellAlone(c, state, logs) ==
  LET out == {c} \cup {d \in QrCalls : state # "error" /\ at[d] = "joined" /\ lock[about[d]] = c}
  IN
  /\ told' = [state |-> state, logs |-> logs, been |-> been[c], heard |-> heard[c]]
  /\ lock' = [s \in Sessions |-> IF lock[s] = c THEN NoCall ELSE lock[s]]
  /\ at' = [d \in QrCalls |-> IF d \in out THEN "idle" ELSE at[d]]
  /\ about' = [d \in QrCalls |-> IF d \in out THEN NoSession ELSE about[d]]
  /\ reply' = [reply EXCEPT ![c] = NoReply]
  /\ tries' = [tries EXCEPT ![c] = 0] /\ fails' = [fails EXCEPT ![c] = 0]
  /\ been' = [d \in QrCalls |-> IF d \in out THEN {} ELSE been[d]]
  /\ heard' = [d \in QrCalls |-> d \in out \/ heard[d]]
  /\ UNCHANGED preparation

\* finalize: c is told, and those that joined it; the lock is dropped.
Tell(c, state, logs) ==
  LET out == {c} \cup {d \in QrCalls : at[d] = "joined" /\ lock[about[d]] = c} IN
  /\ told' = [state |-> state, logs |-> logs, been |-> been[c], heard |-> heard[c]]
  /\ lock' = [s \in Sessions |-> IF lock[s] = c THEN NoCall ELSE lock[s]]
  /\ at' = [d \in QrCalls |-> IF d \in out THEN "idle" ELSE at[d]]
  /\ about' = [d \in QrCalls |-> IF d \in out THEN NoSession ELSE about[d]]
  /\ reply' = [reply EXCEPT ![c] = NoReply]
  /\ tries' = [tries EXCEPT ![c] = 0] /\ fails' = [fails EXCEPT ![c] = 0]
  /\ been' = [d \in QrCalls |-> IF d \in out THEN {} ELSE been[d]]
  /\ heard' = [d \in QrCalls |-> d \in out \/ heard[d]]
  /\ UNCHANGED preparation

Decides(c, state) == Tell(c, state, FALSE)

\* getQrCode is called; the rate limit only delays it.
Start(c, s) ==
  /\ at[c] = "idle"
  /\ at' = [at EXCEPT ![c] = "gate"] /\ about' = [about EXCEPT ![c] = s]
  /\ been' = [been EXCEPT ![c] = {Kind(status[s])}]
  /\ told' = Nothing
  /\ UNCHANGED <<waha, preparation, lock, reply, loop, heard, lost>>

\* withWahaSessionLock: the call works, and first has the session prepared, or
\* shares the answer of the call that does.
Enter(c) ==
  /\ IF lock[about[c]] = NoCall
       THEN /\ Took(c, "ensure") /\ Prepares(about[c])
            /\ lock' = [lock EXCEPT ![about[c]] = c]
       ELSE Took(c, "joined") /\ UNCHANGED <<preparation, lock>>
  /\ UNCHANGED <<about, loop, history>>

\* The snapshot before the lock.
Gate(c) ==
  LET st == Snapshot(c) IN
  /\ at[c] = "gate"
  /\ \/ st \in Dead /\ Decides(c, "OFFLINE")
     \/ st \in Waiting \cup {"WORKING"} /\ Enter(c)
     \/ st \in {"none", "unknown"} /\ Goes(c, "alive")

\* isWahaAlive: any answer below 300 will do.
Alive(c) ==
  /\ at[c] = "alive"
  /\ IF reply[c] = GaveUp THEN Goes(c, "retry") ELSE Enter(c)

Retry(c) ==
  /\ at[c] = "retry"
  /\ IF Snapshot(c) \in Waiting \cup {"WORKING"} THEN Enter(c) ELSE Goes(c, "final")

\* Mutant: the decision is not reconciled with the snapshot.
ReconciledNever(c, otherwise) == Decides(c, otherwise)

\* tryFinalizeFromSnapshot, or else the given decision.
Reconciled(c, otherwise) ==
  LET st == Snapshot(c) IN
  \/ st \in Waiting /\ Decides(c, "PENDING")
  \/ st = "WORKING" /\ Decides(c, "CONNECTED")
  \/ st \notin Waiting \cup {"WORKING"} /\ Decides(c, otherwise)

Final(c) == at[c] = "final" /\ Reconciled(c, "OFFLINE")

\* What became of the preparation: an error goes to every caller.
Ensure(c) ==
  /\ at[c] = "ensure"
  /\ \/ reply[c] = GaveUp /\ Decides(c, "error")
     \/ reply[c] = "WORKING" /\ Decides(c, "CONNECTED")
     \/ /\ reply[c] \notin {GaveUp, "WORKING"}
        /\ Took(c, "poll")
        /\ tries' = [tries EXCEPT ![c] = 1]
        /\ UNCHANGED <<preparation, lock, about, fails, history>>

\* WAHA has a code to give while it awaits a scan.
HasCode(c) == reply[c] = "SCAN_QR_CODE"

\* One try of waitForWahaQr.  FailStop failures in a row end it with a look at
\* the session, Tries tries without one.
Poll(c) ==
  /\ at[c] = "poll"
  /\ \/ HasCode(c) /\ Decides(c, "QR_AVAILABLE")
     \/ /\ ~HasCode(c)
        /\ \E failed \in {reply[c] # "STARTING", TRUE} :
             LET n == IF failed THEN fails[c] + 1 ELSE 0 IN
             /\ fails' = [fails EXCEPT ![c] = n]
             /\ \/ n = FailStop /\ Took(c, "stop") /\ UNCHANGED tries
                \/ n < FailStop /\ tries[c] = Tries /\ Took(c, "rest")
                   /\ UNCHANGED tries
                \/ n < FailStop /\ tries[c] < Tries /\ Took(c, "poll")
                   /\ tries' = [tries EXCEPT ![c] = @ + 1]
        /\ UNCHANGED <<preparation, lock, about, history>>

Stop(c) ==
  /\ at[c] = "stop"
  /\ Goes(c, IF Snapshot(c) \in Waiting THEN "rest" ELSE "again")

Again(c) == at[c] = "again" /\ Reconciled(c, "OFFLINE")

\* fetchWahaSessionQrcodeRest
Rest(c) ==
  /\ at[c] = "rest"
  /\ IF HasCode(c) THEN Decides(c, "QR_AVAILABLE")
                   ELSE Goes(c, "logs")

\* Thirty looks at getCurrentQr, which does not tell sessions apart.
Logs(c) ==
  /\ at[c] = "logs"
  /\ IF captured THEN Tell(c, "QR_AVAILABLE", TRUE) ELSE Goes(c, "end")

End(c) ==
  /\ at[c] = "end"
  /\ IF Snapshot(c) \in Dead THEN Decides(c, "OFFLINE") ELSE Reconciled(c, "PENDING")

Step(c) ==
  /\ reply[c] # NoReply \/ at[c] = "logs"
  /\ \/ Gate(c) \/ Alive(c) \/ Retry(c) \/ Final(c) \/ Ensure(c) \/ Poll(c)
     \/ Stop(c) \/ Again(c) \/ Rest(c) \/ Logs(c) \/ End(c)
  /\ UNCHANGED <<waha, lost>>

Preparing(s) == ConnectPrepares(s) \/ PrepGoes(s) \/ PrepFails(s) \/ PrepEnds(s)

QrNext ==
  \/ \E s \in Sessions : Moves(s) \/ LogShows(s) \/ Preparing(s)
  \/ \E c \in QrCalls, s \in Sessions : Start(c, s)
  \/ \E c \in QrCalls : Serve(c) \/ Lose(c) \/ Step(c)

QrSpec == QrInit /\ [][QrNext]_qrVars

----------------------------------------------------------------------------
\* Properties.

\* What the callers are told was so at some moment of the flow that told them,
\* or of the preparation it joined, which may be over but for its last release
\* when the flow begins: the phone was paired, a code was on show, a scan was
\* awaited or, if every request was answered, the session was down (getQrCode
\* looks again at the session before each decision after the preparation).
\* Only a code from the logs may be an older one.
AnswersTrue ==
  /\ told.state = "CONNECTED" => "up" \in told.been
  /\ told.state = "QR_AVAILABLE" /\ ~told.logs => "waiting" \in told.been
  /\ told.state = "PENDING" /\ told.heard => told.been \cap {"waiting", "down"} # {}
  /\ told.state = "OFFLINE" /\ told.heard => "down" \in told.been

\* A call that joined another waits for one that still works on that session and
\* will tell it, also when that one fails: no lock outlives its call, none is
\* lost with calls behind it (withWahaSessionLock).
JoinedAreServed ==
  /\ \A s \in Sessions : lock[s] # NoCall =>
       about[lock[s]] = s /\ at[lock[s]] \in Locked \cup {"logs"}
  /\ \A c \in QrCalls : at[c] = "joined" => lock[about[c]] # NoCall
=============================================================================
