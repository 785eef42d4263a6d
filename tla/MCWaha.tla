-------------------------------- MODULE MCWaha --------------------------------
(***************************************************************************)
(* What stands between the platform and WAHA, in one run: the circuits     *)
(* (Circuits), the preparation of a session (SessionPrepare) and the calls *)
(* for a QR code (WahaQr).  They share no variable: in a behaviour one of  *)
(* them moves and the others stay as they began.                           *)
(***************************************************************************)
EXTENDS Circuits, SessionPrepare, WahaQr, TLC

CONSTANTS r1, r2, r3, api, worker, k1, w1

\* To prepare: two requests to the API and a job of the worker, for one session.
\* The job is one of the session queue, which prepares a session and connects none.
Requests == {r1, r2}
TwoProcs == (r1 :> api) @@ (r2 :> api) @@ (r3 :> worker)
OneKey == (r1 :> k1) @@ (r2 :> k1) @@ (r3 :> k1)
OneSession == k1 :> w1

VARIABLE moving  \* which of the three

allVars == <<moving, vars, prepareVars, qrVars>>

MCInit ==
  /\ Init /\ PrepareInit /\ QrInit
  /\ moving \in {"circuits", "prepare", "qr"}
  /\ moving # "qr" => status = [s \in Sessions |-> "none"]
  /\ moving # "prepare" => session = [s \in WahaSessions |-> "none"]

OnCircuits == moving = "circuits" /\ UNCHANGED <<moving, prepareVars, qrVars>>
OnPrepare == moving = "prepare" /\ UNCHANGED <<moving, vars, qrVars>>
OnQr == moving = "qr" /\ UNCHANGED <<moving, vars, prepareVars>>

MCNext ==
  \/ OnCircuits /\ Tick
  \/ OnCircuits /\ Restart
  \/ \E c \in Calls : OnCircuits /\ Connect(c)
  \/ \E c \in Calls : OnCircuits /\ ResetDone(c)
  \/ \E c \in Calls : OnCircuits /\ HealthTimeout(c)
  \/ \E c \in Calls : OnCircuits /\ Prepared(c)
  \/ \E c \in Calls, e \in Errors : OnCircuits /\ PrepareFails(c, e)
  \/ \E c \in Calls : OnCircuits /\ Panel(c)
  \/ \E c \in Calls : OnCircuits /\ Reconnect(c)
  \/ \E c \in Calls : OnCircuits /\ ProbeAnswers(c)
  \/ \E c \in Calls : OnCircuits /\ ProbeFails(c)
  \/ \E c \in Calls : OnCircuits /\ RetryAnswers(c)
  \/ \E c \in Calls : OnCircuits /\ RetryFails(c)
  \/ \E c \in Calls : OnCircuits /\ NoteDone(c)
  \/ \E c \in Requests : OnPrepare /\ CallStep(c)
  \/ OnPrepare /\ EnsurePrepared(r3)
  \/ \E c \in Callers : OnPrepare /\ RunStep(c)
  \/ \E c \in Callers : OnPrepare /\ BodyStep(c)
  \/ \E s \in WahaSessions : OnPrepare /\ SessionMoves(s)
  \/ \E p \in Procs : OnPrepare /\ Crash(p)
  \/ OnPrepare /\ PrepareTick
  \/ OnPrepare /\ RedisFails
  \/ OnPrepare /\ RedisReturns
  \/ \E s \in Sessions : OnQr /\ Moves(s)
  \/ \E s \in Sessions : OnQr /\ LogShows(s)
  \/ \E s \in Sessions : OnQr /\ ConnectPrepares(s)
  \/ \E s \in Sessions : OnQr /\ PrepGoes(s)
  \/ \E s \in Sessions : OnQr /\ PrepFails(s)
  \/ \E s \in Sessions : OnQr /\ PrepEnds(s)
  \/ \E c \in QrCalls, s \in Sessions : OnQr /\ Start(c, s)
  \/ \E c \in QrCalls : OnQr /\ Serve(c)
  \/ \E c \in QrCalls : OnQr /\ Lose(c)
  \/ \E c \in QrCalls : OnQr /\ Step(c)

MCSpec == MCInit /\ [][MCNext]_allVars

SameTenant == Permutations(Requests)
===============================================================================
