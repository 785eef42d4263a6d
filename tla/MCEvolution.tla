----------------------------- MODULE MCEvolution -----------------------------
\* Instance of Evolution for TLC.
EXTENDS Evolution, TLC

CONSTANTS c1, c2

\* One call for the list, one for whatever there is that differs for the worker.
MCKindsOf ==
  c1 :> {"list"} @@ c2 :> {"create", "reset", "delete", "qr", "send", "list"}
==============================================================================
