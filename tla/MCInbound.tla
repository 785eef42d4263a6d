----------------------------- MODULE MCInbound -----------------------------
\* The instances of Inbound that TLC checks.
EXTENDS Inbound, TLC

CONSTANTS d1, d2, d3, m1, m2, c1

\* m1 is delivered twice; all messages are of one conversation.
ThreeCalls == d1 :> m1 @@ d2 :> m1 @@ d3 :> m2
OneChat == [m \in Messages |-> c1]
============================================================================
