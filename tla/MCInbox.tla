------------------------------ MODULE MCInbox ------------------------------
\* Instances of Inbox for TLC.
EXTENDS Inbox, TLC

CONSTANTS a, b, t1, t2
=============================================================================
