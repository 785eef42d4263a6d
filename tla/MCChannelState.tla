--------------------------- MODULE MCChannelState ---------------------------
\* An instance of ChannelState for TLC: two channels of one provider.
EXTENDS ChannelState, TLC

CONSTANTS c1, c2, ch1, ch2, p1

OneProvider == (ch1 :> p1) @@ (ch2 :> p1)
=============================================================================
