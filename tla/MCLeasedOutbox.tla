--------------------------- MODULE MCLeasedOutbox ---------------------------
EXTENDS LeasedOutboxInv

CONSTANTS a1, n1, w1, w2
=============================================================================
