--------------------------- MODULE MCCofheBridge ---------------------------
\* The bridge of a node, for TLC.
EXTENDS CofheBridge
=============================================================================
