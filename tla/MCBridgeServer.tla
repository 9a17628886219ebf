--------------------------- MODULE MCBridgeServer ---------------------------
EXTENDS BridgeServer
CONSTANTS i1, i2
=============================================================================
