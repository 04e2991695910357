--------------------------- MODULE MCBridgeRequests ---------------------------
(* Instances of BridgeRequests for TLC: the bounds are in the .cfg files.  *)
EXTENDS BridgeRequests
=============================================================================
