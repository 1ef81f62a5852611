--------------------------- MODULE MCPeerDirectory ---------------------------
(* Instances of PeerDirectory for TLC.                                      *)
EXTENDS PeerDirectory

CONSTANT p1
==============================================================================
