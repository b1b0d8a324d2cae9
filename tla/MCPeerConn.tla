----------------------------- MODULE MCPeerConn -----------------------------
(* An instance of PeerConn: a pinger and two other callers at each end. *)
EXTENDS PeerConn

CONSTANTS a, b
=============================================================================
