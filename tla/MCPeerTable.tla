----------------------------- MODULE MCPeerTable -----------------------------
(***************************************************************************)
(* An instance of PeerTable for TLC.                                       *)
(***************************************************************************)
EXTENDS PeerTable

CONSTANTS p1, m1, d
=============================================================================
