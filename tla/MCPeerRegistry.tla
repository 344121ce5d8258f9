--------------------------- MODULE MCPeerRegistry ---------------------------
(* Workers that connect again and again to one leader. *)
EXTENDS PeerRegistry, TLC

Symmetry == Permutations(Peers)
=============================================================================
