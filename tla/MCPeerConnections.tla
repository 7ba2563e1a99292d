-------------------------- MODULE MCPeerConnections --------------------------
(***************************************************************************)
(* Small instances of PeerConnections: the names, and how they resolve.    *)
(* The .cfg of each run chooses which of them are dialled or unreliable.   *)
(***************************************************************************)
EXTENDS PeerConnections

CONSTANTS a1, a2, r1, r2, in1, in2

(* Two addresses of two peers.                                             *)
Distinct == [a \in {a1, a2} |-> IF a = a1 THEN r1 ELSE r2]
=============================================================================
