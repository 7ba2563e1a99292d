---------------------------- MODULE MCPeerOutbox ----------------------------
(***************************************************************************)
(* The names of PeerOutbox's small instances: two nicknames and two        *)
(* connections. The .cfg of each run says which of them exist and which    *)
(* connections may fail.                                                   *)
(***************************************************************************)
EXTENDS PeerOutbox

CONSTANTS alice, bob, c1, c2
=============================================================================
