----------------------------- MODULE MCPairKeys -----------------------------
(***************************************************************************)
(* A small instance of PairKeys: two successive connections of one pair.   *)
(***************************************************************************)
EXTENDS PairKeys

CONSTANTS c1, c2
=============================================================================
