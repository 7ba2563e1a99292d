----------------------------- MODULE MCToxQueue -----------------------------
(***************************************************************************)
(* Small instances of ToxQueue: one or two friends, one of them perhaps    *)
(* not a friend yet.                                                       *)
(***************************************************************************)
EXTENDS ToxQueue

CONSTANTS bob, carol
=============================================================================
