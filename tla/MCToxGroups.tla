---------------------------- MODULE MCToxGroups ----------------------------
(***************************************************************************)
(* Small instances of ToxGroups: a conference that toxcore rejoined, which *)
(* may be left, created and joined again, one that friends invite to, and  *)
(* an invitation of the audio/video kind.                                  *)
(***************************************************************************)
EXTENDS ToxGroups

CONSTANTS g1, g2, v1, t1
=============================================================================
