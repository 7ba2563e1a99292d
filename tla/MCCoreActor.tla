---------------------------- MODULE MCCoreActor ----------------------------
(***************************************************************************)
(* Small instances of CoreActor. One front-end is enough for several       *)
(* requests at once: one that is given up is still served.                 *)
(***************************************************************************)
EXTENDS CoreActor

CONSTANTS c1, f1, f2
=============================================================================
