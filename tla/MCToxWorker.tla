---------------------------- MODULE MCToxWorker -----------------------------
(* The instance of module ToxWorker that TLC checks. *)
EXTENDS ToxWorker
=============================================================================
