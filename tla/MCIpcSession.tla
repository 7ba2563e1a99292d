---------------------------- MODULE MCIpcSession ----------------------------
(***************************************************************************)
(* Small instances of IpcSession: queues of one, a burst of one, and two   *)
(* addresses that share a table with room for one.                         *)
(***************************************************************************)
EXTENDS IpcSession

CONSTANTS home, other
=============================================================================
