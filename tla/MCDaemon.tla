------------------------------ MODULE MCDaemon ------------------------------
(* Names for the model values of the runs of module Daemon.  Nicknames, keys *)
(* and readers are interchangeable: no action and no property names one.     *)
EXTENDS Daemon, TLC
CONSTANTS n1, n2, n3, k1, k2, r1, r2

Interchangeable == Permutations({n1, n2, n3}) \union Permutations({k1, k2})
                     \union Permutations({r1, r2})
=============================================================================
