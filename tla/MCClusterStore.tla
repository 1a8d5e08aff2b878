---------------------------- MODULE MCClusterStore ----------------------------
(* A store for TLC.  Threads are interchangeable, and so are the values written. *)
EXTENDS ClusterStore, TLC

Symmetric == Permutations(Threads) \cup Permutations(Values)
=============================================================================
