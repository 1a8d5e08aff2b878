---------------------------- MODULE MCLevelCrash ----------------------------
(* A level that crashes, for TLC.  Names are only compared for equality.      *)
EXTENDS LevelCrash, TLC

Symmetric == Permutations(Threads) \cup Permutations(Names)
=============================================================================
