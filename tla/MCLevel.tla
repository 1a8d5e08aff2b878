------------------------------ MODULE MCLevel ------------------------------
(* A level for TLC.  Threads are interchangeable, and so are names: the code  *)
(* only compares names for equality.                                          *)
EXTENDS LevelProps, TLC

Symmetric == Permutations(Threads) \cup Permutations(Names)
=============================================================================
