------------------------------ MODULE OftSpec ------------------------------
(***************************************************************************)
(* What the open file table of a level promises to the rest of bsfs.c      *)
(* (src/src/oft.c, declared in src/src/bsfs_priv.h): a set of BFT indices  *)
(* with an open-file object, and how many handles each of them backs.      *)
(***************************************************************************)
EXTENDS Naturals

CONSTANT Indices          \* BFT indices (bft_offset_t)

VARIABLES present,        \* indices for which bs_oft_has answers true
          refs            \* handles handed out by bs_oft_get and not released

TypeOK == /\ present \subseteq Indices
          /\ refs \in [Indices -> Nat]

Init == /\ present = {}
        /\ refs = [i \in Indices |-> 0]

\* bs_oft_get: the index has an object from here on.
Acquire(i) == /\ present' = present \cup {i}
              /\ refs' = [refs EXCEPT ![i] = @ + 1]

\* The decrement that starts bs_oft_release.
Drop(i) == /\ refs[i] > 0
           /\ refs' = [refs EXCEPT ![i] = @ - 1]
           /\ UNCHANGED present

\* The removal that the release of a last handle ends with.
Reap(i) == /\ i \in present
           /\ refs[i] = 0
           /\ present' = present \ {i}
           /\ UNCHANGED refs

Next == \E i \in Indices : Acquire(i) \/ Drop(i) \/ Reap(i)

vars == <<present, refs>>
Spec == Init /\ [][Next]_vars
=============================================================================
