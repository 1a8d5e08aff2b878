----------------------------- MODULE RegionSpec -----------------------------
(***************************************************************************)
(* What cluster.c and stego.c promise to the code above them: the regions  *)
(* of a level (its BFT, its bitmap, each of its clusters) are registers.   *)
(* An access takes effect in one step, whole, and a write to one region    *)
(* changes no other; or it is refused and has no effect.  Level takes its  *)
(* accesses to the disk to be that.                                        *)
(***************************************************************************)
CONSTANTS Threads, Values, Unwritten

VARIABLES val,       \* what each region holds
          out        \* what the last access of each thread returned, as a set

vars == <<val, out>>

Init == /\ val = [r \in DOMAIN val |-> Unwritten]
        /\ out = [t \in Threads |-> {}]

Write(r) == \E v \in Values : val' = [val EXCEPT ![r] = [region |-> r, value |-> v]]

Read(t, r) == out' = [out EXCEPT ![t] = {val[r]}]

\* A write has returned, or the access was refused.
Nothing(t) == out' = [out EXCEPT ![t] = {}]

Next == \E t \in Threads :
  \/ \E r \in DOMAIN val : Write(r) /\ UNCHANGED out
  \/ \E r \in DOMAIN val : Read(t, r) /\ UNCHANGED val
  \/ Nothing(t) /\ UNCHANGED val

Spec == Init /\ [][Next]_vars
=============================================================================
