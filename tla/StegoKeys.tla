----------------------------- MODULE StegoKeys ------------------------------
(***************************************************************************)
(* The keys of the levels and what they do to the cover files              *)
(* (src/src/stego.c, matrix.c and vector.c).  A random nonsingular matrix  *)
(* over GF(2) gives the read keys, its inverse, transposed, the write keys.*)
(* A level is read as the sum of the cover files its read key selects; it  *)
(* is written by adding the difference between the new and the old data to *)
(* the cover files its write key selects.                                  *)
(*                                                                         *)
(* A row of a matrix is the set of the columns that hold 1, so that rows   *)
(* are added by taking their symmetric difference.  The sums are taken bit *)
(* by bit: one bit of every cover file stands for all of them.             *)
(***************************************************************************)
EXTENDS Integers, FiniteSets

CONSTANTS CoverCount,     \* STEGO_COVER_FILE_COUNT
          LevelCount      \* rows of the matrix that become keys

ASSUME KeyAssumption ==
  CoverCount \in Nat \ {0} /\ LevelCount \in 0 .. CoverCount

Covers == 0 .. CoverCount - 1
Levels == 0 .. LevelCount - 1

VARIABLES pc,             \* the function at work: "gen", "invert", or "ready"
          col,            \* the column its loop has reached
          placed,         \* bmp of matrix_gen_nonsing: rows taken as pivots
          readKeys,       \* the matrix, later the read keys
          tmp,            \* matrix_invert's copy of it
          writeKeys,      \* the inverse, later the write keys
          disk,           \* cover files whose bit is 1
          written         \* history: levels whose data is 1 for their owners

vars == <<pc, col, placed, readKeys, tmp, writeKeys, disk, written>>

\* The search for a row stops at the first.
Least(S) == {r \in S : \A q \in S : r <= q}

Zero == [r \in Covers |-> {}]
Identity == [r \in Covers |-> {r}]
Odd(S) == Cardinality(S) % 2 = 1

\* A random disk; matrix_gen_nonsing starts from a matrix of zeros.
Init ==
  /\ pc = "gen" /\ col = 0
  /\ placed = {} /\ readKeys = Zero
  /\ tmp = Zero /\ writeKeys = Zero
  /\ disk = {} /\ written = {}

----------------------------------------------------------------------------
\* matrix_add_row for one row.
Sum2(v, w) == (v \ w) \cup (w \ v)

\* Mutant of NonzeroColumns: c is a random vector, like b.
AnyColumns(rows) == SUBSET rows

\* gen_nonzero_vector: it is called again until some bit is set.
NonzeroColumns(rows) == (SUBSET rows) \ {{}}

\* One round of matrix_gen_nonsing: gen_nonsing_dim puts c into the column, in
\* the rows that are no pivots yet, adds b behind each 1 of it, and takes the
\* first of those rows as the next pivot.
GenColumn ==
  /\ pc = "gen" /\ col < CoverCount
  /\ \E b \in SUBSET (col + 1 .. CoverCount - 1), c \in NonzeroColumns(Covers \ placed) :
       /\ readKeys' = [r \in Covers |-> IF r \in c THEN Sum2(readKeys[r], {col} \cup b)
                                       ELSE readKeys[r]]
       /\ placed' = placed \cup Least(c)
  /\ col' = col + 1
  /\ UNCHANGED <<pc, tmp, writeKeys, disk, written>>

\* matrix_invert begins.
StartInvert ==
  /\ pc = "gen" /\ col = CoverCount
  /\ pc' = "invert" /\ col' = 0
  /\ tmp' = readKeys
  /\ writeKeys' = Identity
  /\ UNCHANGED <<placed, readKeys, disk, written>>

\* find_pivot searches from the diagonal.
Pivots(m, j) == {r \in Covers : r >= j /\ j \in m[r]}

Swapped(m, p, q) == [m EXCEPT ![p] = m[q], ![q] = m[p]]

\* Row j is added to the rows of S.
Added(m, j, S) == [r \in Covers |-> IF r \in S THEN Sum2(m[r], m[j]) ELSE m[r]]

\* One round of the elimination; without a pivot matrix_invert returns -EINVAL.
InvertColumn ==
  /\ pc = "invert" /\ col < CoverCount
  /\ \/ Pivots(tmp, col) = {} /\ pc' = "singular" /\ UNCHANGED <<col, tmp, writeKeys>>
     \/ \E pivot \in Least(Pivots(tmp, col)) :
          LET others == {r \in Covers \ {col} : col \in Swapped(tmp, col, pivot)[r]}
          IN /\ tmp' = Added(Swapped(tmp, col, pivot), col, others)
             /\ writeKeys' = Added(Swapped(writeKeys, col, pivot), col, others)
             /\ col' = col + 1
             /\ UNCHANGED pc
  /\ UNCHANGED <<placed, readKeys, disk, written>>

\* Mutant of Transposed: the inverse is used as it is.
Untransposed(m) == m

\* matrix_transpose, in place.
Transposed(m) == [r \in Covers |-> {c \in Covers : r \in m[c]}]

\* read_cover_file_delta into a buffer of zeros: whether the bit is 1.
ReadBit(level, d) == Odd(readKeys[level] \cap d)

\* The end of stego_gen_user_keys: the first rows are the keys.  The disk holds
\* random bytes, so every level reads as something.
UseKeys ==
  /\ pc = "invert" /\ col = CoverCount
  /\ pc' = "ready"
  /\ writeKeys' = Transposed(writeKeys)
  /\ disk' \in SUBSET Covers
  /\ written' = {l \in Levels : ReadBit(l, disk')}
  /\ UNCHANGED <<col, placed, readKeys, tmp>>

\* stego_write_level under the disk's write lock: the difference to what the
\* level reads as is added to the cover files of its write key.
WriteLevel(level, bit) ==
  /\ pc = "ready"
  /\ disk' = IF ReadBit(level, disk) # bit THEN Sum2(disk, writeKeys[level]) ELSE disk
  /\ written' = IF bit THEN written \cup {level} ELSE written \ {level}
  /\ UNCHANGED <<pc, col, placed, readKeys, tmp, writeKeys>>

Next ==
  \/ GenColumn \/ StartInvert \/ InvertColumn \/ UseKeys
  \/ \E level \in Levels, bit \in BOOLEAN : WriteLevel(level, bit)

Spec == Init /\ [][Next]_vars

----------------------------------------------------------------------------
\* "Iterative algorithm that creates a random nonsingular matrix" (matrix.c:106):
\* whatever the random vectors are, the keys can be computed.
NeverSingular == pc # "singular"

\* A level reads as what was last written to it, whatever was written to the
\* others meanwhile, although all of them are in the same cover files.
LevelsApart == pc = "ready" => written = {l \in Levels : ReadBit(l, disk)}
=============================================================================
