-------------------------- MODULE StegoKeys_proofs --------------------------
(***************************************************************************)
(* Proofs about the keys of the levels, for any number of cover files:     *)
(* the matrix that matrix_gen_nonsing makes is nonsingular, so that        *)
(* matrix_invert finds its pivots, and the keys keep the levels apart.     *)
(***************************************************************************)
EXTENDS StegoKeys, FiniteSetTheorems, TLAPS

Matrices == [Covers -> SUBSET Covers]

----------------------------------------------------------------------------
(***************************************************************************)
(* Parity: the sum of two vectors is odd when just one of them is.         *)
(***************************************************************************)
LEMMA CoversFinite ==
  /\ IsFiniteSet(Covers) /\ Covers \subseteq Nat
  /\ \A S \in SUBSET Covers : IsFiniteSet(S) /\ Cardinality(S) \in Nat
<1>1. IsFiniteSet(Covers) /\ Covers \subseteq Nat
  BY KeyAssumption, FS_Interval DEF Covers
<1>2. \A S \in SUBSET Covers : IsFiniteSet(S) /\ Cardinality(S) \in Nat
  BY <1>1, FS_Subset, FS_CardinalityType
<1> QED BY <1>1, <1>2

LEMMA ParityBasics ==
  /\ ~Odd({})
  /\ \A x : Odd({x})
  /\ \A x, y : x # y => ~Odd({x, y})
<1>1. ~Odd({})
  BY FS_EmptySet DEF Odd
<1>2. ASSUME NEW x PROVE Odd({x})
  <2>1. Cardinality({x}) = 1
    BY FS_Singleton
  <2> QED BY <2>1 DEF Odd
<1>3. ASSUME NEW x, NEW y, x # y PROVE ~Odd({x, y})
  <2>1. IsFiniteSet({x}) /\ Cardinality({x}) = 1
    BY FS_Singleton
  <2>2. Cardinality({x} \cup {y}) = 2
    BY <2>1, <1>3, FS_AddElement
  <2>3. {x} \cup {y} = {x, y}
    OBVIOUS
  <2> QED BY <2>2, <2>3 DEF Odd
<1> QED BY <1>1, <1>2, <1>3

LEMMA ParityOfSum ==
  ASSUME NEW v \in SUBSET Covers, NEW w \in SUBSET Covers
  PROVE  /\ Sum2(v, w) \in SUBSET Covers
         /\ Odd(Sum2(v, w)) <=> (Odd(v) <=> ~Odd(w))
<1> DEFINE both == v \cap w
<1>1. /\ IsFiniteSet(v) /\ IsFiniteSet(w) /\ IsFiniteSet(v \ w) /\ IsFiniteSet(w \ v)
      /\ Cardinality(v) \in Nat /\ Cardinality(w) \in Nat /\ Cardinality(both) \in Nat
  BY CoversFinite
<1>2. Cardinality(v \ w) = Cardinality(v) - Cardinality(both)
  BY <1>1, FS_Difference
<1>3. Cardinality(w \ v) = Cardinality(w) - Cardinality(both)
  <2>1. w \cap v = both
    OBVIOUS
  <2>2. Cardinality(w \ v) = Cardinality(w) - Cardinality(w \cap v)
    BY <1>1, FS_Difference
  <2> QED BY <2>1, <2>2
<1>4. Cardinality(Sum2(v, w)) = Cardinality(v \ w) + Cardinality(w \ v)
  <2>1. (v \ w) \cap (w \ v) = {}
    OBVIOUS
  <2>2. Cardinality(Sum2(v, w))
          = Cardinality(v \ w) + Cardinality(w \ v) - Cardinality({})
    BY <1>1, <2>1, FS_Union DEF Sum2
  <2> QED BY <2>2, <1>1, <1>2, <1>3, FS_EmptySet
<1>5. Cardinality(Sum2(v, w)) = Cardinality(v) + Cardinality(w) - 2 * Cardinality(both)
  BY <1>1, <1>2, <1>3, <1>4
<1>6. \A a, b, c \in Nat : (a + b - 2 * c) % 2 = 1 <=> (a % 2 = 1 <=> ~(b % 2 = 1))
  OBVIOUS
<1>7. Odd(Sum2(v, w)) <=> (Odd(v) <=> ~Odd(w))
  BY <1>1, <1>5, <1>6 DEF Odd
<1> QED BY <1>7 DEF Sum2

\* A vector x meets the sum of two rows oddly when it meets one of them so.
LEMMA ParityOfRows ==
  ASSUME NEW v \in SUBSET Covers, NEW w \in SUBSET Covers, NEW x \in SUBSET Covers
  PROVE  Odd(Sum2(v, w) \cap x) <=> (Odd(v \cap x) <=> ~Odd(w \cap x))
<1>1. Sum2(v, w) \cap x = Sum2(v \cap x, w \cap x)
  BY DEF Sum2
<1>2. v \cap x \in SUBSET Covers /\ w \cap x \in SUBSET Covers
  OBVIOUS
<1>3. Odd(Sum2(v \cap x, w \cap x)) <=> (Odd(v \cap x) <=> ~Odd(w \cap x))
  BY <1>2, ParityOfSum
<1> QED BY <1>1, <1>3

----------------------------------------------------------------------------
\* A nonempty set of rows has a first one: the sets 0 .. m for its members m
\* are finite, so one of them contains no other.
LEMMA LeastExists ==
  ASSUME NEW S \in SUBSET Covers, S # {}
  PROVE  Least(S) # {}
<1> DEFINE Upto(m) == 0 .. m
           T == {Upto(m) : m \in S}
<1>1. S \subseteq Nat
  BY CoversFinite
<1>2. T \subseteq FiniteSubsetsOf(Nat) /\ T # {}
  <2>1. ASSUME NEW m \in S PROVE Upto(m) \in FiniteSubsetsOf(Nat)
    BY <1>1, FS_Interval DEF FiniteSubsetsOf
  <2> QED BY <2>1
<1>3. PICK u \in T : \A y \in T : ~(<<y, u>> \in StrictSubsetOrdering(Nat))
  <2> HIDE DEF T
  <2> QED BY <1>2, FS_StrictSubsetOrderingWellFounded, WFMin
<1>4. PICK m \in S : u = Upto(m)
  OBVIOUS
<1>5. ASSUME NEW k \in S PROVE m <= k
  <2>1. SUFFICES ASSUME k < m PROVE FALSE
    BY <1>1
  <2>2. Upto(k) \subseteq Upto(m) /\ Upto(k) # Upto(m) /\ Upto(m) \subseteq Nat
    <3>1. m \in Upto(m) /\ m \notin Upto(k)
      BY <1>1, <2>1
    <3> QED BY <1>1, <2>1, <3>1
  <2>3. <<Upto(k), Upto(m)>> \in StrictSubsetOrdering(Nat)
    <3> HIDE DEF Upto
    <3> QED BY <2>2 DEF StrictSubsetOrdering
  <2> QED BY <1>3, <1>4, <2>3
<1> QED BY <1>5 DEF Least

----------------------------------------------------------------------------
(***************************************************************************)
(* Row operations.  Maps(F, m, n) says that F times m is n; Kernel(m) is   *)
(* the set of vectors that every row of m meets evenly.                    *)
(***************************************************************************)
Maps(F, m, n) ==
  \A r, c \in Covers : Odd({k \in F[r] : c \in m[k]}) <=> c \in n[r]

Kernel(m) == {x \in SUBSET Covers : \A r \in Covers : ~Odd(m[r] \cap x)}

\* Rows j and p change places; row j is added to the rows of S.
Round(m, j, p, S) == Added(Swapped(m, j, p), j, S)

Other(j, p, k) == IF k = j THEN p ELSE IF k = p THEN j ELSE k

LEMMA SwappedRows ==
  ASSUME NEW m \in Matrices, NEW j \in Covers, NEW p \in Covers
  PROVE  /\ Swapped(m, j, p) \in Matrices
         /\ \A k \in Covers : /\ Other(j, p, k) \in Covers
                              /\ Other(j, p, Other(j, p, k)) = k
                              /\ Swapped(m, j, p)[k] = m[Other(j, p, k)]
BY DEF Swapped, Other, Matrices

LEMMA AddedRows ==
  ASSUME NEW m \in Matrices, NEW j \in Covers, NEW S
  PROVE  /\ Added(m, j, S) \in Matrices
         /\ \A k \in Covers : Added(m, j, S)[k] =
                              IF k \in S THEN Sum2(m[k], m[j]) ELSE m[k]
BY ParityOfSum DEF Added, Matrices

LEMMA ParityOfSwap ==
  ASSUME NEW A \in SUBSET Covers, NEW j \in Covers, NEW p \in Covers
  PROVE  Odd({k \in Covers : Other(j, p, k) \in A}) <=> Odd(A)
<1> DEFINE B == {k \in Covers : Other(j, p, k) \in A}
           f == [k \in A |-> Other(j, p, k)]
<1>1. \A k \in Covers : Other(j, p, k) \in Covers /\ Other(j, p, Other(j, p, k)) = k
  BY DEF Other
<1>2. f \in [A -> B]
  BY <1>1
<1>3. \A k, l \in A : f[k] = f[l] => k = l
  BY <1>1
<1>4. \A b \in B : \E k \in A : f[k] = b
  BY <1>1
<1>5. ExistsBijection(A, B)
  <2> HIDE DEF B, f
  <2>1. f \in Bijection(A, B)
    BY <1>2, <1>3, <1>4 DEF Bijection, Injection, Surjection, IsInjective
  <2> QED BY <2>1 DEF ExistsBijection
<1>6. Cardinality(B) = Cardinality(A)
  <2> HIDE DEF B
  <2>1. IsFiniteSet(A)
    BY CoversFinite
  <2> QED BY <1>5, <2>1, FS_Bijection
<1> QED BY <1>6 DEF Odd

\* What F undoes, some G undoes after a swap: columns j and p change places.
LEMMA SwapMaps ==
  ASSUME NEW F \in Matrices, NEW j \in Covers, NEW p \in Covers
  PROVE  \E G \in Matrices : \A m, n \in Matrices :
           Maps(F, m, n) => Maps(G, Swapped(m, j, p), n)
<1> DEFINE G == [r \in Covers |-> {k \in Covers : Other(j, p, k) \in F[r]}]
<1>1. G \in Matrices
  BY DEF Matrices
<1>2. \A m \in Matrices, k \in Covers : /\ Other(j, p, k) \in Covers
                                     /\ Swapped(m, j, p)[k] = m[Other(j, p, k)]
  BY SwappedRows
<1>3. ASSUME NEW m \in Matrices, NEW n \in Matrices, Maps(F, m, n),
             NEW r \in Covers, NEW c \in Covers
      PROVE  Odd({k \in G[r] : c \in Swapped(m, j, p)[k]}) <=> c \in n[r]
  <2> DEFINE A == {k \in F[r] : c \in m[k]}
  <2>1. A \in SUBSET Covers /\ (Odd(A) <=> c \in n[r])
    BY <1>3 DEF Maps, Matrices
  <2>2. {k \in G[r] : c \in Swapped(m, j, p)[k]} = {k \in Covers : Other(j, p, k) \in A}
    <3>1. \A k \in Covers : /\ Other(j, p, k) \in Covers
                           /\ Swapped(m, j, p)[k] = m[Other(j, p, k)]
      BY <1>2
    <3>2. \A k : k \in G[r] <=> k \in Covers /\ Other(j, p, k) \in F[r]
      OBVIOUS
    <3> QED
      <4> HIDE DEF G
      <4> QED BY <3>1, <3>2
  <2> QED
    <3> HIDE DEF A, G
    <3> QED BY <2>1, <2>2, ParityOfSwap
<1> QED
  <2> HIDE DEF G
  <2> QED BY <1>1, <1>3 DEF Maps

\* The same after an addition: column j changes in the rows that meet S oddly.
LEMMA AddMaps ==
  ASSUME NEW F \in Matrices, NEW j \in Covers, NEW S \in SUBSET (Covers \ {j})
  PROVE  \E G \in Matrices : \A m, n \in Matrices :
           Maps(F, m, n) => Maps(G, Added(m, j, S), n)
<1> DEFINE G == [r \in Covers |-> IF Odd(F[r] \cap S) THEN Sum2(F[r], {j}) ELSE F[r]]
<1>1. G \in Matrices
  BY ParityOfSum DEF Matrices
<1>2. ASSUME NEW m \in Matrices, NEW n \in Matrices, Maps(F, m, n),
             NEW r \in Covers, NEW c \in Covers
      PROVE  Odd({k \in G[r] : c \in Added(m, j, S)[k]}) <=> c \in n[r]
  <2> DEFINE A == {k \in F[r] : c \in m[k]}
             B == F[r] \cap S
             D == {k \in G[r] : c \in Added(m, j, S)[k]}
  <2>1. /\ F[r] \in SUBSET Covers /\ A \in SUBSET Covers /\ B \in SUBSET Covers
        /\ (Odd(A) <=> c \in n[r])
    BY <1>2 DEF Maps, Matrices
  <2>2. \A k \in Covers : c \in Added(m, j, S)[k] <=>
                          IF k \in S THEN (c \in m[k] <=> c \notin m[j]) ELSE c \in m[k]
    <3>1. \A k \in Covers : Added(m, j, S)[k] = IF k \in S THEN Sum2(m[k], m[j]) ELSE m[k]
      BY AddedRows
    <3>2. ASSUME NEW k \in Covers, k \in S
          PROVE  c \in Added(m, j, S)[k] <=> (c \in m[k] <=> c \notin m[j])
      <4>1. Added(m, j, S)[k] = Sum2(m[k], m[j])
        BY <3>1, <3>2
      <4> QED BY <4>1 DEF Sum2
    <3>3. ASSUME NEW k \in Covers, k \notin S
          PROVE  c \in Added(m, j, S)[k] <=> c \in m[k]
      BY <3>1, <3>3
    <3> QED BY <3>2, <3>3
  <2> SUFFICES Odd(D) <=> c \in n[r]
    OBVIOUS
  <2>3. CASE c \notin m[j]
    <3>1. D = A
      BY <2>1, <2>2, <2>3 DEF Sum2
    <3> QED BY <3>1, <2>1
  <2>4. CASE c \in m[j] /\ Odd(B)
    <3>1. D = Sum2(Sum2(A, B), {j})
      BY <2>1, <2>2, <2>4 DEF Sum2
    <3>2. Sum2(A, B) \in SUBSET Covers /\ {j} \in SUBSET Covers
      BY <2>1, ParityOfSum
    <3>3. Odd(Sum2(A, B)) <=> (Odd(A) <=> ~Odd(B))
      <4> HIDE DEF A, B
      <4> QED BY <2>1, ParityOfSum
    <3>4. Odd(Sum2(Sum2(A, B), {j})) <=> (Odd(Sum2(A, B)) <=> ~Odd({j}))
      <4> HIDE DEF A, B
      <4> QED BY <3>2, ParityOfSum
    <3> QED
      <4> HIDE DEF A, B, D
      <4> QED BY <2>1, <2>4, <3>1, <3>3, <3>4, ParityBasics
  <2>5. CASE c \in m[j] /\ ~Odd(B)
    <3>1. D = Sum2(A, B)
      BY <2>1, <2>2, <2>5 DEF Sum2
    <3> QED
      <4> HIDE DEF A, B, D
      <4> QED BY <2>1, <2>5, <3>1, ParityOfSum
  <2> QED BY <2>3, <2>4, <2>5
<1> QED
  <2> HIDE DEF G
  <2> QED BY <1>1, <1>2 DEF Maps

LEMMA RoundMaps ==
  ASSUME NEW F \in Matrices, NEW j \in Covers, NEW p \in Covers,
         NEW S \in SUBSET (Covers \ {j})
  PROVE  \E G \in Matrices : \A m, n \in Matrices :
           Maps(F, m, n) => Maps(G, Round(m, j, p, S), n)
<1>1. PICK G1 \in Matrices : \A m, n \in Matrices :
        Maps(F, m, n) => Maps(G1, Swapped(m, j, p), n)
  BY SwapMaps
<1>2. PICK G2 \in Matrices : \A m, n \in Matrices :
        Maps(G1, m, n) => Maps(G2, Added(m, j, S), n)
  BY AddMaps
<1>3. \A m \in Matrices : Swapped(m, j, p) \in Matrices
  BY SwappedRows
<1> QED BY <1>1, <1>2, <1>3 DEF Round

LEMMA RoundType ==
  ASSUME NEW m \in Matrices, NEW j \in Covers, NEW p \in Covers, NEW S
  PROVE  Round(m, j, p, S) \in Matrices
BY SwappedRows, AddedRows DEF Round

\* Row operations keep the kernel.
LEMMA RoundKernel ==
  ASSUME NEW m \in Matrices, NEW j \in Covers, NEW p \in Covers,
         NEW S \in SUBSET (Covers \ {j})
  PROVE  Kernel(Round(m, j, p, S)) \subseteq Kernel(m)
<1> DEFINE sw == Swapped(m, j, p)
           rd == Added(sw, j, S)
<1>1. SUFFICES ASSUME NEW x \in SUBSET Covers, \A r \in Covers : ~Odd(rd[r] \cap x),
                      NEW r \in Covers
               PROVE  ~Odd(m[r] \cap x)
  BY DEF Kernel, Round
<1>2. sw \in Matrices /\ \A k \in Covers : /\ Other(j, p, k) \in Covers
                                          /\ Other(j, p, Other(j, p, k)) = k
                                          /\ sw[k] = m[Other(j, p, k)]
  <2>1. sw \in Matrices
    BY SwappedRows
  <2>2. ASSUME NEW k \in Covers
        PROVE  /\ Other(j, p, k) \in Covers
               /\ Other(j, p, Other(j, p, k)) = k
               /\ sw[k] = m[Other(j, p, k)]
    BY SwappedRows
  <2> HIDE DEF sw
  <2> QED BY <2>1, <2>2
<1>3. \A k \in Covers : rd[k] = IF k \in S THEN Sum2(sw[k], sw[j]) ELSE sw[k]
  <2> HIDE DEF sw
  <2>1. sw \in Matrices
    BY <1>2
  <2>2. \A k \in Covers : Added(sw, j, S)[k] = IF k \in S THEN Sum2(sw[k], sw[j]) ELSE sw[k]
    BY <2>1, AddedRows
  <2> QED BY <2>2
<1>4. \A k \in Covers : ~Odd(sw[k] \cap x)
  <2> HIDE DEF sw, rd
  <2>1. ~Odd(sw[j] \cap x)
    BY <1>1, <1>3
  <2>2. ASSUME NEW k \in Covers PROVE ~Odd(sw[k] \cap x)
    <3>1. CASE k \in S
      <4>1. sw[k] \in SUBSET Covers /\ sw[j] \in SUBSET Covers
        BY <1>2 DEF Matrices
      <4>2. Odd(rd[k] \cap x) <=> (Odd(sw[k] \cap x) <=> ~Odd(sw[j] \cap x))
        BY <4>1, <3>1, <1>3, ParityOfRows
      <4> QED BY <4>2, <2>1, <1>1
    <3>2. CASE k \notin S
      BY <3>2, <1>1, <1>3
    <3> QED BY <3>1, <3>2
  <2> QED BY <2>2
<1>5. m[r] = sw[Other(j, p, r)] /\ Other(j, p, r) \in Covers
  <2> HIDE DEF sw
  <2> QED BY <1>2
<1> QED
  <2> HIDE DEF sw
  <2> QED BY <1>4, <1>5
----------------------------------------------------------------------------
(***************************************************************************)
(* The elimination: after n rounds the first n columns are those of the    *)
(* identity, and a matrix whose kernel is empty always has a next pivot.   *)
(***************************************************************************)
Unit(m, n) == \A i \in 0 .. n - 1, r \in Covers : i \in m[r] <=> r = i

Regular(m) == \A x \in Kernel(m) : x = {}

LEMMA RoundUnit ==
  ASSUME NEW m \in Matrices, NEW j \in Covers, Unit(m, j), NEW p \in Pivots(m, j)
  PROVE  Unit(Round(m, j, p, {r \in Covers \ {j} : j \in Swapped(m, j, p)[r]}), j + 1)
<1> DEFINE sw == Swapped(m, j, p)
           S == {r \in Covers \ {j} : j \in sw[r]}
           rd == Added(sw, j, S)
<1>1. j \in Nat /\ p \in Covers /\ p >= j /\ p \in Nat /\ j \in m[p]
  BY CoversFinite DEF Pivots
<1>2. sw \in Matrices /\ \A k \in Covers : sw[k] = m[Other(j, p, k)] /\ Other(j, p, k) \in Covers
  <2>1. sw \in Matrices
    BY <1>1, SwappedRows
  <2>2. ASSUME NEW k \in Covers
        PROVE  sw[k] = m[Other(j, p, k)] /\ Other(j, p, k) \in Covers
    BY <1>1, SwappedRows
  <2> HIDE DEF sw
  <2> QED BY <2>1, <2>2
<1>3. \A k \in Covers : rd[k] = IF k \in S THEN Sum2(sw[k], sw[j]) ELSE sw[k]
  <2> HIDE DEF sw, S
  <2>1. sw \in Matrices
    BY <1>2
  <2>2. \A k \in Covers : Added(sw, j, S)[k] = IF k \in S THEN Sum2(sw[k], sw[j]) ELSE sw[k]
    BY <2>1, AddedRows
  <2> QED BY <2>2
<1>4. ASSUME NEW i \in 0 .. j, NEW r \in Covers PROVE i \in rd[r] <=> r = i
  <2> HIDE DEF sw, rd
  <2>1. CASE i = j
    <3>1. j \in sw[j]
      BY <1>1, <1>2 DEF Other
    <3>2. CASE r = j
      BY <3>1, <3>2, <2>1, <1>3
    <3>3. CASE r # j /\ r \in S
      <4>1. rd[r] = Sum2(sw[r], sw[j]) /\ j \in sw[r]
        BY <3>3, <1>3
      <4> QED BY <4>1, <3>1, <3>3, <2>1 DEF Sum2
    <3>4. CASE r # j /\ r \notin S
      BY <3>4, <2>1, <1>3
    <3> QED BY <3>2, <3>3, <3>4
  <2>2. CASE i # j
    <3>1. i \in 0 .. j - 1 /\ i # j /\ i # p
      BY <2>2, <1>1
    <3>2. \A k \in Covers : i \in sw[k] <=> Other(j, p, k) = i
      BY <3>1, <1>2 DEF Unit
    <3>3. \A k \in Covers : i \in sw[k] <=> k = i
      BY <3>1, <3>2 DEF Other
    <3>4. i \notin sw[j]
      BY <3>3, <3>1
    <3>5. CASE r \in S
      <4>1. rd[r] = Sum2(sw[r], sw[j])
        BY <3>5, <1>3
      <4> QED BY <4>1, <3>3, <3>4 DEF Sum2
    <3>6. CASE r \notin S
      BY <3>6, <3>3, <1>3
    <3> QED BY <3>5, <3>6
  <2> QED BY <2>1, <2>2
<1>5. 0 .. (j + 1) - 1 = 0 .. j
  BY <1>1
<1> QED BY <1>4, <1>5 DEF Unit, Round

LEMMA PivotExists ==
  ASSUME NEW m \in Matrices, NEW j \in Covers, Unit(m, j), Regular(m)
  PROVE  Pivots(m, j) # {}
<1> DEFINE x == {j} \cup {i \in 0 .. j - 1 : j \in m[i]}
<1>1. SUFFICES ASSUME Pivots(m, j) = {} PROVE x \in Kernel(m)
  BY DEF Regular
<1>2. j \in Nat /\ j < CoverCount /\ CoverCount \in Nat
  BY KeyAssumption DEF Covers
<1>3. x \in SUBSET Covers
  BY <1>2 DEF Covers
<1>4. ASSUME NEW r \in Covers PROVE ~Odd(m[r] \cap x)
  <2>1. r \in Nat
    BY CoversFinite
  <2>2. CASE j \in m[r]
    <3>1. r < j
      BY <2>1, <2>2, <1>1, <1>2 DEF Pivots
    <3>2. m[r] \cap x = {r, j}
      <4>1. r \in x /\ r \in m[r]
        BY <3>1, <2>1, <2>2, <1>2 DEF Unit
      <4>2. \A i \in m[r] \cap x : i = r \/ i = j
        BY DEF Unit
      <4> QED BY <4>1, <4>2, <2>2
    <3>3. r # j
      BY <3>1, <1>2, <2>1
    <3>4. ~Odd({r, j})
      <4> HIDE DEF x
      <4> QED BY <3>3, ParityBasics
    <3> QED BY <3>2, <3>4
  <2>3. CASE j \notin m[r]
    <3>1. m[r] \cap x = {}
      BY <2>3 DEF Unit
    <3> QED BY <3>1, ParityBasics
  <2> QED BY <2>2, <2>3
<1> QED BY <1>3, <1>4 DEF Kernel

----------------------------------------------------------------------------
(***************************************************************************)
(* The inductive invariant.                                                *)
(***************************************************************************)
KeysType ==
  /\ pc \in {"gen", "invert", "ready", "singular"}
  /\ col \in 0 .. CoverCount
  /\ placed \in SUBSET Covers
  /\ readKeys \in Matrices /\ tmp \in Matrices /\ writeKeys \in Matrices
  /\ disk \in SUBSET Covers
  /\ written \in SUBSET Levels

\* The rows that are not pivots are sums of rows that are, and the columns that
\* were generated are independent.
GenInv ==
  /\ \A x \in SUBSET Covers :
       (\A r \in placed : ~Odd(readKeys[r] \cap x)) => x \in Kernel(readKeys)
  /\ \A x \in Kernel(readKeys) : x \subseteq 0 .. col - 1 => x = {}

\* F undoes what the rounds did: it takes tmp back to the matrix of the keys,
\* and what is becoming the inverse to the identity.
InvertInv ==
  /\ Regular(tmp) /\ Unit(tmp, col)
  /\ \E F \in Matrices : Maps(F, tmp, readKeys) /\ Maps(F, writeKeys, Identity)

\* A write key meets its own read key oddly and all others evenly.
KeysApart ==
  \A l, k \in Covers : Odd(readKeys[l] \cap writeKeys[k]) <=> l = k

IInv ==
  /\ KeysType /\ NeverSingular
  /\ pc = "gen" => GenInv
  /\ pc = "invert" => InvertInv
  /\ pc = "ready" => KeysApart /\ LevelsApart

LEMMA IdentityType ==
  /\ Identity \in Matrices
  /\ \A r, c \in Covers : c \in Identity[r] <=> c = r
  /\ \A m \in Matrices : Maps(Identity, m, m)
<1>1. Identity \in Matrices /\ \A r \in Covers : Identity[r] = {r}
  BY DEF Identity, Matrices
<1>2. ASSUME NEW m \in Matrices, NEW r \in Covers, NEW c \in Covers
      PROVE  Odd({k \in Identity[r] : c \in m[k]}) <=> c \in m[r]
  <2>1. CASE c \in m[r]
    <3>1. {k \in Identity[r] : c \in m[k]} = {r}
      BY <1>1, <2>1
    <3> QED BY <3>1, <2>1, ParityBasics
  <2>2. CASE c \notin m[r]
    <3>1. {k \in Identity[r] : c \in m[k]} = {}
      BY <1>1, <2>2
    <3> QED BY <3>1, <2>2, ParityBasics
  <2> QED BY <2>1, <2>2
<1> QED BY <1>1, <1>2 DEF Maps

LEMMA InitIInv == Init => IInv
<1> SUFFICES ASSUME Init PROVE IInv
  OBVIOUS
<1>1. KeysType
  BY KeyAssumption DEF Init, KeysType, Zero, Matrices
<1>2. \A x \in SUBSET Covers : x \in Kernel(readKeys)
  <2>1. \A r \in Covers : \A x : readKeys[r] \cap x = {}
    BY DEF Init, Zero
  <2> QED BY <2>1, ParityBasics DEF Kernel
<1>3. \A x : x \subseteq 0 .. col - 1 => x = {}
  BY DEF Init
<1>4. GenInv
  BY <1>2, <1>3 DEF GenInv
<1> QED BY <1>1, <1>4 DEF Init, IInv, NeverSingular
----------------------------------------------------------------------------
(***************************************************************************)
(* Each action keeps the invariant.                                        *)
(***************************************************************************)
LEMMA GenColumnIInv == IInv /\ GenColumn => IInv'
<1> SUFFICES ASSUME IInv, GenColumn PROVE IInv'
  OBVIOUS
<1> USE DEF IInv
<1>1. col \in Nat /\ col < CoverCount /\ CoverCount \in Nat /\ col \in Covers
  BY KeyAssumption DEF GenColumn, KeysType, Covers
<1>2. PICK b \in SUBSET (col + 1 .. CoverCount - 1), c \in NonzeroColumns(Covers \ placed) :
        /\ readKeys' = [r \in Covers |-> IF r \in c THEN Sum2(readKeys[r], {col} \cup b)
                                        ELSE readKeys[r]]
        /\ placed' = placed \cup Least(c)
  BY DEF GenColumn
<1> DEFINE w == {col} \cup b
<1>3. w \in SUBSET Covers /\ c \in SUBSET (Covers \ placed) /\ c # {}
  BY <1>1, <1>2 DEF Covers, NonzeroColumns
<1>4. PICK p \in c : p \in placed'
  <2>1. Least(c) # {} /\ Least(c) \subseteq c
    BY <1>3, LeastExists DEF Least
  <2> QED BY <2>1, <1>2
<1>5. readKeys \in Matrices /\ GenInv
  BY DEF GenColumn, KeysType
<1> HIDE DEF w
<1>6. \A r \in Covers : readKeys'[r] = IF r \in c THEN Sum2(readKeys[r], w) ELSE readKeys[r]
  BY <1>2 DEF w
<1>7. KeysType'
  <2>1. readKeys' \in Matrices
    <3>1. \A r \in Covers : Sum2(readKeys[r], w) \in SUBSET Covers /\ readKeys[r] \in SUBSET Covers
      BY <1>3, <1>5, ParityOfSum DEF Matrices
    <3> QED BY <1>2, <3>1 DEF Matrices, w
  <2>2. placed' \in SUBSET Covers
    BY <1>2, <1>3 DEF Least, KeysType
  <2>3. col' \in 0 .. CoverCount
    BY <1>1 DEF GenColumn
  <2> QED BY <2>1, <2>2, <2>3 DEF GenColumn, KeysType
\* A vector that the pivots of the new matrix meet evenly, the old rows and the
\* new column meet evenly too.
<1>8. ASSUME NEW x \in SUBSET Covers, \A r \in placed' : ~Odd(readKeys'[r] \cap x)
      PROVE  /\ x \in Kernel(readKeys) /\ ~Odd(w \cap x)
             /\ x \in Kernel(readKeys')
  <2>1. \A r \in placed : r \in Covers /\ r \notin c /\ r \in placed'
    BY <1>2, <1>3 DEF KeysType
  <2>2. \A r \in placed : ~Odd(readKeys[r] \cap x)
    BY <2>1, <1>6, <1>8
  <2>3. x \in Kernel(readKeys)
    BY <2>2, <1>5 DEF GenInv
  <2>4. \A r \in Covers : /\ readKeys[r] \in SUBSET Covers
                         /\ ~Odd(readKeys[r] \cap x)
    BY <2>3, <1>5 DEF Kernel, Matrices
  <2>5. \A r \in Covers : Odd(Sum2(readKeys[r], w) \cap x) <=> Odd(w \cap x)
    <3> SUFFICES ASSUME NEW r \in Covers
                 PROVE  Odd(Sum2(readKeys[r], w) \cap x) <=> Odd(w \cap x)
      OBVIOUS
    <3>1. Odd(Sum2(readKeys[r], w) \cap x)
            <=> (Odd(readKeys[r] \cap x) <=> ~Odd(w \cap x))
      BY <2>4, <1>3, ParityOfRows
    <3> QED BY <3>1, <2>4
  <2>6. ~Odd(w \cap x)
    BY <2>5, <1>3, <1>4, <1>6, <1>8
  <2>7. \A r \in Covers : ~Odd(readKeys'[r] \cap x)
    BY <2>4, <2>5, <2>6, <1>6
  <2> QED BY <2>3, <2>6, <2>7 DEF Kernel
<1>9. ASSUME NEW x \in Kernel(readKeys'), x \subseteq 0 .. col' - 1 PROVE x = {}
  <2>1. x \in SUBSET Covers /\ \A r \in placed' : ~Odd(readKeys'[r] \cap x)
    BY <1>7 DEF Kernel, KeysType
  <2>2. x \in Kernel(readKeys) /\ ~Odd(w \cap x)
    BY <2>1, <1>8
  <2>3. x \subseteq 0 .. col
    BY <1>1, <1>9 DEF GenColumn
  <2>4. col \notin x
    <3>1. SUFFICES ASSUME col \in x PROVE FALSE
      OBVIOUS
    <3>2. \A i \in w \cap x : i = col
      BY <1>1, <2>3 DEF w
    <3>3. w \cap x = {col}
      BY <3>1, <3>2 DEF w
    <3> QED BY <2>2, <3>3, ParityBasics
  <2>5. x \subseteq 0 .. col - 1
    BY <2>3, <2>4, <1>1
  <2> QED BY <2>2, <2>5, <1>5 DEF GenInv
<1>10. GenInv'
  <2>1. ASSUME NEW x \in SUBSET Covers, \A r \in placed' : ~Odd(readKeys'[r] \cap x)
        PROVE  x \in Kernel(readKeys)'
    BY <1>8, <2>1 DEF Kernel
  <2>2. ASSUME NEW x \in Kernel(readKeys)', x \subseteq 0 .. col' - 1 PROVE x = {}
    BY <1>9, <2>2 DEF Kernel
  <2> QED BY <2>1, <2>2 DEF GenInv
<1> QED BY <1>7, <1>10 DEF GenColumn, NeverSingular

LEMMA StartInvertIInv == IInv /\ StartInvert => IInv'
<1> SUFFICES ASSUME IInv, StartInvert PROVE IInv'
  OBVIOUS
<1> USE DEF IInv
<1>1. /\ col = CoverCount /\ CoverCount \in Nat /\ readKeys \in Matrices /\ GenInv
      /\ readKeys' = readKeys /\ tmp' = readKeys /\ writeKeys' = Identity /\ col' = 0
  BY KeyAssumption DEF StartInvert, KeysType
<1>2. KeysType'
  BY <1>1, IdentityType DEF StartInvert, KeysType
<1>3. Regular(readKeys)
  BY <1>1 DEF GenInv, Regular, Kernel, Covers
<1>4. Unit(tmp, col)'
  BY <1>1 DEF Unit
<1>5. Maps(Identity, readKeys, readKeys) /\ Maps(Identity, Identity, Identity) /\ Identity \in Matrices
  BY <1>1, IdentityType
<1>6. InvertInv'
  <2>1. Regular(tmp)'
    BY <1>1, <1>3 DEF Regular, Kernel
  <2>2. Maps(Identity, tmp', readKeys') /\ Maps(Identity, writeKeys', Identity)
    BY <1>1, <1>5
  <2> QED BY <2>1, <2>2, <1>4, <1>5 DEF InvertInv
<1> QED BY <1>2, <1>6 DEF StartInvert, NeverSingular

LEMMA InvertColumnIInv == IInv /\ InvertColumn => IInv'
<1> SUFFICES ASSUME IInv, InvertColumn PROVE IInv'
  OBVIOUS
<1> USE DEF IInv
<1>1. /\ col \in Nat /\ col < CoverCount /\ CoverCount \in Nat /\ col \in Covers
      /\ readKeys \in Matrices /\ tmp \in Matrices /\ writeKeys \in Matrices
      /\ Regular(tmp) /\ Unit(tmp, col) /\ readKeys' = readKeys
  BY KeyAssumption DEF InvertColumn, KeysType, Covers, InvertInv
<1>2. Pivots(tmp, col) # {}
  BY <1>1, PivotExists
<1>3. PICK p \in Least(Pivots(tmp, col)) :
        LET others == {r \in Covers \ {col} : col \in Swapped(tmp, col, p)[r]}
        IN /\ tmp' = Added(Swapped(tmp, col, p), col, others)
           /\ writeKeys' = Added(Swapped(writeKeys, col, p), col, others)
           /\ col' = col + 1 /\ pc' = pc
  BY <1>2 DEF InvertColumn
<1> DEFINE S == {r \in Covers \ {col} : col \in Swapped(tmp, col, p)[r]}
<1>4. /\ p \in Pivots(tmp, col) /\ p \in Covers
      /\ tmp' = Round(tmp, col, p, S) /\ writeKeys' = Round(writeKeys, col, p, S)
  BY <1>3 DEF Least, Pivots, Round
<1>5. Unit(tmp', col + 1)
  BY <1>1, <1>4, RoundUnit
<1>6. S \in SUBSET (Covers \ {col})
  OBVIOUS
<1> HIDE DEF S
<1>7. KeysType'
  <2>1. tmp' \in Matrices /\ writeKeys' \in Matrices
    BY <1>1, <1>4, RoundType
  <2> QED BY <2>1, <1>1, <1>3 DEF InvertColumn, KeysType, Matrices
<1>8. Regular(tmp')
  <2>1. Kernel(tmp') \subseteq Kernel(tmp)
    BY <1>1, <1>4, <1>6, RoundKernel
  <2> QED BY <2>1, <1>1 DEF Regular
<1>9. \E G \in Matrices : Maps(G, tmp', readKeys) /\ Maps(G, writeKeys', Identity)
  <2>1. PICK F \in Matrices : Maps(F, tmp, readKeys) /\ Maps(F, writeKeys, Identity)
    BY DEF InvertColumn, InvertInv
  <2>2. PICK G \in Matrices : \A m, n \in Matrices :
          Maps(F, m, n) => Maps(G, Round(m, col, p, S), n)
    BY <1>1, <1>4, <1>6, RoundMaps
  <2> QED BY <2>1, <2>2, <1>1, <1>4, IdentityType
<1>10. InvertInv'
  <2>1. Regular(tmp)' /\ Unit(tmp, col)'
    BY <1>3, <1>5, <1>8 DEF Regular, Kernel, Unit
  <2>2. \E F \in Matrices : Maps(F, tmp', readKeys') /\ Maps(F, writeKeys', Identity)
    BY <1>1, <1>9
  <2> QED BY <2>1, <2>2 DEF InvertInv
<1>11. pc' = "invert"
  BY <1>3 DEF InvertColumn
<1> QED BY <1>7, <1>10, <1>11 DEF NeverSingular

LEMMA UseKeysIInv == IInv /\ UseKeys => IInv'
<1> SUFFICES ASSUME IInv, UseKeys PROVE IInv'
  OBVIOUS
<1> USE DEF IInv
<1>1. /\ col = CoverCount /\ CoverCount \in Nat
      /\ readKeys \in Matrices /\ tmp \in Matrices /\ writeKeys \in Matrices
      /\ Unit(tmp, col) /\ readKeys' = readKeys
      /\ writeKeys' = [r \in Covers |-> {c \in Covers : r \in writeKeys[c]}]
  BY KeyAssumption DEF UseKeys, KeysType, InvertInv, Transposed
<1>2. PICK F \in Matrices : Maps(F, tmp, readKeys) /\ Maps(F, writeKeys, Identity)
  BY DEF UseKeys, InvertInv
<1>3. \A r, c \in Covers : c \in tmp[r] <=> r = c
  BY <1>1 DEF Unit, Covers
\* tmp has become the identity, so F is the matrix of the read keys.
<1>4. ASSUME NEW r \in Covers, NEW c \in Covers PROVE c \in F[r] <=> c \in readKeys[r]
  <2>1. F[r] \in SUBSET Covers /\ (Odd({k \in F[r] : c \in tmp[k]}) <=> c \in readKeys[r])
    BY <1>2 DEF Maps, Matrices
  <2>2. CASE c \in F[r]
    <3>1. {k \in F[r] : c \in tmp[k]} = {c}
      BY <1>3, <2>1, <2>2
    <3> QED BY <3>1, <2>1, <2>2, ParityBasics
  <2>3. CASE c \notin F[r]
    <3>1. {k \in F[r] : c \in tmp[k]} = {}
      BY <1>3, <2>1, <2>3
    <3> QED BY <3>1, <2>1, <2>3, ParityBasics
  <2> QED BY <2>2, <2>3
<1>5. ASSUME NEW l \in Covers, NEW k \in Covers
      PROVE  Odd(readKeys'[l] \cap writeKeys'[k]) <=> l = k
  <2>1. F[l] \in SUBSET Covers /\ readKeys[l] \in SUBSET Covers
    BY <1>1 DEF Matrices
  <2>2. readKeys'[l] \cap writeKeys'[k] = {i \in F[l] : k \in writeKeys[i]}
    BY <1>1, <1>4, <2>1
  <2>3. Odd({i \in F[l] : k \in writeKeys[i]}) <=> k \in Identity[l]
    BY <1>2 DEF Maps
  <2> QED BY <2>2, <2>3, IdentityType
<1>6. KeysType'
  <2>1. writeKeys' \in Matrices
    BY <1>1 DEF Matrices
  <2> QED BY <2>1 DEF UseKeys, KeysType, Matrices
<1>7. KeysApart'
  BY <1>5 DEF KeysApart
<1>8. LevelsApart'
  BY <1>1 DEF UseKeys, LevelsApart, ReadBit
<1> QED BY <1>6, <1>7, <1>8 DEF UseKeys, NeverSingular

LEMMA WriteLevelIInv ==
  ASSUME IInv, NEW level \in Levels, NEW bit \in BOOLEAN, WriteLevel(level, bit)
  PROVE  IInv'
<1> USE DEF IInv
<1>1. /\ readKeys \in Matrices /\ writeKeys \in Matrices /\ disk \in SUBSET Covers
      /\ readKeys' = readKeys /\ writeKeys' = writeKeys /\ pc = "ready" /\ pc' = pc
      /\ KeysApart /\ LevelsApart /\ written \in SUBSET Levels
  BY DEF WriteLevel, KeysType
<1>2. Levels \subseteq Covers
  BY KeyAssumption DEF Levels, Covers
<1>3. writeKeys[level] \in SUBSET Covers
  BY <1>1, <1>2 DEF Matrices
<1>4. disk' = IF ReadBit(level, disk) # bit THEN Sum2(disk, writeKeys[level]) ELSE disk
  BY DEF WriteLevel
<1>5. KeysType'
  <2>1. disk' \in SUBSET Covers
    BY <1>1, <1>3, <1>4, ParityOfSum
  <2>2. written' \in SUBSET Levels
    BY <1>1 DEF WriteLevel
  <2> QED BY <2>1, <2>2 DEF WriteLevel, KeysType
<1>6. KeysApart'
  BY <1>1 DEF KeysApart
<1>7. ASSUME NEW l \in Levels PROVE l \in written' <=> Odd(readKeys[l] \cap disk')
  <2>1. readKeys[l] \in SUBSET Covers /\ l \in Covers /\ level \in Covers
    BY <1>1, <1>2 DEF Matrices
  <2>2. l \in written <=> Odd(readKeys[l] \cap disk)
    BY <1>1 DEF LevelsApart, ReadBit
  <2>3. l \in written' <=> IF l = level THEN bit ELSE l \in written
    BY DEF WriteLevel
  <2>4. level \in written <=> ReadBit(level, disk)
    BY <1>1 DEF LevelsApart, ReadBit
  <2>5. CASE ReadBit(level, disk) = bit
    <3>1. disk' = disk
      BY <1>4, <2>5
    <3> QED BY <3>1, <2>2, <2>3, <2>4, <2>5
  <2>6. CASE ReadBit(level, disk) # bit
    <3>1. disk' = Sum2(disk, writeKeys[level])
      BY <1>4, <2>6
    <3>2. Odd(Sum2(disk, writeKeys[level]) \cap readKeys[l])
            <=> (Odd(disk \cap readKeys[l]) <=> ~Odd(writeKeys[level] \cap readKeys[l]))
      BY <1>1, <1>3, <2>1, ParityOfRows
    <3>3. /\ Sum2(disk, writeKeys[level]) \cap readKeys[l] = readKeys[l] \cap disk'
          /\ disk \cap readKeys[l] = readKeys[l] \cap disk
          /\ writeKeys[level] \cap readKeys[l] = readKeys[l] \cap writeKeys[level]
      BY <3>1
    <3>4. Odd(readKeys[l] \cap writeKeys[level]) <=> l = level
      BY <1>1, <2>1 DEF KeysApart
    <3>5. Odd(readKeys[l] \cap disk') <=> (l \in written <=> l # level)
      BY <3>2, <3>3, <3>4, <2>2
    <3>6. level \in written <=> ~bit
      <4>1. ReadBit(level, disk) \in BOOLEAN
        BY DEF ReadBit, Odd
      <4>2. CASE bit = TRUE
        BY <4>1, <4>2, <2>4, <2>6, Zenon
      <4>3. CASE bit = FALSE
        BY <4>1, <4>3, <2>4, <2>6, Zenon
      <4> QED BY <4>2, <4>3
    <3> QED BY <3>5, <3>6, <2>3
  <2> QED BY <2>5, <2>6
<1>8. LevelsApart'
  <2>1. written' = {l \in Levels : Odd(readKeys[l] \cap disk')}
    BY <1>5, <1>7 DEF KeysType
  <2> QED BY <2>1, <1>1 DEF LevelsApart, ReadBit
<1> QED BY <1>1, <1>5, <1>6, <1>8 DEF NeverSingular

LEMMA NextIInv == IInv /\ [Next]_vars => IInv'
<1> SUFFICES ASSUME IInv, [Next]_vars PROVE IInv'
  OBVIOUS
<1>1. CASE GenColumn
  BY <1>1, GenColumnIInv
<1>2. CASE StartInvert
  BY <1>2, StartInvertIInv
<1>3. CASE InvertColumn
  BY <1>3, InvertColumnIInv
<1>4. CASE UseKeys
  BY <1>4, UseKeysIInv
<1>5. ASSUME NEW level \in Levels, NEW bit \in BOOLEAN, WriteLevel(level, bit) PROVE IInv'
  BY <1>5, WriteLevelIInv
<1>6. CASE UNCHANGED vars
  BY <1>6 DEF vars, IInv, KeysType, NeverSingular, GenInv, InvertInv, KeysApart, LevelsApart,
              ReadBit, Regular, Unit, Kernel
<1> QED BY <1>1, <1>2, <1>3, <1>4, <1>5, <1>6 DEF Next

----------------------------------------------------------------------------
(***************************************************************************)
(* The theorems.                                                           *)
(***************************************************************************)
LEMMA Invariance == Spec => []IInv
<1>1. Init => IInv
  BY InitIInv
<1>2. IInv /\ [Next]_vars => IInv'
  BY NextIInv
<1> QED BY <1>1, <1>2, PTL DEF Spec

\* Whatever random vectors matrix_gen_nonsing draws, for any number of cover
\* files, its matrix is nonsingular: matrix_invert never runs out of pivots.
THEOREM KeysAlwaysExist == Spec => []NeverSingular
<1>1. IInv => NeverSingular
  BY DEF IInv
<1> QED BY <1>1, Invariance, PTL

\* Whatever the keys are and whatever is written to which level in which order,
\* every level reads as what was last written to it.
THEOREM LevelsStayApart == Spec => []LevelsApart
<1>1. IInv => LevelsApart
  BY DEF IInv, LevelsApart
<1> QED BY <1>1, Invariance, PTL
=============================================================================
