------------------------- MODULE LevelChains_proofs -------------------------
(***************************************************************************)
(* Proofs about the cluster chains of a level: why a file keeps its        *)
(* clusters while threads allocate, link, cut and free others.             *)
(*                                                                         *)
(* A chain is what following links gives, and every step that writes a     *)
(* link or frees a cluster could change any of them.  So the invariant     *)
(* does not follow links: it says that every cluster can be given an owner *)
(* and a place (Shape), of which each step is a local change (Goes).       *)
(* Follow, Reach and cardinalities come in at the end, by FollowInto.      *)
(***************************************************************************)
EXTENDS Level_proofs

----------------------------------------------------------------------------
(***************************************************************************)
(* Following links.  An induction over the number of links is a search for *)
(* the least one at which it would fail.                                   *)
(***************************************************************************)
LEMMA LeastNat ==
  ASSUME NEW S \in SUBSET Nat, S # {}
  PROVE  \E n \in S : \A m \in 0 .. n - 1 : m \notin S
<1>1. PICK n \in S : \A m \in S : n <= m
  BY FirstExists DEF First
<1> QED BY <1>1

Link(x) == IF x \in Clusters THEN next[x] ELSE x

\* f is the sequence of the first k links from c.
LinksFrom(f, c, k) == f = [j \in 0 .. k |-> IF j = 0 THEN c ELSE Link(f[j - 1])]

\* A recursive function along links exists.
LEMMA LinksExist ==
  ASSUME NEW c, NEW k \in Nat
  PROVE  \E f : LinksFrom(f, c, k)
<1> DEFINE Bad == {n \in Nat : ~\E f : LinksFrom(f, c, n)}
<1> SUFFICES ASSUME Bad # {} PROVE FALSE
  OBVIOUS
<1>1. PICK n \in Bad : \A m \in 0 .. n - 1 : m \notin Bad
  BY LeastNat
<1>2. CASE n = 0
  <2>1. LinksFrom([j \in 0 .. 0 |-> c], c, 0)
    BY DEF LinksFrom
  <2> QED BY <1>1, <1>2, <2>1
<1>3. CASE n # 0
  <2>1. n - 1 \in Nat /\ n - 1 \in 0 .. n - 1
    BY <1>3
  <2>2. PICK f : LinksFrom(f, c, n - 1)
    BY <1>1, <2>1
  <2>3. PICK g : g = [j \in 0 .. n |-> IF j = n THEN Link(f[n - 1]) ELSE f[j]]
    OBVIOUS
  <2>4. ASSUME NEW j \in 0 .. n PROVE g[j] = IF j = 0 THEN c ELSE Link(g[j - 1])
    <3>1. CASE j = n
      <4>1. g[n - 1] = f[n - 1]
        BY <2>1, <2>3
      <4> QED BY <1>3, <2>3, <3>1, <4>1
    <3>2. CASE j # n
      <4>1. j \in 0 .. n - 1
        BY <3>2
      <4>2. f[j] = IF j = 0 THEN c ELSE Link(f[j - 1])
        BY <2>2, <4>1 DEF LinksFrom
      <4>3. j # 0 => g[j - 1] = f[j - 1]
        BY <2>3, <4>1
      <4>4. g[j] = f[j]
        BY <2>3, <4>1
      <4> QED BY <4>2, <4>3, <4>4
    <3> QED BY <3>1, <3>2
  <2>5. g = [j \in 0 .. n |-> IF j = 0 THEN c ELSE Link(g[j - 1])]
    BY <2>3, <2>4
  <2> QED BY <1>1, <2>5 DEF LinksFrom
<1> QED BY <1>2, <1>3

\* Follow is the last value of that function.
LEMMA FollowLinks ==
  ASSUME NEW c, NEW k \in Nat
  PROVE  \E f : LinksFrom(f, c, k) /\ Follow(c, k) = f[k]
<1> DEFINE f == CHOOSE f : LinksFrom(f, c, k)
<1>1. LinksFrom(f, c, k)
  BY LinksExist
<1>2. Follow(c, k) = f[k]
  BY DEF Follow, LinksFrom, Link
<1> QED BY <1>1, <1>2

\* What a link leads from S[j] to S[j + 1] ends in S[k].
LEMMA FollowInto ==
  ASSUME NEW c, NEW k \in Nat, NEW S, c \in S[0],
         \A j \in 0 .. k - 1 : \A x \in S[j] : Link(x) \in S[j + 1]
  PROVE  Follow(c, k) \in S[k]
<1>1. PICK f : LinksFrom(f, c, k) /\ Follow(c, k) = f[k]
  BY FollowLinks
<1> DEFINE Bad == {n \in Nat : n <= k /\ f[n] \notin S[n]}
<1>2. SUFFICES ASSUME Bad # {} PROVE FALSE
  BY <1>1
<1>3. PICK n \in Bad : \A m \in 0 .. n - 1 : m \notin Bad
  BY <1>2, LeastNat
<1>4. \A j \in 0 .. k : f[j] = IF j = 0 THEN c ELSE Link(f[j - 1])
  BY <1>1 DEF LinksFrom
<1>5. CASE n = 0
  BY <1>3, <1>4, <1>5
<1>6. CASE n # 0
  <2>1. n - 1 \in 0 .. n - 1 /\ n - 1 \in Nat /\ n - 1 \in 0 .. k - 1 /\ n \in 0 .. k /\ n - 1 + 1 = n
    BY <1>3, <1>6
  <2>2. f[n - 1] \in S[n - 1]
    BY <1>3, <2>1
  <2>3. f[n] = Link(f[n - 1])
    BY <1>4, <1>6, <2>1
  <2> QED BY <1>3, <2>1, <2>2, <2>3
<1> QED BY <1>5, <1>6

----------------------------------------------------------------------------
(***************************************************************************)
(* How many clusters a size takes.                                         *)
(***************************************************************************)
Ext(size) == Greater(1, Required(size))

\* The bounds of a quotient.
LEMMA DivMod ==
  ASSUME NEW a \in Nat, NEW b \in Nat \ {0}
  PROVE  /\ a \div b \in Nat /\ a % b \in 0 .. b - 1
         /\ a = (a \div b) * b + (a % b)
OBVIOUS

\* Products grow with their factors.
LEMMA Monotone ==
  ASSUME NEW a \in Nat, NEW b \in Nat, NEW c \in Nat, a <= b
  PROVE  a * c <= b * c
OBVIOUS

\* A product of naturals is one.
LEMMA ProductType ==
  ASSUME NEW a \in Nat, NEW b \in Nat
  PROVE  a * b \in Nat
OBVIOUS

\* A quotient is the one number between its bounds.
LEMMA QuotientOf ==
  ASSUME NEW q \in Nat, NEW b \in Nat \ {0}, NEW m \in 0 .. b - 1
  PROVE  (q * b + m) \div b = q
<1>1. PICK a \in Nat : a = q * b + m
  BY ProductType
<1>2. PICK p \in Nat, n \in 0 .. b - 1 : p = a \div b /\ n = a % b /\ a = p * b + n
  BY DivMod
<1>3. ~(p < q)
  <2> SUFFICES ASSUME p < q PROVE FALSE
    OBVIOUS
  <2>1. (p + 1) * b <= q * b /\ (p + 1) * b = p * b + b
    BY Monotone
  <2>2. p * b \in Nat /\ q * b \in Nat
    BY ProductType
  <2> QED BY <1>1, <1>2, <2>1, <2>2
<1>4. ~(q < p)
  <2> SUFFICES ASSUME q < p PROVE FALSE
    OBVIOUS
  <2>1. (q + 1) * b <= p * b /\ (q + 1) * b = q * b + b
    BY Monotone
  <2>2. p * b \in Nat /\ q * b \in Nat
    BY ProductType
  <2> QED BY <1>1, <1>2, <2>1, <2>2
<1> QED BY <1>1, <1>2, <1>3, <1>4

\* A quotient grows with the dividend.
LEMMA DivMonotone ==
  ASSUME NEW a \in Nat, NEW c \in Nat, NEW b \in Nat \ {0}, a <= c
  PROVE  a \div b <= c \div b
<1>1. PICK p \in Nat, m \in 0 .. b - 1 : p = a \div b /\ a = p * b + m
  BY DivMod
<1>2. PICK q \in Nat, n \in 0 .. b - 1 : q = c \div b /\ c = q * b + n
  BY DivMod
<1>3. ~(q < p)
  <2> SUFFICES ASSUME q < p PROVE FALSE
    OBVIOUS
  <2>1. (q + 1) * b <= p * b /\ (q + 1) * b = q * b + b
    BY Monotone
  <2>2. p * b \in Nat /\ q * b \in Nat
    BY ProductType
  <2> QED BY <1>1, <1>2, <2>1, <2>2
<1> QED BY <1>1, <1>2, <1>3

\* The cluster of the last byte of a file is its last.
LEMMA LastByte ==
  ASSUME NEW s \in Nat, s # 0
  PROVE  \E q \in Nat, m \in 0 .. DataSize - 1 :
           /\ q = (s - 1) \div DataSize /\ m = (s - 1) % DataSize
           /\ s - 1 = q * DataSize + m
<1>1. PICK a \in Nat : a = s - 1
  OBVIOUS
<1>2. /\ a \div DataSize \in Nat /\ a % DataSize \in 0 .. DataSize - 1
      /\ a = (a \div DataSize) * DataSize + (a % DataSize)
  BY DivMod, LevelAssumption
<1> QED BY <1>1, <1>2

\* The last cluster of a file is the one its last byte is in.
LEMMA ExtOf ==
  ASSUME NEW s \in Nat
  PROVE  /\ Ext(s) \in Nat \ {0}
         /\ Ext(s) = EofHops(s) + 1
         /\ s # 0 => Required(s) = Ext(s)
         /\ EofHops(s) \in Nat
<1>1. CASE s = 0
  <2>1. (s + DataSize - 1) \div DataSize = 0
    <3>1. PICK m \in 0 .. DataSize - 1 : m = DataSize - 1
      BY LevelAssumption
    <3>2. (0 * DataSize + m) \div DataSize = 0 /\ 0 * DataSize + m = s + DataSize - 1
      BY <1>1, <3>1, QuotientOf, LevelAssumption
    <3> QED BY <3>2
  <2> QED BY <1>1, <2>1 DEF Ext, EofHops, Required, Greater
<1>2. CASE s # 0
  <2>1. PICK q \in Nat, m \in 0 .. DataSize - 1 : q = (s - 1) \div DataSize /\ s - 1 = q * DataSize + m
    BY <1>2, LastByte
  <2>2. ((q + 1) * DataSize + m) \div DataSize = q + 1
    BY QuotientOf, LevelAssumption
  <2>3. (q + 1) * DataSize + m = s + DataSize - 1
    <3>1. (q + 1) * DataSize = q * DataSize + DataSize /\ q * DataSize \in Nat
      BY LevelAssumption, ProductType
    <3> QED BY <2>1, <3>1, LevelAssumption
  <2>4. Required(s) = q + 1
    BY <2>2, <2>3 DEF Required
  <2> QED BY <1>2, <2>1, <2>4 DEF Ext, EofHops, Greater
<1> QED BY <1>1, <1>2

\* A longer file has no fewer clusters.
LEMMA ExtMonotone ==
  ASSUME NEW s \in Nat, NEW u \in Nat, s <= u
  PROVE  Ext(s) <= Ext(u) /\ EofHops(s) <= EofHops(u)
<1>1. CASE s = 0
  BY <1>1, ExtOf DEF EofHops
<1>2. CASE s # 0
  <2>1. (s - 1) \div DataSize <= (u - 1) \div DataSize
    BY <1>2, DivMonotone, LevelAssumption
  <2> QED BY <1>2, <2>1, ExtOf DEF EofHops
<1> QED BY <1>1, <1>2

\* bs_do_write_extend allocates just the clusters that the new size needs.
LEMMA ExtGrows ==
  ASSUME NEW s \in Nat, NEW u \in Nat, s < u
  PROVE  NewClusters(s, u) \in Nat /\ Ext(u) = Ext(s) + NewClusters(s, u)
<1>1. PICK p \in Nat, n \in 0 .. DataSize - 1 : p = (u - 1) \div DataSize /\ u - 1 = p * DataSize + n
  BY LastByte
<1>2. Ext(u) = p + 1
  BY <1>1, ExtOf DEF EofHops
<1>3. CASE s = 0
  <2>1. (u - s) - (DataSize - LocalEof(s)) + DataSize - 1 = u - 1
    BY <1>3, LevelAssumption DEF LocalEof
  <2>2. NewClusters(s, u) = p
    BY <1>1, <2>1 DEF NewClusters
  <2>3. Ext(s) = 1
    BY <1>3, ExtOf DEF EofHops
  <2> QED BY <1>2, <2>2, <2>3
<1>4. CASE s # 0
  <2>1. PICK q \in Nat, m \in 0 .. DataSize - 1 : /\ q = (s - 1) \div DataSize
                                                 /\ m = (s - 1) % DataSize
                                                 /\ s - 1 = q * DataSize + m
    BY <1>4, LastByte
  <2>2. Ext(s) = q + 1 /\ q <= p
    <3>1. EofHops(s) = q /\ EofHops(u) = p
      BY <1>1, <1>4, <2>1 DEF EofHops
    <3>2. EofHops(s) <= EofHops(u)
      BY ExtMonotone
    <3> QED BY <3>1, <3>2, ExtOf
  <2>3. PICK d \in Nat : p = q + d
    <3>1. p - q \in Nat /\ p = q + (p - q)
      BY <2>2
    <3> QED BY <3>1
  <2>4. p * DataSize = q * DataSize + d * DataSize
    BY <2>3, LevelAssumption
  <2>5. LocalEof(s) = m + 1
    BY <1>4, <2>1 DEF LocalEof
  <2>6. (u - s) - (DataSize - LocalEof(s)) + DataSize - 1 = d * DataSize + n
    <3>1. q * DataSize \in Nat /\ d * DataSize \in Nat /\ p * DataSize \in Nat
      BY LevelAssumption, ProductType
    <3> QED BY <1>1, <2>1, <2>4, <2>5, <3>1, LevelAssumption
  <2>7. NewClusters(s, u) = d
    BY <2>6, QuotientOf, LevelAssumption DEF NewClusters
  <2> QED BY <1>2, <2>2, <2>3, <2>7
<1> QED BY <1>3, <1>4

----------------------------------------------------------------------------
(***************************************************************************)
(* Owners.  The invariant says that the clusters can be given owners, a    *)
(* file or an operation, and a place in what the owner has: own and pos    *)
(* are what the code knows of a cluster and keeps nowhere.                 *)
(***************************************************************************)
File(i) == <<"file", i>>
Job(t) == <<"job", t>>
Nobody == <<"nobody", 0>>
Owners == {Nobody} \cup {File(i) : i \in Indices} \cup {Job(t) : t \in Threads}

\* No owner is another.
LEMMA OwnersDiffer ==
  /\ \A i, j : File(i) = File(j) <=> i = j
  /\ \A t, u : Job(t) = Job(u) <=> t = u
  /\ \A i, t : File(i) # Job(t)
  /\ \A i : File(i) # Nobody
  /\ \A t : Job(t) # Nobody
<1> USE DEF File, Job, Nobody
<1>1. \A i, j : File(i) = File(j) <=> i = j
  OBVIOUS
<1>2. \A t, u : Job(t) = Job(u) <=> t = u
  OBVIOUS
<1>3. \A i, t : File(i) # Job(t)
  OBVIOUS
<1>4. \A i : File(i) # Nobody
  OBVIOUS
<1>5. \A t : Job(t) # Nobody
  OBVIOUS
<1> QED BY <1>1, <1>2, <1>3, <1>4, <1>5

Unlinking(t) == pc[t] \in {"collect", "free"} /\ job[t].kind = "unlink"
Truncating(t) == pc[t] \in {"collect", "free"} /\ job[t].kind = "ftruncate"
Growing(t) == pc[t] \in {"fill", "hook", "undo"}

\* File i has the clusters at the places below Extent(i), each linked to the next.
FileShape(own, pos, i) ==
  IF bft[i].name = NoName
    THEN \A c \in Clusters : own[c] # File(i)
    ELSE /\ own[bft[i].first] = File(i) /\ pos[bft[i].first] = 0
         /\ \A c \in Clusters : own[c] = File(i) =>
              /\ pos[c] < Extent(i)
              /\ pos[c] + 1 < Extent(i) =>
                   next[c] \in Clusters /\ own[next[c]] = File(i) /\ pos[next[c]] = pos[c] + 1
              /\ pos[c] + 1 = Extent(i) /\ ~Cutting(i) => next[c] = EOF

\* The clusters t took for a file it extends, in the order of job[t].list.
GrowShape(own, pos, t) ==
  /\ \A k \in 1 .. Len(job[t].list) :
       own[job[t].list[k]] = Job(t) /\ pos[job[t].list[k]] = k
  /\ \A c \in Clusters : own[c] = Job(t) => pos[c] \in 1 .. Len(job[t].list)
  /\ pc[t] = "hook" => \A k \in 1 .. Len(job[t].list) :
       next[job[t].list[k]] = IF k < Len(job[t].list) THEN job[t].list[k + 1] ELSE EOF

\* The chain of a file that is no more: up to `at` it has been collected.
UnlinkShape(own, pos, t) ==
  /\ \A k \in 1 .. Len(job[t].list) :
       own[job[t].list[k]] = Job(t) /\ pos[job[t].list[k]] + 1 = k
  /\ \A c \in Clusters : own[c] = Job(t) =>
       /\ pos[c] < ClusterCount
       /\ \/ next[c] = EOF /\ \A d \in Clusters : own[d] = Job(t) => pos[d] <= pos[c]
          \/ next[c] \in Clusters /\ own[next[c]] = Job(t) /\ pos[next[c]] = pos[c] + 1
  /\ \/ job[t].at = EOF /\ \A d \in Clusters : own[d] = Job(t) => pos[d] < Len(job[t].list)
     \/ job[t].at \in Clusters /\ own[job[t].at] = Job(t) /\ pos[job[t].at] = Len(job[t].list)
  /\ pc[t] = "free" => job[t].at = EOF

JobShape(own, pos, t) ==
  /\ Growing(t) => GrowShape(own, pos, t)
  /\ Unlinking(t) => UnlinkShape(own, pos, t)
  /\ ~Growing(t) /\ ~Unlinking(t) => \A c \in Clusters : own[c] # Job(t)

\* What bsfs_ftruncate has collected behind the last cluster it keeps.
TailShape(own, pos, t) ==
  /\ job[t].arg < job[t].size
  /\ \A k \in 1 .. Len(job[t].list) :
       /\ own[job[t].list[k]] = File(handle[t])
       /\ pos[job[t].list[k]] = pos[job[t].cur] + k
  /\ \/ /\ job[t].at = EOF
        /\ \A d \in Clusters : own[d] = File(handle[t]) =>
             pos[d] <= pos[job[t].cur] + Len(job[t].list)
     \/ /\ job[t].at \in Clusters /\ own[job[t].at] = File(handle[t])
        /\ pos[job[t].at] = pos[job[t].cur] + Len(job[t].list) + 1
  /\ pc[t] = "free" => job[t].at = EOF

\* Where in its file t is.
CurShape(own, pos, t) ==
  /\ pc[t] \in {"walk", "alloc", "fill", "hook", "cut"} \/ Truncating(t) =>
       own[job[t].cur] = File(handle[t])
  /\ pc[t] = "walk" =>
       pos[job[t].cur] + job[t].hops = EofHops(Lesser(job[t].arg, job[t].size))
  /\ pc[t] \in {"alloc", "fill", "hook"} =>
       job[t].size < job[t].arg /\ pos[job[t].cur] + 1 = Ext(job[t].size)
  /\ pc[t] \in {"fill", "hook"} => Len(job[t].list) = NewClusters(job[t].size, job[t].arg)
  /\ pc[t] = "cut" \/ Truncating(t) => pos[job[t].cur] + 1 = Ext(job[t].arg)
  /\ pc[t] = "cut" => job[t].kind = "ftruncate"
  /\ Truncating(t) => TailShape(own, pos, t)

Marked(own) == \A c \in Clusters : own[c] # Nobody => c \in bitmap
Injective(own, pos) ==
  \A c, d \in Clusters : own[c] = own[d] /\ own[c] # Nobody /\ pos[c] = pos[d] => c = d

Shape(own, pos) ==
  /\ own \in [Clusters -> Owners] /\ pos \in [Clusters -> Nat]
  /\ Marked(own) /\ Injective(own, pos)
  /\ \A i \in Indices : FileShape(own, pos, i)
  /\ \A t \in Threads : JobShape(own, pos, t) /\ CurShape(own, pos, t)

\* No allocation of two or more clusters runs out of space.
Enough == \A t \in Threads : pc[t] = "alloc" =>
            \/ NewClusters(job[t].size, job[t].arg) <= Cardinality(FreeClusters)
            \/ FreeClusters = {}
Frugal == "read" \notin Faults /\ Enough
Tight(own) == \A c \in bitmap : own[c] # Nobody

\* What a step does to the owners: they can be kept, no cluster loses its
\* owner without being freed, and a file that is read keeps its clusters.
Goes(own) ==
  \E own2, pos2 :
    /\ Shape(own2, pos2)'
    /\ Frugal /\ Tight(own) => Tight(own2)'
    /\ \A i \in Indices : readers[i] # {} =>
         /\ bft'[i].size = bft[i].size
         /\ bft'[i].name # NoName <=> bft[i].name # NoName
         /\ \A c \in Clusters : own2[c] = File(i) <=> own[c] = File(i)

----------------------------------------------------------------------------
(* Frames: what a step of t leaves as it was.                              *)

\* The size of a chain, by the one thread that has the file's write lock.
LEMMA ChainSizeIs ==
  ASSUME IInv, NEW i \in Indices
  PROVE  /\ ChainSize(i) = IF writer[i] # None /\ pc[writer[i]] \in {"cut", "commit"}
                             THEN NewSize(writer[i]) ELSE bft[i].size
         /\ Cutting(i) <=> writer[i] # None /\ pc[writer[i]] = "cut"
<1>1. writer[i] \in Threads \cup {None} /\ None \notin Threads
  BY LevelAssumption DEF IInv, TypeOK
<1> QED BY <1>1 DEF ChainSize, Cutting

\* A chain has at least one cluster.
LEMMA ChainSizeType ==
  ASSUME IInv, NEW i \in Indices
  PROVE  ChainSize(i) \in 0 .. MaxSize /\ Extent(i) = Ext(ChainSize(i))
                                       /\ Extent(i) \in Nat \ {0}
<1>1. bft[i].size \in 0 .. MaxSize /\ bft \in [Indices -> Entries]
  BY DEF IInv, TypeOK, Entries
<1>2. writer[i] # None => NewSize(writer[i]) \in 0 .. MaxSize
  <2> SUFFICES ASSUME writer[i] # None PROVE NewSize(writer[i]) \in 0 .. MaxSize
    OBVIOUS
  <2>1. job[writer[i]] \in Jobs
    BY DEF IInv, TypeOK
  <2> QED BY <2>1, JobFields DEF NewSize, Greater
<1>3. ChainSize(i) \in 0 .. MaxSize
  BY <1>1, <1>2, ChainSizeIs
<1>4. 0 .. MaxSize \subseteq Nat
  BY LevelAssumption
<1> QED BY <1>3, <1>4, ExtOf DEF Extent, Ext

\* The size of the chain of a file that t does not write, or not yet.
FileKept(i) ==
  /\ bft'[i].first = bft[i].first /\ bft'[i].size = bft[i].size
  /\ bft'[i].name = NoName <=> bft[i].name = NoName
  /\ ChainSize(i)' = ChainSize(i) /\ (Cutting(i)' <=> Cutting(i))

\* Only the thread that writes a file changes the size of its chain.
LEMMA KeepsChainSize ==
  ASSUME IInv, IInv', NEW t \in Threads, NEW i \in Indices,
         \A u \in Threads \ {t} : pc'[u] = pc[u] /\ job'[u] = job[u],
         bft'[i].size = bft[i].size,
         \/ writer'[i] = writer[i]
         \/ {writer[i], writer'[i]} \subseteq {t, None},
         writer[i] = t => pc[t] \notin {"cut", "commit"},
         writer'[i] = t => pc'[t] \notin {"cut", "commit"}
  PROVE  ChainSize(i)' = ChainSize(i) /\ (Cutting(i)' <=> Cutting(i))
<1>1. writer[i] \in Threads \cup {None} /\ writer'[i] \in Threads \cup {None}
  BY DEF IInv, TypeOK
<1>2. /\ ChainSize(i)' = IF writer'[i] # None /\ pc'[writer'[i]] \in {"cut", "commit"}
                           THEN NewSize(writer[i])' ELSE bft'[i].size
      /\ Cutting(i)' <=> writer'[i] # None /\ pc'[writer'[i]] = "cut"
  BY <1>1, LevelAssumption DEF ChainSize, Cutting
<1>3. \A u \in Threads \ {t} : NewSize(u)' = NewSize(u)
  BY DEF NewSize
<1>6. /\ ChainSize(i) = IF writer[i] # None /\ pc[writer[i]] \in {"cut", "commit"}
                          THEN NewSize(writer[i]) ELSE bft[i].size
      /\ Cutting(i) <=> writer[i] # None /\ pc[writer[i]] = "cut"
  BY ChainSizeIs
<1>4. CASE writer[i] = t \/ writer'[i] = t
  BY <1>1, <1>2, <1>4, <1>6, LevelAssumption
<1>5. CASE writer[i] # t /\ writer'[i] # t
  <2>1. writer'[i] = writer[i]
    BY <1>1, <1>5
  <2>2. CASE writer[i] = None
    BY <1>2, <1>6, <2>1, <2>2
  <2>3. CASE writer[i] # None
    <3>1. PICK u \in Threads \ {t} : writer[i] = u
      BY <1>1, <1>5, <2>3
    <3>2. NewSize(u)' = NewSize(u) /\ pc'[u] = pc[u] /\ writer'[i] = u
      BY <1>3, <2>1, <3>1
    <3> QED BY <1>2, <1>6, <3>1, <3>2, <2>3 DEF NewSize
  <2> QED BY <2>2, <2>3
<1> QED BY <1>4, <1>5

\* The owners a step of t that is about the files of A may give and take.
Mine(t, A) == {Nobody, Job(t)} \cup {File(i) : i \in A}

\* An operation that has a file writes it alone.
Alone(t, A) == \A i \in A : /\ readers[i] = {}
                            /\ \A u \in Threads \ {t} : InFile(u) => handle[u] # i

\* What a step must show: only what is t's, or the files' that t has alone, has
\* changed, and there the shape is right again.
LEMMA StepShape ==
  ASSUME IInv, NEW t \in Threads, NEW own, NEW pos, Shape(own, pos),
         NEW A \in SUBSET Indices, NEW own2 \in [Clusters -> Owners],
         NEW pos2 \in [Clusters -> Nat],
         \A u \in Threads \ {t} : pc'[u] = pc[u] /\ job'[u] = job[u] /\ handle'[u] = handle[u],
         Alone(t, A),
         \A i \in Indices \ A : FileKept(i),
         \A c \in Clusters :
           \/ own2[c] = own[c] /\ pos2[c] = pos[c] /\ next'[c] = next[c]
           \/ own[c] \in Mine(t, A) /\ own2[c] \in Mine(t, A),
         Marked(own2)', Injective(own2, pos2),
         \A i \in A : FileShape(own2, pos2, i)',
         JobShape(own2, pos2, t)', CurShape(own2, pos2, t)',
         Frugal /\ Tight(own) => Tight(own2)'
  PROVE  Goes(own)
<1>1. ASSUME NEW o, o \notin Mine(t, A), NEW c \in Clusters
      PROVE  /\ own2[c] = o <=> own[c] = o
             /\ own[c] = o => pos2[c] = pos[c] /\ next'[c] = next[c]
  BY <1>1
<1>2. ASSUME NEW i \in Indices \ A PROVE FileShape(own2, pos2, i)'
  <2>1. File(i) \notin Mine(t, A)
    BY OwnersDiffer DEF Mine
  <2>2. FileShape(own, pos, i) /\ FileKept(i) /\ bft \in [Indices -> Entries]
    BY DEF Shape, IInv, TypeOK
  <2>3. Extent(i)' = Extent(i) /\ (Cutting(i)' <=> Cutting(i))
    BY <2>2 DEF FileKept, Extent, Required
  <2>4. \A c \in Clusters : own2[c] = File(i) <=> own[c] = File(i)
    BY <1>1, <2>1
  <2>5. \A c \in Clusters : own[c] = File(i) => pos2[c] = pos[c] /\ next'[c] = next[c]
    BY <1>1, <2>1
  <2>6. CASE bft[i].name = NoName
    BY <2>2, <2>4, <2>6 DEF FileShape, FileKept
  <2>7. CASE bft[i].name # NoName
    <3>1. bft[i].first \in Clusters /\ bft'[i].first = bft[i].first /\ bft'[i].name # NoName
      BY <2>2, <2>7 DEF FileKept, Entries
    <3>2. own2[bft[i].first] = File(i) /\ pos2[bft[i].first] = 0
      BY <2>2, <2>4, <2>5, <2>7, <3>1 DEF FileShape
    <3>3. ASSUME NEW c \in Clusters, own2[c] = File(i)
          PROVE  /\ pos2[c] < Extent(i)
                 /\ pos2[c] + 1 < Extent(i) =>
                      next'[c] \in Clusters /\ own2[next'[c]] = File(i) /\ pos2[next'[c]] = pos2[c] + 1
                 /\ pos2[c] + 1 = Extent(i) /\ ~Cutting(i) => next'[c] = EOF
      <4>1. own[c] = File(i) /\ pos2[c] = pos[c] /\ next'[c] = next[c]
        BY <2>4, <2>5, <3>3
      <4>2. /\ pos[c] < Extent(i)
            /\ pos[c] + 1 < Extent(i) =>
                 next[c] \in Clusters /\ own[next[c]] = File(i) /\ pos[next[c]] = pos[c] + 1
            /\ pos[c] + 1 = Extent(i) /\ ~Cutting(i) => next[c] = EOF
        BY <2>2, <2>7, <4>1 DEF FileShape
      <4> QED BY <2>4, <2>5, <4>1, <4>2
    <3> QED BY <2>3, <3>1, <3>2, <3>3 DEF FileShape
  <2> QED BY <2>6, <2>7
<1>3. ASSUME NEW u \in Threads \ {t} PROVE JobShape(own2, pos2, u)'
  <2>1. Job(u) \notin Mine(t, A)
    BY OwnersDiffer DEF Mine
  <2>2. JobShape(own, pos, u) /\ pc'[u] = pc[u] /\ job'[u] = job[u]
    BY DEF Shape
  <2>3. \A c \in Clusters : own2[c] = Job(u) <=> own[c] = Job(u)
    BY <1>1, <2>1
  <2>4. \A c \in Clusters : own[c] = Job(u) => pos2[c] = pos[c] /\ next'[c] = next[c]
    BY <1>1, <2>1
  <2>5. job[u].list \in Seq(Clusters)
    BY JobFields DEF IInv, TypeOK
  <2>6. \A k \in 1 .. Len(job[u].list) : job[u].list[k] \in Clusters
    BY <2>5
  <2>7. ASSUME Growing(u) PROVE GrowShape(own2, pos2, u)'
    <3>1. GrowShape(own, pos, u)
      BY <2>2, <2>7 DEF JobShape
    <3>2. ASSUME NEW k \in 1 .. Len(job[u].list), own[job[u].list[k]] = Job(u)
          PROVE  /\ own2[job[u].list[k]] = Job(u)
                 /\ pos2[job[u].list[k]] = pos[job[u].list[k]]
                 /\ next'[job[u].list[k]] = next[job[u].list[k]]
      BY <2>3, <2>4, <2>6, <3>2
    <3>3. \A k \in 1 .. Len(job[u].list) :
            own2[job[u].list[k]] = Job(u) /\ pos2[job[u].list[k]] = k
      BY <3>1, <3>2 DEF GrowShape
    <3>4. \A c \in Clusters : own2[c] = Job(u) => pos2[c] \in 1 .. Len(job[u].list)
      BY <2>3, <2>4, <3>1 DEF GrowShape
    <3>5. pc[u] = "hook" => \A k \in 1 .. Len(job[u].list) :
            next'[job[u].list[k]] = IF k < Len(job[u].list) THEN job[u].list[k + 1] ELSE EOF
      BY <3>1, <3>2 DEF GrowShape
    <3> QED BY <2>2, <3>3, <3>4, <3>5 DEF GrowShape
  <2>8. ASSUME Unlinking(u) PROVE UnlinkShape(own2, pos2, u)'
    <3>1. UnlinkShape(own, pos, u)
      BY <2>2, <2>8 DEF JobShape
    <3>2. \A k \in 1 .. Len(job[u].list) :
            own2[job[u].list[k]] = Job(u) /\ pos2[job[u].list[k]] + 1 = k
      BY <2>3, <2>4, <2>6, <3>1 DEF UnlinkShape
    <3>3. ASSUME NEW c \in Clusters, own2[c] = Job(u)
          PROVE  /\ pos2[c] < ClusterCount
                 /\ \/ next'[c] = EOF /\ \A d \in Clusters : own2[d] = Job(u) => pos2[d] <= pos2[c]
                    \/ next'[c] \in Clusters /\ own2[next'[c]] = Job(u) /\ pos2[next'[c]] = pos2[c] + 1
      <4>1. own[c] = Job(u) /\ pos2[c] = pos[c] /\ next'[c] = next[c]
        BY <2>3, <2>4, <3>3
      <4>2. pos[c] < ClusterCount
        BY <3>1, <4>1 DEF UnlinkShape
      <4>3. CASE next[c] = EOF /\ \A d \in Clusters : own[d] = Job(u) => pos[d] <= pos[c]
        BY <2>3, <2>4, <4>1, <4>2, <4>3
      <4>4. CASE next[c] \in Clusters /\ own[next[c]] = Job(u) /\ pos[next[c]] = pos[c] + 1
        BY <2>3, <2>4, <4>1, <4>2, <4>4
      <4> QED BY <3>1, <4>1, <4>3, <4>4 DEF UnlinkShape
    <3>4. \/ job[u].at = EOF /\ \A d \in Clusters : own2[d] = Job(u) => pos2[d] < Len(job[u].list)
          \/ job[u].at \in Clusters /\ own2[job[u].at] = Job(u) /\ pos2[job[u].at] = Len(job[u].list)
      BY <2>3, <2>4, <3>1 DEF UnlinkShape
    <3>5. pc[u] = "free" => job[u].at = EOF
      BY <3>1 DEF UnlinkShape
    <3> QED BY <2>2, <3>2, <3>3, <3>4, <3>5 DEF UnlinkShape
  <2>9. ~Growing(u) /\ ~Unlinking(u) => \A c \in Clusters : own2[c] # Job(u)
    BY <2>2, <2>3 DEF JobShape
  <2>10. (Growing(u)' <=> Growing(u)) /\ (Unlinking(u)' <=> Unlinking(u))
    BY <2>2 DEF Growing, Unlinking
  <2> QED BY <2>7, <2>8, <2>9, <2>10 DEF JobShape
<1>4. ASSUME NEW u \in Threads \ {t} PROVE CurShape(own2, pos2, u)'
  <2>2. CurShape(own, pos, u) /\ pc'[u] = pc[u] /\ job'[u] = job[u] /\ handle'[u] = handle[u]
    BY DEF Shape
  <2>1. CASE InFile(u)
    <3>1. handle[u] \notin A
      BY <2>1 DEF Alone
    <3>2. File(handle[u]) \notin Mine(t, A)
      BY <3>1, OwnersDiffer DEF Mine
    <3>3. \A c \in Clusters : own2[c] = File(handle[u]) <=> own[c] = File(handle[u])
      BY <1>1, <3>2
    <3>4. \A c \in Clusters : own[c] = File(handle[u]) => pos2[c] = pos[c]
      BY <1>1, <3>2
    <3>5. job[u].list \in Seq(Clusters) /\ job[u].cur \in Clusters
      BY JobFields DEF IInv, TypeOK
    <3>6. \A k \in 1 .. Len(job[u].list) : job[u].list[k] \in Clusters
      BY <3>5
    <3>7. Truncating(u)' <=> Truncating(u)
      BY <2>2 DEF Truncating
    <3>8. pc[u] \in {"walk", "alloc", "fill", "hook", "cut"} \/ Truncating(u) =>
            /\ own2[job[u].cur] = File(handle[u])
            /\ pos2[job[u].cur] = pos[job[u].cur]
      BY <2>2, <3>3, <3>4, <3>5 DEF CurShape
    <3>9. ASSUME Truncating(u) PROVE TailShape(own2, pos2, u)'
      <4>1. TailShape(own, pos, u) /\ pos2[job[u].cur] = pos[job[u].cur]
        BY <2>2, <3>8, <3>9 DEF CurShape
      <4>2. ASSUME NEW k \in 1 .. Len(job[u].list)
            PROVE  /\ own2[job[u].list[k]] = File(handle[u])
                   /\ pos2[job[u].list[k]] = pos2[job[u].cur] + k
        BY <3>3, <3>4, <3>6, <4>1 DEF TailShape
      <4>3. \/ /\ job[u].at = EOF
               /\ \A d \in Clusters : own2[d] = File(handle[u]) =>
                    pos2[d] <= pos2[job[u].cur] + Len(job[u].list)
            \/ /\ job[u].at \in Clusters /\ own2[job[u].at] = File(handle[u])
               /\ pos2[job[u].at] = pos2[job[u].cur] + Len(job[u].list) + 1
        BY <3>3, <3>4, <4>1 DEF TailShape
      <4>4. job[u].arg < job[u].size /\ (pc[u] = "free" => job[u].at = EOF)
        BY <4>1 DEF TailShape
      <4> QED BY <2>2, <4>2, <4>3, <4>4 DEF TailShape
    <3> QED BY <2>2, <3>7, <3>8, <3>9 DEF CurShape
  <2>3. CASE ~InFile(u)
    BY <2>2, <2>3 DEF InFile, AfterGetSize, CurShape, Truncating
  <2> QED BY <2>1, <2>3
<1>5. Shape(own2, pos2)'
  <2>1. \A i \in Indices : FileShape(own2, pos2, i)'
    BY <1>2
  <2>2. \A u \in Threads : JobShape(own2, pos2, u)' /\ CurShape(own2, pos2, u)'
    BY <1>3, <1>4
  <2> QED BY <2>1, <2>2 DEF Shape, Injective
<1>6. ASSUME NEW i \in Indices, readers[i] # {}
      PROVE  /\ bft'[i].size = bft[i].size
             /\ bft'[i].name # NoName <=> bft[i].name # NoName
             /\ \A c \in Clusters : own2[c] = File(i) <=> own[c] = File(i)
  <2>1. i \notin A
    BY <1>6 DEF Alone
  <2>2. File(i) \notin Mine(t, A)
    BY <2>1, OwnersDiffer DEF Mine
  <2> QED BY <1>1, <2>1, <2>2 DEF FileKept
<1> QED BY <1>5, <1>6 DEF Goes

\* A step of t that takes and gives no cluster.
LEMMA QuietStep ==
  ASSUME IInv, NEW t \in Threads, NEW own, NEW pos, Shape(own, pos),
         NEW A \in SUBSET Indices,
         \A u \in Threads \ {t} : pc'[u] = pc[u] /\ job'[u] = job[u] /\ handle'[u] = handle[u],
         Alone(t, A),
         \A i \in Indices \ A : FileKept(i),
         UNCHANGED next, bitmap \subseteq bitmap', Frugal => bitmap' = bitmap,
         ~Growing(t), ~Unlinking(t), ~Growing(t)', ~Unlinking(t)',
         \A i \in A : FileShape(own, pos, i)', CurShape(own, pos, t)'
  PROVE  Goes(own)
<1>1. own \in [Clusters -> Owners] /\ pos \in [Clusters -> Nat] /\ Injective(own, pos)
  BY DEF Shape
<1>2. Marked(own)'
  BY DEF Shape, Marked
<1>3. JobShape(own, pos, t)'
  BY DEF Shape, JobShape
<1>4. Frugal /\ Tight(own) => Tight(own)'
  BY DEF Tight
<1> QED BY <1>1, <1>2, <1>3, <1>4, StepShape

\* A thread outside the operations on files is at no cluster.
LEMMA CurTrivial ==
  ASSUME NEW t, NEW own, NEW pos,
         pc'[t] \in {"idle", "size", "reap", "undo", "commit"} \/ Unlinking(t)'
  PROVE  CurShape(own, pos, t)'
BY DEF CurShape, Truncating, Unlinking

\* Between lock and unlock of a file only its writer changes what it is.
LEMMA FilesKept ==
  ASSUME IInv, IInv', NEW t \in Threads, NEW i \in Indices,
         \A u \in Threads \ {t} : pc'[u] = pc[u] /\ job'[u] = job[u],
         bft'[i].first = bft[i].first, bft'[i].size = bft[i].size,
         bft'[i].name = NoName <=> bft[i].name = NoName,
         \/ UNCHANGED writer
         \/ writer' = [k \in Indices |-> IF writer[k] = t THEN None ELSE writer[k]],
         writer[i] # t \/ {pc[t], pc'[t]} \cap {"cut", "commit"} = {}
  PROVE  FileKept(i)
<1>1. \/ writer'[i] = writer[i]
      \/ writer[i] = t /\ writer'[i] = None
  OBVIOUS
<1>2. None # t
  BY LevelAssumption
<1>3. ChainSize(i)' = ChainSize(i) /\ (Cutting(i)' <=> Cutting(i))
  BY <1>1, <1>2, KeepsChainSize
<1> QED BY <1>3 DEF FileKept

\* What Finish leaves.
LEMMA FinishIs ==
  ASSUME IInv, NEW t \in Threads, Finish(t)
  PROVE  /\ pc'[t] = "idle"
         /\ \A u \in Threads \ {t} : pc'[u] = pc[u] /\ job'[u] = job[u]
         /\ writer' = [k \in Indices |-> IF writer[k] = t THEN None ELSE writer[k]]
BY DEF Finish, IInv, TypeOK

\* What GoTo leaves.
LEMMA GoToIs ==
  ASSUME IInv, NEW t \in Threads, NEW label, GoTo(t, label)
  PROVE  pc'[t] = label /\ \A u \in Threads \ {t} : pc'[u] = pc[u]
BY DEF GoTo, IInv, TypeOK

\* A step outside the operations on files.
LEMMA OutsideGoes ==
  ASSUME IInv, IInv', NEW t \in Threads, NEW own, NEW pos, Shape(own, pos),
         UNCHANGED <<table, locks, job>>,
         \A u \in Threads \ {t} : pc'[u] = pc[u] /\ handle'[u] = handle[u],
         pc[t] \in {"idle", "reap"}, pc'[t] \in {"idle", "reap"}
  PROVE  Goes(own)
<1>1. \A i \in Indices : FileKept(i)
  BY FilesKept DEF table, locks
<1>2. ~Growing(t) /\ ~Unlinking(t) /\ ~Growing(t)' /\ ~Unlinking(t)'
  BY DEF Growing, Unlinking
<1>3. CurShape(own, pos, t)'
  BY CurTrivial
<1>4. Alone(t, {})
  BY DEF Alone
<1> QED BY <1>1, <1>2, <1>3, <1>4, QuietStep DEF table, locks

\* Opening, releasing and attributes touch no chain.
LEMMA OpenGoes ==
  ASSUME IInv, IInv', NEW t \in Threads, NEW own, NEW pos, Shape(own, pos),
         Attributes(t) \/ Release(t) \/ Reap(t) \/ \E n \in Names : Open(t, n)
  PROVE  Goes(own)
<1>0. pc \in [Threads -> PCs] /\ handle \in [Threads -> Indices \cup {None}]
  BY DEF IInv, TypeOK
<1>1. CASE Attributes(t)
  BY <1>1, OutsideGoes DEF Attributes
<1>2. CASE Release(t)
  BY <1>0, <1>2, OutsideGoes DEF Release, GoTo
<1>3. CASE Reap(t)
  BY <1>0, <1>3, OutsideGoes DEF Reap, GoTo
<1>4. ASSUME NEW n \in Names, Open(t, n) PROVE Goes(own)
  BY <1>0, <1>4, OutsideGoes DEF Open
<1> QED BY <1>1, <1>2, <1>3, <1>4

\* Taking the lock of a file touches no chain.
LEMMA BeginGoes ==
  ASSUME IInv, IInv', NEW t \in Threads, NEW own, NEW pos, Shape(own, pos), NEW kind, NEW arg,
         (kind = "read" /\ BeginRead(t, arg)) \/ BeginWrite(t, kind, arg)
  PROVE  Goes(own)
<1>0. pc \in [Threads -> PCs] /\ job \in [Threads -> Jobs] /\ t # None
  BY LevelAssumption DEF IInv, TypeOK
<1>1. /\ pc[t] = "idle" /\ pc'[t] = "size"
      /\ \A u \in Threads \ {t} : pc'[u] = pc[u] /\ job'[u] = job[u]
      /\ UNCHANGED <<table, handle>>
  BY <1>0 DEF BeginRead, BeginWrite, Begin, GoTo
<1>2. ASSUME NEW i \in Indices PROVE FileKept(i)
  <2>1. writer'[i] = writer[i] \/ {writer[i], writer'[i]} \subseteq {t, None}
    BY DEF BeginRead, BeginWrite, Begin, IInv, TypeOK
  <2>2. ChainSize(i)' = ChainSize(i) /\ (Cutting(i)' <=> Cutting(i))
    BY <1>1, <2>1, KeepsChainSize DEF table
  <2> QED BY <1>1, <2>2 DEF FileKept, table
<1>3. ~Growing(t) /\ ~Unlinking(t) /\ ~Growing(t)' /\ ~Unlinking(t)'
  BY <1>1 DEF Growing, Unlinking
<1>4. CurShape(own, pos, t)'
  BY <1>1, CurTrivial
<1>5. Alone(t, {})
  BY DEF Alone
<1> QED BY <1>1, <1>2, <1>3, <1>4, <1>5, QuietStep DEF table

----------------------------------------------------------------------------
(* An operation on a file, on its way through the chain.                   *)

\* A writer has its file alone.
LEMMA WriterAlone ==
  ASSUME IInv, NEW t \in Threads, InFile(t), job[t].kind # "read"
  PROVE  handle[t] \in Indices /\ writer[handle[t]] = t /\ Alone(t, {handle[t]})
<1>1. handle[t] \in Indices /\ writer[handle[t]] = t
  BY DEF IInv, Rest, Locked
<1>2. readers[handle[t]] = {} /\ t # None
  BY <1>1, LevelAssumption DEF IInv, Rest, Exclusive
<1>3. \A u \in Threads \ {t} : InFile(u) => handle[u] # handle[t]
  BY <1>1, <1>2 DEF IInv, Rest, Locked
<1> QED BY <1>1, <1>2, <1>3 DEF Alone

\* What an operation knows of the file it is in.
LEMMA InsideFile ==
  ASSUME IInv, NEW t \in Threads, InFile(t), pc[t] # "size"
  PROVE  /\ handle[t] \in Indices /\ bft[handle[t]].name # NoName
         /\ bft[handle[t]].size = job[t].size
         /\ pc[t] \notin {"cut", "commit"} =>
              Extent(handle[t]) = Ext(job[t].size) /\ ~Cutting(handle[t])
<1>1. handle[t] \in Indices /\ bft[handle[t]].name # NoName /\ bft[handle[t]].size = job[t].size
  BY DEF IInv, Rest, Locked, Snapshots, SnapshotAt, InFile
<1>2. CASE writer[handle[t]] = t
  <2>1. pc[t] \notin {"cut", "commit"} =>
          ChainSize(handle[t]) = bft[handle[t]].size /\ ~Cutting(handle[t])
    BY <1>1, <1>2, ChainSizeIs
  <2> QED BY <1>1, <2>1, ChainSizeType
<1>3. CASE writer[handle[t]] # t
  <2>1. t \in readers[handle[t]]
    BY <1>1, <1>3 DEF IInv, Rest, Locked
  <2>2. writer[handle[t]] = None
    BY <1>1, <2>1 DEF IInv, Rest, Exclusive
  <2>3. ChainSize(handle[t]) = bft[handle[t]].size /\ ~Cutting(handle[t])
    BY <1>1, <2>2, ChainSizeIs
  <2> QED BY <1>1, <2>3, ChainSizeType
<1> QED BY <1>2, <1>3

\* An operation goes on, or returns, and its file keeps its chain.
LEMMA MoveGoes ==
  ASSUME IInv, IInv', NEW t \in Threads, NEW own, NEW pos, Shape(own, pos),
         UNCHANGED <<bft, next, handle>>,
         bitmap \subseteq bitmap', Frugal => bitmap' = bitmap,
         \A u \in Threads \ {t} : pc'[u] = pc[u] /\ job'[u] = job[u],
         \/ UNCHANGED writer
         \/ writer' = [k \in Indices |-> IF writer[k] = t THEN None ELSE writer[k]],
         {pc[t], pc'[t]} \cap {"cut", "commit"} = {},
         ~Growing(t), ~Unlinking(t), ~Growing(t)', ~Unlinking(t)',
         CurShape(own, pos, t)'
  PROVE  Goes(own)
<1>1. \A i \in Indices : FileKept(i)
  BY FilesKept
<1>2. Alone(t, {})
  BY DEF Alone
<1> QED BY <1>1, <1>2, QuietStep

\* An operation that returns with nothing linked or freed.
LEMMA ReturnGoes ==
  ASSUME IInv, IInv', NEW t \in Threads, NEW own, NEW pos, Shape(own, pos),
         UNCHANGED <<bft, next, handle>>, Finish(t),
         bitmap \subseteq bitmap', Frugal => bitmap' = bitmap,
         pc[t] \notin {"cut", "commit"}, ~Growing(t), ~Unlinking(t)
  PROVE  Goes(own)
<1>1. ~Growing(t)' /\ ~Unlinking(t)'
  BY FinishIs DEF Growing, Unlinking
<1>2. CurShape(own, pos, t)'
  BY CurTrivial, FinishIs
<1> QED BY <1>1, <1>2, FinishIs, MoveGoes

\* The operation commits next: the size it will write is one the chain is for.
LEMMA CommitNextGoes ==
  ASSUME IInv, IInv', NEW t \in Threads, NEW own, NEW pos, Shape(own, pos),
         UNCHANGED <<bft, bitmap, next, handle, locks>>,
         pc' = [pc EXCEPT ![t] = "commit"],
         \A u \in Threads \ {t} : job'[u] = job[u],
         InFile(t), pc[t] \notin {"cut", "commit"}, ~Growing(t), ~Unlinking(t),
         job[t].kind # "read", Ext(NewSize(t)') = Ext(bft[handle[t]].size)
  PROVE  Goes(own)
<1>1. handle[t] \in Indices /\ writer[handle[t]] = t /\ Alone(t, {handle[t]}) /\ t # None
  BY WriterAlone, LevelAssumption
<1>2. pc'[t] = "commit" /\ \A u \in Threads \ {t} : pc'[u] = pc[u]
  BY DEF IInv, TypeOK
<1>3. \A i \in Indices \ {handle[t]} : writer[i] # t
  BY <1>1 DEF IInv, Rest, LockHeld
<1>4. \A i \in Indices \ {handle[t]} : FileKept(i)
  BY <1>2, <1>3, FilesKept DEF locks
<1>5. FileShape(own, pos, handle[t])'
  <2> DEFINE i == handle[t]
  <2>1. FileShape(own, pos, i) /\ UNCHANGED <<bft, next>>
    BY <1>1 DEF Shape
  <2>2. ChainSize(i) = bft[i].size /\ ~Cutting(i)
    BY <1>1, ChainSizeIs
  <2>3. ChainSize(i)' = NewSize(t)' /\ ~Cutting(i)'
    BY <1>1, <1>2 DEF ChainSize, Cutting, locks, NewSize
  <2>4. Extent(i)' = Extent(i)
    BY <2>2, <2>3 DEF Extent, Ext, Required
  <2> QED BY <2>1, <2>2, <2>3, <2>4 DEF FileShape
<1>6. ~Growing(t)' /\ ~Unlinking(t)' /\ CurShape(own, pos, t)'
  BY <1>2, CurTrivial DEF Growing, Unlinking
<1> QED BY <1>1, <1>2, <1>4, <1>5, <1>6, QuietStep

\* The types of an operation's locals.
LEMMA JobAt ==
  ASSUME IInv, NEW t \in Threads
  PROVE  /\ job[t] \in Jobs /\ job[t].arg \in Nat /\ job[t].size \in Nat
         /\ job[t].hops \in Nat /\ job[t].cur \in Clusters
         /\ job[t].list \in Seq(Clusters) /\ Len(job[t].list) \in Nat
         /\ \A k \in 1 .. Len(job[t].list) : job[t].list[k] \in Clusters
<1>1. job[t] \in Jobs
  BY DEF IInv, TypeOK
<1>2. job[t].list \in Seq(Clusters)
  BY <1>1, JobFields
<1> QED BY <1>1, <1>2, JobFields, LevelAssumption

\* Truncating to a size that takes as many clusters frees none.
LEMMA SameExtent ==
  ASSUME NEW s \in Nat, NEW u \in Nat, Required(s) = Required(u)
  PROVE  Ext(s) = Ext(u)
BY DEF Ext

\* The walk begins at the first cluster and its goal lies in the chain.
LEMMA GetSizeGoes ==
  ASSUME IInv, IInv', NEW t \in Threads, NEW own, NEW pos, Shape(own, pos), GetSize(t)
  PROVE  Goes(own)
<1> DEFINE i == handle[t]
           size == bft[i].size
           first == bft[i].first
<1>1. /\ pc[t] = "size" /\ UNCHANGED <<bft, bitmap, next, oft, handle>>
      /\ InFile(t) /\ ~Growing(t) /\ ~Unlinking(t)
  BY DEF GetSize, InFile, Growing, Unlinking, table
<1>2. /\ i \in Indices /\ bft[i].name # NoName /\ size \in Nat /\ first \in Clusters
      /\ own[first] = File(i) /\ pos[first] = 0
  <2>1. i \in Indices /\ Using(t, i)
    BY <1>1 DEF IInv, Rest, Locked, Using
  <2>2. bft[i].name # NoName /\ size \in 0 .. MaxSize /\ first \in Clusters
    BY <2>1 DEF IInv, Rest, OpenNamed, TypeOK, Entries
  <2>3. FileShape(own, pos, i)
    BY <2>1 DEF Shape
  <2> QED BY <2>1, <2>2, <2>3, LevelAssumption DEF FileShape
<1>3. CASE Finish(t)
  BY <1>1, <1>3, ReturnGoes
<1>4. CASE ~Finish(t)
  <2>0. job \in [Threads -> Jobs] /\ pc \in [Threads -> PCs]
    BY DEF IInv, TypeOK
  <2>1. /\ ~NothingToDo(job[t].kind, job[t].arg, size)
        /\ job' = [job EXCEPT ![t].size = size, ![t].cur = first,
                              ![t].hops = EofHops(Lesser(job[t].arg, size))]
        /\ GoTo(t, IF SameClusters(job[t].kind, job[t].arg, size) THEN "commit" ELSE "walk")
        /\ UNCHANGED locks
    BY <1>4 DEF GetSize
  <2>2. /\ \A u \in Threads \ {t} : job'[u] = job[u]
        /\ job'[t].size = size /\ job'[t].cur = first /\ job'[t].arg = job[t].arg
        /\ job'[t].hops = EofHops(Lesser(job[t].arg, size)) /\ job'[t].kind = job[t].kind
    BY <2>0, <2>1 DEF Jobs
  <2>3. job[t].arg \in Nat
    BY JobAt
  <2>4. CASE SameClusters(job[t].kind, job[t].arg, size)
    <3>1. job[t].kind = "ftruncate" /\ Required(job[t].arg) = Required(size)
      BY <2>4 DEF SameClusters
    <3>2. NewSize(t)' = job[t].arg
      BY <2>2, <3>1 DEF NewSize
    <3>3. Ext(NewSize(t)') = Ext(size)
      BY <1>2, <2>3, <3>1, <3>2, SameExtent
    <3>4. pc' = [pc EXCEPT ![t] = "commit"]
      BY <2>1, <2>4 DEF GoTo
    <3> QED BY <1>1, <2>1, <2>2, <3>1, <3>3, <3>4, CommitNextGoes
  <2>5. CASE ~SameClusters(job[t].kind, job[t].arg, size)
    <3>1. pc'[t] = "walk" /\ \A u \in Threads \ {t} : pc'[u] = pc[u]
      BY <2>0, <2>1, <2>5 DEF GoTo
    <3>2. 0 + EofHops(Lesser(job[t].arg, size)) = EofHops(Lesser(job[t].arg, size))
      BY <1>2, <2>3, EofHopsType DEF Lesser
    <3>3. CurShape(own, pos, t)'
      BY <1>1, <1>2, <2>2, <3>1, <3>2 DEF CurShape, Truncating
    <3>4. ~Growing(t)' /\ ~Unlinking(t)'
      BY <3>1 DEF Growing, Unlinking
    <3> QED BY <1>1, <2>1, <2>2, <3>1, <3>3, <3>4, MoveGoes DEF locks
  <2> QED BY <2>4, <2>5
<1> QED BY <1>3, <1>4

\* A walk is to a cluster of the file.
LEMMA GoalInside ==
  ASSUME NEW arg \in Nat, NEW size \in Nat
  PROVE  /\ EofHops(Lesser(arg, size)) \in Nat
         /\ EofHops(Lesser(arg, size)) + 1 <= Ext(size)
<1>1. Lesser(arg, size) \in Nat /\ Lesser(arg, size) <= size
  BY DEF Lesser
<1>2. EofHops(Lesser(arg, size)) <= EofHops(size)
  BY <1>1, ExtMonotone
<1>3. EofHops(Lesser(arg, size)) \in Nat /\ EofHops(size) \in Nat
  BY <1>1, EofHopsType
<1> QED BY <1>2, <1>3, ExtOf

\* A link followed is a place further.
LEMMA WalkGoes ==
  ASSUME IInv, IInv', NEW t \in Threads, NEW own, NEW pos, Shape(own, pos), Walk(t)
  PROVE  Goes(own)
<1>1. /\ pc[t] = "walk" /\ job[t].hops > 0 /\ UNCHANGED <<bft, bitmap, next, oft, handle>>
      /\ InFile(t) /\ ~Growing(t) /\ ~Unlinking(t)
  BY DEF Walk, InFile, AfterGetSize, Growing, Unlinking, table
<1>2. CASE Finish(t)
  BY <1>1, <1>2, ReturnGoes
<1>3. CASE ~Finish(t)
  <2> DEFINE i == handle[t]
             link == next[job[t].cur]
             goal == EofHops(Lesser(job[t].arg, job[t].size))
  <2>0. job \in [Threads -> Jobs]
    BY DEF IInv, TypeOK
  <2>1. /\ link \in Clusters /\ job' = [job EXCEPT ![t].cur = link, ![t].hops = @ - 1]
        /\ UNCHANGED <<locks, pc>>
    BY <1>3 DEF Walk
  <2>2. /\ \A u \in Threads \ {t} : job'[u] = job[u]
        /\ job'[t].size = job[t].size /\ job'[t].arg = job[t].arg /\ job'[t].kind = job[t].kind
        /\ job'[t].cur = link /\ job'[t].hops = job[t].hops - 1
    BY <2>0, <2>1 DEF Jobs
  <2>3. own[job[t].cur] = File(i) /\ pos[job[t].cur] + job[t].hops = goal
    BY <1>1 DEF Shape, CurShape
  <2>4. goal \in Nat /\ goal + 1 <= Ext(job[t].size) /\ Ext(job[t].size) \in Nat
    BY JobAt, GoalInside, ExtOf
  <2>5. pos[job[t].cur] \in Nat /\ job[t].hops \in Nat /\ job[t].cur \in Clusters
    BY JobAt DEF Shape
  <2>6. pos[job[t].cur] + 1 < Ext(job[t].size)
    BY <1>1, <2>3, <2>4, <2>5
  <2>7. i \in Indices /\ bft[i].name # NoName /\ Extent(i) = Ext(job[t].size)
    BY <1>1, InsideFile
  <2>8. own[link] = File(i) /\ pos[link] = pos[job[t].cur] + 1
    BY <2>3, <2>5, <2>6, <2>7 DEF Shape, FileShape
  <2>9. pos[link] + (job[t].hops - 1) = goal
    BY <2>3, <2>4, <2>5, <2>8
  <2>10. CurShape(own, pos, t)'
    BY <1>1, <2>1, <2>2, <2>8, <2>9 DEF CurShape, Truncating
  <2>11. ~Growing(t)' /\ ~Unlinking(t)'
    BY <1>1, <2>1 DEF Growing, Unlinking
  <2> QED BY <1>1, <2>1, <2>2, <2>10, <2>11, MoveGoes DEF locks
<1> QED BY <1>2, <1>3

\* Behind the last cluster that a truncation keeps there is more of the file, or
\* nothing.
LEMMA ArriveAtTail ==
  ASSUME IInv, IInv', NEW t \in Threads, NEW own, NEW pos, Shape(own, pos),
         pc[t] = "walk", job[t].hops = 0, UNCHANGED <<table, oft, handle, locks>>,
         job[t].kind = "ftruncate", job[t].arg < job[t].size,
         StartCollect(t, "ftruncate", next[job[t].cur])
  PROVE  Goes(own)
<1> DEFINE i == handle[t]
           cur == job[t].cur
<1>1. /\ pc'[t] = "collect" /\ \A u \in Threads \ {t} : pc'[u] = pc[u]
      /\ \A u \in Threads \ {t} : job'[u] = job[u]
      /\ job'[t].kind = "ftruncate" /\ job'[t].at = next[cur] /\ job'[t].list = <<>>
      /\ job'[t].cur = cur /\ job'[t].arg = job[t].arg /\ job'[t].size = job[t].size
  BY DEF StartCollect, GoTo, IInv, TypeOK, Jobs
<1>2. InFile(t) /\ ~Growing(t) /\ ~Unlinking(t) /\ ~Growing(t)' /\ ~Unlinking(t)' /\ Truncating(t)'
  BY <1>1 DEF InFile, AfterGetSize, Growing, Unlinking, Truncating
<1>3. /\ cur \in Clusters /\ job[t].arg \in Nat /\ job[t].size \in Nat /\ pos[cur] \in Nat
      /\ next[cur] \in Links
  BY JobAt DEF Shape, IInv, TypeOK
<1>4. own[cur] = File(i) /\ pos[cur] + 1 = Ext(job[t].arg)
  <2>1. own[cur] = File(i) /\ pos[cur] + job[t].hops = EofHops(Lesser(job[t].arg, job[t].size))
    BY DEF Shape, CurShape
  <2>2. Lesser(job[t].arg, job[t].size) = job[t].arg
    BY DEF Lesser
  <2> QED BY <1>3, <2>1, <2>2, ExtOf
<1>5. /\ i \in Indices /\ bft[i].name # NoName /\ Extent(i) = Ext(job[t].size) /\ ~Cutting(i)
      /\ Ext(job[t].arg) <= Ext(job[t].size) /\ Ext(job[t].size) \in Nat
  BY <1>2, <1>3, InsideFile, ExtMonotone, ExtOf
<1>6. /\ \A c \in Clusters : own[c] = File(i) => pos[c] < Extent(i)
      /\ pos[cur] + 1 < Extent(i) => /\ next[cur] \in Clusters /\ own[next[cur]] = File(i)
                                     /\ pos[next[cur]] = pos[cur] + 1
      /\ pos[cur] + 1 = Extent(i) => next[cur] = EOF
  BY <1>3, <1>4, <1>5 DEF Shape, FileShape
<1>7. pos \in [Clusters -> Nat]
  BY DEF Shape
<1>8. \/ next[cur] = EOF /\ \A d \in Clusters : own[d] = File(i) => pos[d] <= pos[cur] + 0
      \/ next[cur] \in Clusters /\ own[next[cur]] = File(i) /\ pos[next[cur]] = pos[cur] + 0 + 1
  BY <1>3, <1>4, <1>5, <1>6, <1>7
<1>9. TailShape(own, pos, t)'
  <2>1. Len(job'[t].list) = 0 /\ \A k \in 1 .. Len(job'[t].list) : FALSE
    BY <1>1
  <2> QED BY <1>1, <1>8, <2>1 DEF TailShape
<1>10. CurShape(own, pos, t)'
  BY <1>1, <1>2, <1>4, <1>9 DEF CurShape
<1> QED BY <1>1, <1>2, <1>10, MoveGoes DEF table, locks

\* The last cluster, and what comes behind it.
LEMMA ArriveGoes ==
  ASSUME IInv, IInv', NEW t \in Threads, NEW own, NEW pos, Shape(own, pos), Arrive(t)
  PROVE  Goes(own)
<1> DEFINE kind == job[t].kind
           arg == job[t].arg
           size == job[t].size
<1>1. /\ pc[t] = "walk" /\ job[t].hops = 0 /\ UNCHANGED <<table, oft, handle>>
      /\ InFile(t) /\ ~Growing(t) /\ ~Unlinking(t)
  BY DEF Arrive, InFile, AfterGetSize, Growing, Unlinking
<1>2. CASE Finish(t)
  BY <1>1, <1>2, ReturnGoes DEF table
<1>3. /\ arg \in Nat /\ size \in Nat /\ job[t].cur \in Clusters /\ pos[job[t].cur] \in Nat
      /\ pc \in [Threads -> PCs] /\ bft[handle[t]].size = size
  BY <1>1, JobAt, InsideFile DEF Shape, IInv, TypeOK
<1>4. CASE kind = "write" /\ arg <= size /\ GoTo(t, "commit") /\ UNCHANGED <<locks, job>>
  <2>1. NewSize(t)' = size
    BY <1>3, <1>4 DEF NewSize, Greater
  <2> QED BY <1>1, <1>3, <1>4, <2>1, CommitNextGoes DEF GoTo, table
<1>5. CASE kind # "read" /\ arg > size /\ GoTo(t, "alloc") /\ UNCHANGED <<locks, job>>
  <2>1. own[job[t].cur] = File(handle[t]) /\ pos[job[t].cur] + 0 = EofHops(Lesser(arg, size))
    BY <1>1 DEF Shape, CurShape
  <2>2. Lesser(arg, size) = size
    BY <1>3, <1>5 DEF Lesser
  <2>3. size < arg /\ pos[job[t].cur] + 1 = Ext(size)
    BY <1>3, <1>5, <2>1, <2>2, ExtOf
  <2>4. pc'[t] = "alloc" /\ \A u \in Threads \ {t} : pc'[u] = pc[u]
    BY <1>5, GoToIs
  <2>5. CurShape(own, pos, t)'
    BY <1>1, <1>5, <2>1, <2>3, <2>4 DEF CurShape, Truncating
  <2>6. ~Growing(t)' /\ ~Unlinking(t)'
    BY <2>4 DEF Growing, Unlinking
  <2> QED BY <1>1, <1>5, <2>4, <2>5, <2>6, MoveGoes DEF table, locks
<1>6. CASE /\ kind = "ftruncate" /\ arg < size
           /\ StartCollect(t, kind, next[job[t].cur]) /\ UNCHANGED locks
  BY <1>1, <1>6, ArriveAtTail DEF table
<1> QED BY <1>2, <1>4, <1>5, <1>6 DEF Arrive

----------------------------------------------------------------------------
(* Extending a file.                                                       *)

\* A growing operation owns just the clusters of its list.
LEMMA InList ==
  ASSUME IInv, NEW t \in Threads, NEW own, NEW pos, Shape(own, pos), Growing(t)
  PROVE  /\ \A c \in Clusters : own[c] = Job(t) <=> c \in Elements(job[t].list)
         /\ \A j, k \in 1 .. Len(job[t].list) : job[t].list[j] = job[t].list[k] => j = k
<1>1. GrowShape(own, pos, t) /\ Injective(own, pos)
  BY DEF Shape, JobShape
<1>2. ASSUME NEW c \in Clusters, own[c] = Job(t) PROVE c \in Elements(job[t].list)
  <2>1. pos[c] \in 1 .. Len(job[t].list)
    BY <1>1, <1>2 DEF GrowShape
  <2>2. /\ job[t].list[pos[c]] \in Clusters /\ own[job[t].list[pos[c]]] = Job(t)
        /\ pos[job[t].list[pos[c]]] = pos[c]
    BY <1>1, <2>1, JobAt DEF GrowShape
  <2>3. job[t].list[pos[c]] = c
    BY <1>1, <1>2, <2>2, OwnersDiffer DEF Injective
  <2> QED BY <2>1, <2>3, JobAt DEF Elements
<1>3. ASSUME NEW c \in Clusters, c \in Elements(job[t].list) PROVE own[c] = Job(t)
  <2>1. PICK k \in 1 .. Len(job[t].list) : job[t].list[k] = c
    BY <1>3, JobAt DEF Elements
  <2> QED BY <1>1, <2>1 DEF GrowShape
<1>4. \A j, k \in 1 .. Len(job[t].list) : job[t].list[j] = job[t].list[k] => j = k
  BY <1>1 DEF GrowShape
<1> QED BY <1>2, <1>3, <1>4

\* An operation returns and its clusters are freed, or forgotten.
LEMMA JobFreed ==
  ASSUME IInv, IInv', NEW t \in Threads, NEW own, NEW pos, Shape(own, pos),
         UNCHANGED <<bft, next, handle>>, Finish(t), pc[t] \notin {"cut", "commit"},
         bitmap' \subseteq bitmap,
         \A c \in Clusters : own[c] \notin {Nobody, Job(t)} => c \in bitmap',
         Frugal => \A c \in bitmap' : own[c] # Job(t)
  PROVE  Goes(own)
<1>1. PICK own2 : own2 = [c \in Clusters |-> IF own[c] = Job(t) THEN Nobody ELSE own[c]]
  OBVIOUS
<1>2. own \in [Clusters -> Owners] /\ pos \in [Clusters -> Nat] /\ Injective(own, pos)
  BY DEF Shape
<1>3. own2 \in [Clusters -> Owners]
  BY <1>1, <1>2 DEF Owners
<1>4. \A i \in Indices : FileKept(i)
  BY FilesKept, FinishIs
<1>5. Alone(t, {})
  BY DEF Alone
<1>6. Marked(own2)'
  BY <1>1 DEF Marked
<1>7. Injective(own2, pos)
  BY <1>1, <1>2 DEF Injective
<1>8. JobShape(own2, pos, t)'
  BY <1>1, FinishIs, OwnersDiffer DEF JobShape, Growing, Unlinking
<1>9. CurShape(own2, pos, t)'
  BY CurTrivial, FinishIs
<1>10. Frugal /\ Tight(own) => Tight(own2)'
  <2>1. bitmap \subseteq Clusters
    BY DEF IInv, TypeOK
  <2> QED BY <1>1, <2>1 DEF Tight
<1>11. \A c \in Clusters :
         \/ own2[c] = own[c] /\ next'[c] = next[c]
         \/ own[c] \in Mine(t, {}) /\ own2[c] \in Mine(t, {})
  BY <1>1 DEF Mine
<1>12. \A u \in Threads \ {t} : pc'[u] = pc[u] /\ job'[u] = job[u] /\ handle'[u] = handle[u]
  BY FinishIs
<1> QED BY <1>2, <1>3, <1>4, <1>5, <1>6, <1>7, <1>8, <1>9, <1>10, <1>11, <1>12, StepShape

\* bs_do_write_extend gives back what it took.
LEMMA UndoGoes ==
  ASSUME IInv, IInv', NEW t \in Threads, NEW own, NEW pos, Shape(own, pos), Undo(t)
  PROVE  Goes(own)
<1>1. /\ pc[t] = "undo" /\ Finish(t) /\ UNCHANGED <<bft, next, handle>>
      /\ bitmap' = bitmap \ Elements(job[t].list) /\ Growing(t)
  BY DEF Undo, Growing
<1>2. \A c \in Clusters : own[c] = Job(t) <=> c \in Elements(job[t].list)
  BY <1>1, InList
<1>3. Marked(own) /\ bitmap \subseteq Clusters
  BY DEF Shape, IInv, TypeOK
<1> QED BY <1>1, <1>2, <1>3, JobFreed DEF Marked

\* The owners after t has taken the first n clusters of a list.
Assigned(t, own, pos, list, n, own2, pos2) ==
  /\ own2 \in [Clusters -> Owners] /\ pos2 \in [Clusters -> Nat]
  /\ \A k \in 1 .. n : own2[list[k]] = Job(t) /\ pos2[list[k]] = k
  /\ \A c \in Clusters :
       \/ own2[c] = own[c] /\ pos2[c] = pos[c] /\ \A k \in 1 .. n : list[k] # c
       \/ own2[c] = Job(t) /\ pos2[c] \in 1 .. n /\ list[pos2[c]] = c
  /\ Injective(own2, pos2)

\* The clusters of a list can be given to an operation in their order.
LEMMA Assign ==
  ASSUME NEW t \in Threads, NEW own \in [Clusters -> Owners], NEW pos \in [Clusters -> Nat],
         Injective(own, pos), \A c \in Clusters : own[c] # Job(t),
         NEW n \in Nat, NEW list, \A k \in 1 .. n : list[k] \in Clusters,
         \A j, k \in 1 .. n : list[j] = list[k] => j = k
  PROVE  \E own2, pos2 : Assigned(t, own, pos, list, n, own2, pos2)
<1>1. PICK E : E = {list[k] : k \in 1 .. n}
  OBVIOUS
<1>2. PICK own2 : own2 = [c \in Clusters |-> IF c \in E THEN Job(t) ELSE own[c]]
  OBVIOUS
<1>3. PICK place : place = [c \in Clusters |-> CHOOSE k \in 1 .. n : list[k] = c]
  OBVIOUS
<1>4. PICK pos2 : pos2 = [c \in Clusters |-> IF c \in E THEN place[c] ELSE pos[c]]
  OBVIOUS
<1>5. \A c \in E : c \in Clusters /\ place[c] \in 1 .. n /\ list[place[c]] = c
  BY <1>1, <1>3
<1>6. \A c \in E : own2[c] = Job(t) /\ pos2[c] \in 1 .. n /\ list[pos2[c]] = c
  BY <1>2, <1>4, <1>5
<1>7. \A c \in Clusters \ E : own2[c] = own[c] /\ pos2[c] = pos[c] /\ \A k \in 1 .. n : list[k] # c
  BY <1>1, <1>2, <1>4
<1>8. \A k \in 1 .. n : own2[list[k]] = Job(t) /\ pos2[list[k]] = k
  <2> SUFFICES ASSUME NEW k \in 1 .. n PROVE own2[list[k]] = Job(t) /\ pos2[list[k]] = k
    OBVIOUS
  <2>1. list[k] \in E
    BY <1>1
  <2>2. own2[list[k]] = Job(t) /\ pos2[list[k]] \in 1 .. n /\ list[pos2[list[k]]] = list[k]
    BY <1>6, <2>1
  <2> QED BY <2>2
<1>9. own2 \in [Clusters -> Owners]
  BY <1>2 DEF Owners
<1>10. pos2 \in [Clusters -> Nat]
  BY <1>4, <1>5
<1>11. Injective(own2, pos2)
  <2> SUFFICES ASSUME NEW c \in Clusters, NEW d \in Clusters, own2[c] = own2[d],
                      own2[c] # Nobody, pos2[c] = pos2[d]
               PROVE  c = d
    BY DEF Injective
  <2>1. CASE c \in E /\ d \in E
    BY <1>6, <2>1
  <2>2. CASE c \notin E /\ d \notin E
    BY <1>7, <2>2 DEF Injective
  <2> QED BY <1>6, <1>7, <2>1, <2>2
<1>12. Assigned(t, own, pos, list, n, own2, pos2)
  <2>1. ASSUME NEW c \in Clusters
        PROVE  \/ own2[c] = own[c] /\ pos2[c] = pos[c] /\ \A k \in 1 .. n : list[k] # c
               \/ own2[c] = Job(t) /\ pos2[c] \in 1 .. n /\ list[pos2[c]] = c
    BY <1>6, <1>7
  <2> QED BY <1>8, <1>9, <1>10, <1>11, <2>1 DEF Assigned
<1> QED BY <1>12

\* What fs_alloc_cluster returns has no owner.
LEMMA AllocGoes ==
  ASSUME IInv, IInv', NEW t \in Threads, NEW own, NEW pos, Shape(own, pos), AllocClusters(t)
  PROVE  Goes(own)
<1>0. PICK n, cur : n = NewClusters(job[t].size, job[t].arg) /\ cur = job[t].cur
  OBVIOUS
<1>1. /\ pc[t] = "alloc" /\ UNCHANGED <<bft, next, oft, handle>>
      /\ ~Growing(t) /\ ~Unlinking(t)
  BY DEF AllocClusters, Growing, Unlinking
<1>2. /\ own[cur] = File(handle[t]) /\ job[t].size < job[t].arg
      /\ pos[cur] + 1 = Ext(job[t].size)
  BY <1>0, <1>1 DEF Shape, CurShape
<1>3. n \in Nat
  BY <1>0, <1>2, JobAt, ExtGrows
<1>4. CASE ~(n <= Cardinality(FreeClusters))
  <2>1. bitmap' = bitmap \cup Last(FreeClusters) /\ Finish(t)
    BY <1>0, <1>4 DEF AllocClusters
  <2>2. Frugal => FreeClusters = {}
    BY <1>0, <1>1, <1>4 DEF Frugal, Enough
  <2>3. Frugal => bitmap' = bitmap
    BY <2>1, <2>2, FirstSubset
  <2> QED BY <1>1, <2>1, <2>3, ReturnGoes
<1>5. CASE n <= Cardinality(FreeClusters)
  <2>1. PICK list \in [1 .. n -> FreeClusters] :
          /\ Allocation(list, n)
          /\ bitmap' = bitmap \cup Elements(list)
          /\ job' = [job EXCEPT ![t].list = list]
    BY <1>0, <1>5 DEF AllocClusters
  <2>2. GoTo(t, "fill") /\ UNCHANGED locks
    BY <1>0, <1>5 DEF AllocClusters
  <2>3. /\ pc'[t] = "fill" /\ \A u \in Threads \ {t} : pc'[u] = pc[u]
        /\ \A u \in Threads \ {t} : job'[u] = job[u]
        /\ job'[t].list = list /\ job'[t].cur = cur /\ job'[t].kind = job[t].kind
        /\ job'[t].arg = job[t].arg /\ job'[t].size = job[t].size
    <3>1. pc'[t] = "fill" /\ \A u \in Threads \ {t} : pc'[u] = pc[u]
      BY <2>2, GoToIs
    <3>2. job \in [Threads -> Jobs]
      BY DEF IInv, TypeOK
    <3>3. \A u \in Threads \ {t} : job'[u] = job[u]
      BY <2>1, <3>2
    <3>4. job'[t] = [job[t] EXCEPT !.list = list]
      BY <2>1, <3>2
    <3>5. job[t] \in Jobs
      BY <3>2
    <3>6. /\ job'[t].list = list /\ job'[t].cur = job[t].cur /\ job'[t].kind = job[t].kind
          /\ job'[t].arg = job[t].arg /\ job'[t].size = job[t].size
      BY <3>4, <3>5 DEF Jobs
    <3> QED BY <1>0, <3>1, <3>3, <3>6
  <2>4. list \in Seq(Clusters) /\ Len(list) = n
    <3>1. job'[t] \in Jobs
      BY DEF IInv, TypeOK
    <3>2. list \in Seq(Clusters)
      BY <2>3, <3>1, JobFields
    <3>3. DOMAIN list = 1 .. n /\ DOMAIN list = 1 .. Len(list) /\ Len(list) \in Nat
      BY <2>1, <3>2
    <3> QED BY <1>3, <3>2, <3>3
  <2>5. /\ \A k \in 1 .. n : list[k] \in Clusters /\ list[k] \notin bitmap
        /\ \A j, k \in 1 .. n : list[j] = list[k] => j = k
        /\ Elements(list) = {list[k] : k \in 1 .. n}
    <3>1. \A k \in 1 .. n : list[k] \in Clusters /\ list[k] \notin bitmap
      BY <2>1 DEF FreeClusters
    <3>2. ASSUME NEW j \in 1 .. n, NEW k \in 1 .. n, j < k PROVE list[j] # list[k]
      <4>1. list[j] < list[k] /\ list[j] \in Int /\ list[k] \in Int
        BY <2>1, <3>1, <3>2, LevelAssumption DEF Allocation, Clusters
      <4> QED BY <4>1
    <3>3. \A j, k \in 1 .. n : list[j] = list[k] => j = k
      <4> SUFFICES ASSUME NEW j \in 1 .. n, NEW k \in 1 .. n, list[j] = list[k] PROVE j = k
        OBVIOUS
      <4>1. ~(j < k) /\ ~(k < j)
        BY <3>2
      <4> QED BY <1>3, <4>1
    <3>4. Elements(list) = {list[k] : k \in 1 .. n}
      BY <2>1 DEF Elements
    <3> QED BY <3>1, <3>3, <3>4
  <2>6. /\ own \in [Clusters -> Owners] /\ pos \in [Clusters -> Nat]
        /\ Injective(own, pos) /\ Marked(own) /\ \A c \in Clusters : own[c] # Job(t)
    BY <1>1 DEF Shape, JobShape
  <2>6a. PICK own2, pos2 : Assigned(t, own, pos, list, n, own2, pos2)
    BY <1>3, <2>5, <2>6, Assign
  <2>7. /\ own2 \in [Clusters -> Owners] /\ pos2 \in [Clusters -> Nat]
        /\ \A k \in 1 .. n : own2[list[k]] = Job(t) /\ pos2[list[k]] = k
        /\ \A c \in Clusters :
             \/ own2[c] = own[c] /\ pos2[c] = pos[c] /\ \A k \in 1 .. n : list[k] # c
             \/ own2[c] = Job(t) /\ pos2[c] \in 1 .. n /\ list[pos2[c]] = c
        /\ Injective(own2, pos2)
    BY <2>6a DEF Assigned
  <2>8. ASSUME NEW c \in Clusters, own2[c] = Job(t)
        PROVE  pos2[c] \in 1 .. n /\ c \in Elements(list) /\ own[c] = Nobody
    <3>1. pos2[c] \in 1 .. n /\ list[pos2[c]] = c
      BY <2>6, <2>7, <2>8
    <3> QED BY <2>5, <2>6, <3>1 DEF Marked
  <2>9. \A c \in Clusters : own2[c] # Job(t) =>
          own2[c] = own[c] /\ pos2[c] = pos[c] /\ c \notin Elements(list)
    BY <2>5, <2>7
  <2>10. Marked(own2)'
    BY <2>1, <2>6, <2>8, <2>9 DEF Marked
  <2>11. JobShape(own2, pos2, t)'
    <3>1. Growing(t)' /\ ~Unlinking(t)' /\ pc'[t] # "hook"
      BY <2>3 DEF Growing, Unlinking
    <3>2. \A c \in Clusters : own2[c] = Job(t) => pos2[c] \in 1 .. n
      BY <2>8
    <3>3. GrowShape(own2, pos2, t)'
      BY <2>3, <2>4, <2>7, <3>1, <3>2 DEF GrowShape
    <3> QED BY <3>1, <3>3 DEF JobShape
  <2>12. CurShape(own2, pos2, t)'
    <3>1. cur \in Clusters /\ own2[cur] # Job(t)
      BY <1>0, <1>2, <2>8, JobAt, OwnersDiffer
    <3>2. own2[cur] = File(handle[t]) /\ pos2[cur] = pos[cur]
      BY <1>2, <2>9, <3>1
    <3>3. Len(job'[t].list) = NewClusters(job'[t].size, job'[t].arg)
      BY <1>0, <2>3, <2>4
    <3>4. job'[t].size < job'[t].arg /\ pos2[job'[t].cur] + 1 = Ext(job'[t].size)
      BY <1>2, <2>3, <3>2
    <3> QED BY <1>1, <2>3, <3>2, <3>3, <3>4 DEF CurShape, Truncating
  <2>13. Frugal /\ Tight(own) => Tight(own2)'
    <3>1. bitmap \subseteq Clusters /\ Elements(list) \subseteq Clusters
      BY <2>5 DEF IInv, TypeOK
    <3> QED BY <2>1, <2>9, <3>1, OwnersDiffer DEF Tight
  <2>14. \A i \in Indices : FileKept(i)
    BY <1>1, <2>2, <2>3, FilesKept DEF locks
  <2>15. \A c \in Clusters :
           \/ own2[c] = own[c] /\ pos2[c] = pos[c] /\ next'[c] = next[c]
           \/ own[c] \in Mine(t, {}) /\ own2[c] \in Mine(t, {})
    BY <1>1, <2>8, <2>9 DEF Mine
  <2>16. Alone(t, {})
    BY DEF Alone
  <2>17. \A u \in Threads \ {t} : pc'[u] = pc[u] /\ job'[u] = job[u] /\ handle'[u] = handle[u]
    BY <1>1, <2>3
  <2> QED BY <2>7, <2>10, <2>11, <2>12, <2>13, <2>14, <2>15, <2>16, <2>17, StepShape
<1> QED BY <1>4, <1>5

LinkedTo(list, k, f) ==
  \A c \in Clusters :
    /\ (\A j \in 1 .. k : list[j] # c) => f[c] = next[c]
    /\ \A j \in 1 .. k : list[j] = c => f[c] = IF j < Len(list) THEN list[j + 1] ELSE EOF

\* What the loop that fills the new clusters writes.
LEMMA LinkedAt ==
  ASSUME NEW list, NEW n \in Nat, NEW k \in 0 .. n, Len(list) = n,
         \A i, j \in 1 .. n : list[i] = list[j] => i = j
  PROVE  LinkedTo(list, k, Linked(list, k))
<1> SUFFICES ASSUME NEW c \in Clusters
             PROVE  /\ (\A j \in 1 .. k : list[j] # c) => Linked(list, k)[c] = next[c]
                    /\ \A j \in 1 .. k : list[j] = c =>
                         Linked(list, k)[c] = IF j < n THEN list[j + 1] ELSE EOF
  BY DEF LinkedTo
<1>1. CASE \A j \in 1 .. k : list[j] # c
  BY <1>1 DEF Linked
<1>2. ASSUME NEW j \in 1 .. k, list[j] = c
      PROVE  Linked(list, k)[c] = IF j < n THEN list[j + 1] ELSE EOF
  <2>1. (CHOOSE i \in 1 .. k : list[i] = c) = j
    BY <1>2
  <2> QED BY <1>2, <2>1 DEF Linked
<1> QED BY <1>1, <1>2

\* The new clusters are linked in order; nobody else's link is written.
LEMMA FillGoes ==
  ASSUME IInv, IInv', NEW t \in Threads, NEW own, NEW pos, Shape(own, pos), Fill(t)
  PROVE  Goes(own)
<1>1. /\ pc[t] = "fill" /\ UNCHANGED <<bft, bitmap, locks, handle, job>>
      /\ Growing(t) /\ ~Unlinking(t)
  BY DEF Fill, Growing, Unlinking
<1>2. PICK list, n : list = job[t].list /\ n = Len(list)
  OBVIOUS
<1>3. /\ n \in Nat /\ \A k \in 1 .. n : list[k] \in Clusters
      /\ \A i, j \in 1 .. n : list[i] = list[j] => i = j
      /\ \A c \in Clusters : own[c] = Job(t) <=> \E k \in 1 .. n : list[k] = c
  <2>1. Elements(list) = {list[k] : k \in 1 .. n}
    BY <1>2, JobAt DEF Elements
  <2> QED BY <1>1, <1>2, <2>1, JobAt, InList
<1>4. PICK k \in 0 .. n :
        /\ next' = Linked(list, k)
        /\ (GoTo(t, "hook") /\ k = n) \/ GoTo(t, "undo")
  <2>1. CASE next' = Linked(list, n) /\ GoTo(t, "hook")
    BY <1>3, <2>1
  <2>2. ASSUME NEW k \in 0 .. n - 1, next' = Linked(list, k) /\ GoTo(t, "undo")
        PROVE  k \in 0 .. n
    BY <1>3
  <2> QED BY <1>2, <2>1, <2>2 DEF Fill
<1>5. /\ \A u \in Threads \ {t} : pc'[u] = pc[u]
      /\ pc'[t] \in {"hook", "undo"} /\ (pc'[t] = "hook" => k = n)
      /\ Growing(t)' /\ ~Unlinking(t)'
  <2>1. CASE GoTo(t, "hook") /\ k = n
    BY <2>1, GoToIs DEF Growing, Unlinking
  <2>2. CASE GoTo(t, "undo")
    BY <2>2, GoToIs DEF Growing, Unlinking
  <2> QED BY <1>4, <2>1, <2>2
<1>6a. LinkedTo(list, k, next')
  <2>1. LinkedTo(list, k, Linked(list, k))
    <3>1. n \in Nat /\ k \in 0 .. n /\ Len(list) = n
      BY <1>2, <1>3, <1>4
    <3>2. \A i, j \in 1 .. n : list[i] = list[j] => i = j
      BY <1>3
    <3> QED BY <3>1, <3>2, LinkedAt
  <2> QED BY <1>4, <2>1
<1>6. \A c \in Clusters : next'[c] = next[c] \/ own[c] = Job(t)
  BY <1>3, <1>6a DEF LinkedTo
<1>7. k = n => \A j \in 1 .. n : next'[list[j]] = IF j < n THEN list[j + 1] ELSE EOF
  <2> SUFFICES ASSUME k = n, NEW j \in 1 .. n
               PROVE  next'[list[j]] = IF j < n THEN list[j + 1] ELSE EOF
    OBVIOUS
  <2>1. j \in 1 .. k /\ list[j] \in Clusters
    BY <1>3
  <2> QED BY <1>2, <1>6a, <2>1 DEF LinkedTo
<1>8. /\ own \in [Clusters -> Owners] /\ pos \in [Clusters -> Nat] /\ Injective(own, pos)
      /\ Marked(own)' /\ GrowShape(own, pos, t)
  BY <1>1 DEF Shape, Marked, JobShape
<1>9. JobShape(own, pos, t)'
  <2>1. GrowShape(own, pos, t)'
    BY <1>1, <1>2, <1>5, <1>7, <1>8 DEF GrowShape
  <2> QED BY <1>5, <2>1 DEF JobShape
<1>10. CurShape(own, pos, t)'
  <2>1. CurShape(own, pos, t)
    BY DEF Shape
  <2> QED BY <1>1, <1>5, <2>1 DEF CurShape, Truncating
<1>11. \A i \in Indices : FileKept(i)
  BY <1>1, <1>5, FilesKept DEF locks
<1>12. Frugal /\ Tight(own) => Tight(own)'
  BY <1>1 DEF Tight
<1>13. \A c \in Clusters : next'[c] = next[c] \/ own[c] \in Mine(t, {})
  BY <1>6 DEF Mine
<1>14. Alone(t, {})
  BY DEF Alone
<1> QED BY <1>1, <1>5, <1>8, <1>9, <1>10, <1>11, <1>12, <1>13, <1>14, StepShape

\* Hooking a list of clusters behind the last cluster of a file.
LEMMA HookWritten ==
  ASSUME IInv, IInv', NEW t \in Threads, NEW own, NEW pos, Shape(own, pos),
         pc[t] = "hook", UNCHANGED <<bft, bitmap, oft, locks, handle, job>>,
         next' = [next EXCEPT ![job[t].cur] =
                    IF job[t].list = <<>> THEN EOF ELSE Head(job[t].list)],
         GoTo(t, "commit")
  PROVE  Goes(own)
<1>0. PICK h, cur, list, n, e : /\ h = handle[t] /\ cur = job[t].cur /\ list = job[t].list
                                /\ n = Len(list) /\ e = Ext(job[t].size)
  OBVIOUS
<1>1. /\ pc'[t] = "commit" /\ \A u \in Threads \ {t} : pc'[u] = pc[u]
      /\ InFile(t) /\ Growing(t) /\ ~Growing(t)' /\ ~Unlinking(t)'
  BY GoToIs DEF InFile, AfterGetSize, Growing, Unlinking
<1>2. job[t].kind \in Kinds \ {"read"} /\ h \in Indices /\ writer[h] = t /\ Alone(t, {h}) /\ t # None
  BY <1>0, <1>1, WriterAlone, LevelAssumption DEF IInv, Rest, KindOK, KindAt
<1>3. /\ own[cur] = File(h) /\ job[t].size < job[t].arg /\ pos[cur] + 1 = e
      /\ n = NewClusters(job[t].size, job[t].arg)
  BY <1>0 DEF Shape, CurShape
<1>4. /\ n \in Nat /\ e \in Nat /\ cur \in Clusters
      /\ Ext(job[t].arg) = e + n
      /\ \A k \in 1 .. n : list[k] \in Clusters
      /\ list = <<>> <=> n = 0
      /\ n # 0 => Head(list) = list[1]
  <2>1. /\ job[t].arg \in Nat /\ job[t].size \in Nat /\ cur \in Clusters
        /\ list \in Seq(Clusters) /\ n = Len(list)
    BY <1>0, JobAt
  <2>2. e \in Nat
    BY <1>0, <2>1, ExtOf
  <2>3. n \in Nat /\ Ext(job[t].arg) = e + n
    BY <1>0, <1>3, <2>1, ExtGrows
  <2>4. (\A k \in 1 .. n : list[k] \in Clusters) /\ (list = <<>> <=> n = 0)
    BY <2>1
  <2>5. n # 0 => Head(list) = list[1]
    BY <2>1
  <2> QED BY <2>1, <2>2, <2>3, <2>4, <2>5
<1>5. /\ own \in [Clusters -> Owners] /\ pos \in [Clusters -> Nat] /\ Injective(own, pos)
      /\ Marked(own) /\ GrowShape(own, pos, t) /\ FileShape(own, pos, h)
      /\ next \in [Clusters -> Links]
  BY <1>1, <1>2 DEF Shape, JobShape, IInv, TypeOK
<1>6. ASSUME NEW c \in Clusters, own[c] = Job(t)
      PROVE  pos[c] \in 1 .. n /\ list[pos[c]] = c
  <2>1. pos[c] \in 1 .. n
    BY <1>0, <1>5, <1>6 DEF GrowShape
  <2>2. own[list[pos[c]]] = Job(t) /\ pos[list[pos[c]]] = pos[c] /\ list[pos[c]] \in Clusters
    BY <1>0, <1>4, <1>5, <2>1 DEF GrowShape
  <2> QED BY <1>5, <1>6, <2>1, <2>2, OwnersDiffer DEF Injective
<1>7. \A k \in 1 .. n : /\ own[list[k]] = Job(t) /\ pos[list[k]] = k
                        /\ next[list[k]] = IF k < n THEN list[k + 1] ELSE EOF
  BY <1>0, <1>5 DEF GrowShape
<1>8. /\ bft[h].name # NoName /\ bft[h].first \in Clusters /\ Extent(h) = e /\ ~Cutting(h)
      /\ own[bft[h].first] = File(h) /\ pos[bft[h].first] = 0
  <2>1. bft[h].name # NoName /\ Extent(h) = e /\ ~Cutting(h)
    BY <1>0, <1>1, InsideFile
  <2> QED BY <1>2, <1>5, <2>1 DEF FileShape, IInv, TypeOK, Entries
<1>9. ASSUME NEW c \in Clusters, own[c] = File(h)
      PROVE  /\ pos[c] < e
             /\ pos[c] + 1 < e => /\ next[c] \in Clusters /\ own[next[c]] = File(h)
                                  /\ pos[next[c]] = pos[c] + 1
  BY <1>5, <1>8, <1>9 DEF FileShape
<1>10. Extent(h)' = e + n /\ ~Cutting(h)'
  <2>1. ChainSize(h)' = NewSize(t)' /\ ~Cutting(h)'
    BY <1>1, <1>2 DEF ChainSize, Cutting, locks, NewSize
  <2>2. NewSize(t)' = job[t].arg
    BY <1>3, JobAt DEF NewSize, Greater
  <2>3. Ext(NewSize(t)') = e + n
    BY <1>4, <2>2
  <2> QED BY <2>1, <2>3 DEF Extent, Ext, Required
<1>11. /\ \A c \in Clusters : c # cur => next'[c] = next[c]
       /\ next'[cur] = IF n = 0 THEN EOF ELSE list[1]
  BY <1>0, <1>4, <1>5
<1>12. PICK own2 : own2 = [c \in Clusters |-> IF own[c] = Job(t) THEN File(h) ELSE own[c]]
  OBVIOUS
<1>13. PICK pos2 : pos2 = [c \in Clusters |-> IF own[c] = Job(t) THEN pos[cur] + pos[c] ELSE pos[c]]
  OBVIOUS
<1>14. \A c \in Clusters :
         /\ own[c] = Job(t) => own2[c] = File(h) /\ pos2[c] = pos[cur] + pos[c]
         /\ own[c] # Job(t) => own2[c] = own[c] /\ pos2[c] = pos[c]
  BY <1>12, <1>13
<1>15. own2 \in [Clusters -> Owners] /\ pos2 \in [Clusters -> Nat]
  BY <1>2, <1>4, <1>5, <1>12, <1>13 DEF Owners
<1>16. Injective(own2, pos2)
  <2> SUFFICES ASSUME NEW c \in Clusters, NEW d \in Clusters, own2[c] = own2[d],
                      own2[c] # Nobody, pos2[c] = pos2[d]
               PROVE  c = d
    BY DEF Injective
  <2>0. pos[c] \in Nat /\ pos[d] \in Nat /\ pos[cur] \in Nat
    BY <1>4, <1>5
  <2>1. CASE own[c] = Job(t) /\ own[d] = Job(t)
    BY <1>5, <1>14, <2>0, <2>1, OwnersDiffer DEF Injective
  <2>2. CASE own[c] # Job(t) /\ own[d] # Job(t)
    BY <1>5, <1>14, <2>2 DEF Injective
  <2>3. CASE own[c] = Job(t) /\ own[d] # Job(t)
    BY <1>3, <1>4, <1>6, <1>9, <1>14, <2>0, <2>3
  <2>4. CASE own[c] # Job(t) /\ own[d] = Job(t)
    BY <1>3, <1>4, <1>6, <1>9, <1>14, <2>0, <2>4
  <2> QED BY <2>1, <2>2, <2>3, <2>4
<1>17. FileShape(own2, pos2, h)'
  <2>1. own2[bft[h].first] = File(h) /\ pos2[bft[h].first] = 0
    BY <1>8, <1>14, OwnersDiffer
  <2>2. ASSUME NEW c \in Clusters, own2[c] = File(h)
        PROVE  /\ pos2[c] < e + n
               /\ pos2[c] + 1 < e + n =>
                    next'[c] \in Clusters /\ own2[next'[c]] = File(h) /\ pos2[next'[c]] = pos2[c] + 1
               /\ pos2[c] + 1 = e + n => next'[c] = EOF
    <3>0. pos[c] \in Nat /\ pos[cur] \in Nat /\ pos[cur] = e - 1
      BY <1>3, <1>4, <1>5
    <3>1. CASE own[c] = Job(t)
      <4>1. pos[c] \in 1 .. n /\ list[pos[c]] = c /\ pos2[c] = pos[cur] + pos[c]
        BY <1>6, <1>14, <3>1
      <4>2. next'[c] = IF pos[c] < n THEN list[pos[c] + 1] ELSE EOF
        BY <1>3, <1>7, <1>11, <3>1, <4>1, OwnersDiffer
      <4>3. pos[c] < n => /\ list[pos[c] + 1] \in Clusters /\ own[list[pos[c] + 1]] = Job(t)
                          /\ pos[list[pos[c] + 1]] = pos[c] + 1
        <5> SUFFICES ASSUME pos[c] < n, NEW k, k = pos[c] + 1
                     PROVE  list[k] \in Clusters /\ own[list[k]] = Job(t) /\ pos[list[k]] = k
          OBVIOUS
        <5>1. k \in 1 .. n
          BY <1>4, <4>1
        <5> QED BY <1>4, <1>7, <5>1
      <4>4. pos[c] < n => /\ next'[c] \in Clusters /\ own2[next'[c]] = File(h)
                          /\ pos2[next'[c]] = pos[cur] + (pos[c] + 1)
        BY <1>14, <4>2, <4>3
      <4> QED BY <1>4, <3>0, <4>1, <4>2, <4>4
    <3>2. CASE own[c] # Job(t) /\ pos[c] + 1 < e
      <4>1. own[c] = File(h) /\ pos2[c] = pos[c] /\ c # cur
        BY <1>3, <1>4, <1>14, <2>2, <3>0, <3>2
      <4>2. next'[c] = next[c]
        BY <1>11, <4>1
      <4>3. next[c] \in Clusters /\ own[next[c]] = File(h) /\ pos[next[c]] = pos[c] + 1
        BY <1>9, <3>2, <4>1
      <4>4. own2[next[c]] = File(h) /\ pos2[next[c]] = pos[c] + 1
        BY <1>14, <4>3, OwnersDiffer
      <4> QED BY <1>4, <3>0, <3>2, <4>1, <4>2, <4>3, <4>4
    <3>3. CASE own[c] # Job(t) /\ ~(pos[c] + 1 < e)
      <4>1. own[c] = File(h) /\ pos2[c] = pos[c] /\ pos[c] < e
        BY <1>9, <1>14, <2>2, <3>3
      <4>2. c = cur
        BY <1>3, <1>4, <1>5, <3>0, <3>3, <4>1, OwnersDiffer DEF Injective
      <4>3. CASE n = 0
        BY <1>4, <1>11, <3>0, <4>1, <4>2, <4>3
      <4>4. CASE n # 0
        <5>1. 1 \in 1 .. n
          BY <1>4, <4>4
        <5>2. next'[c] = list[1] /\ list[1] \in Clusters /\ own[list[1]] = Job(t) /\ pos[list[1]] = 1
          BY <1>4, <1>7, <1>11, <4>2, <4>4, <5>1
        <5>3. own2[list[1]] = File(h) /\ pos2[list[1]] = pos[cur] + 1
          BY <1>14, <5>2
        <5> QED BY <1>4, <3>0, <4>1, <4>2, <4>4, <5>2, <5>3
      <4> QED BY <4>3, <4>4
    <3> QED BY <3>1, <3>2, <3>3
  <2>3. pos2[bft[h].first] = 0 /\ bft' = bft
    BY <2>1
  <2> QED BY <1>8, <1>10, <2>1, <2>2, <2>3 DEF FileShape
<1>18. Marked(own2)'
  BY <1>5, <1>14, OwnersDiffer DEF Marked
<1>19. JobShape(own2, pos2, t)' /\ CurShape(own2, pos2, t)'
  <2>1. \A c \in Clusters : own2[c] # Job(t)
    BY <1>14, OwnersDiffer
  <2> QED BY <1>1, <2>1, CurTrivial DEF JobShape
<1>20. \A i \in Indices \ {h} : FileKept(i)
  <2>1. \A i \in Indices \ {h} : writer[i] # t
    BY <1>0, <1>2 DEF IInv, Rest, LockHeld
  <2> QED BY <1>1, <2>1, FilesKept DEF locks
<1>21. \A c \in Clusters :
         \/ own2[c] = own[c] /\ pos2[c] = pos[c] /\ next'[c] = next[c]
         \/ own[c] \in Mine(t, {h}) /\ own2[c] \in Mine(t, {h})
  <2> SUFFICES ASSUME NEW c \in Clusters
               PROVE  \/ own2[c] = own[c] /\ pos2[c] = pos[c] /\ next'[c] = next[c]
                      \/ own[c] \in Mine(t, {h}) /\ own2[c] \in Mine(t, {h})
    OBVIOUS
  <2>1. Job(t) \in Mine(t, {h}) /\ File(h) \in Mine(t, {h})
    BY DEF Mine
  <2>2. CASE own[c] = Job(t)
    BY <1>14, <2>1, <2>2
  <2>3. CASE own[c] # Job(t) /\ c = cur
    BY <1>3, <1>14, <2>1, <2>3
  <2>4. CASE own[c] # Job(t) /\ c # cur
    BY <1>11, <1>14, <2>4
  <2> QED BY <2>2, <2>3, <2>4
<1>22. Frugal /\ Tight(own) => Tight(own2)'
  <2>1. bitmap \subseteq Clusters
    BY DEF IInv, TypeOK
  <2> QED BY <1>14, <2>1, OwnersDiffer DEF Tight
<1>23. {h} \in SUBSET Indices /\ \A i \in {h} : FileShape(own2, pos2, i)'
  BY <1>2, <1>17
<1>24. \A u \in Threads \ {t} : pc'[u] = pc[u] /\ job'[u] = job[u] /\ handle'[u] = handle[u]
  BY <1>1
<1>25. Alone(t, {h})
  BY <1>2
<1> QED BY <1>15, <1>16, <1>18, <1>19, <1>20, <1>21, <1>22, <1>23, <1>24, <1>25, StepShape

\* Writing the link hands the new clusters to the file.
LEMMA HookGoes ==
  ASSUME IInv, IInv', NEW t \in Threads, NEW own, NEW pos, Shape(own, pos), Hook(t)
  PROVE  Goes(own)
<1>1. /\ pc[t] = "hook" /\ UNCHANGED <<bft, bitmap, oft, locks, handle, job>>
      /\ Growing(t) /\ ~Unlinking(t)
  BY DEF Hook, Growing, Unlinking
<1>2. CASE /\ next' = [next EXCEPT ![job[t].cur] =
                         IF job[t].list = <<>> THEN EOF ELSE Head(job[t].list)]
           /\ GoTo(t, "commit")
  BY <1>1, <1>2, HookWritten
<1>3. CASE GoTo(t, "undo") /\ UNCHANGED next
  <2>1. /\ pc'[t] = "undo" /\ \A u \in Threads \ {t} : pc'[u] = pc[u]
        /\ Growing(t)' /\ ~Unlinking(t)'
    BY <1>3, GoToIs DEF Growing, Unlinking
  <2>2. /\ own \in [Clusters -> Owners] /\ pos \in [Clusters -> Nat] /\ Injective(own, pos)
        /\ Marked(own)' /\ GrowShape(own, pos, t)
    BY <1>1 DEF Shape, Marked, JobShape
  <2>3. JobShape(own, pos, t)' /\ CurShape(own, pos, t)'
    BY <1>1, <2>1, <2>2, CurTrivial DEF JobShape, GrowShape
  <2>4. \A i \in Indices : FileKept(i)
    BY <1>1, <2>1, FilesKept DEF locks
  <2>5. Alone(t, {})
    BY DEF Alone
  <2>6. Frugal /\ Tight(own) => Tight(own)'
    BY <1>1 DEF Tight
  <2> QED BY <1>1, <1>3, <2>1, <2>2, <2>3, <2>4, <2>5, <2>6, StepShape
<1> QED BY <1>2, <1>3 DEF Hook

\* The entry's size catches up with the chain.
LEMMA CommitGoes ==
  ASSUME IInv, IInv', NEW t \in Threads, NEW own, NEW pos, Shape(own, pos), Commit(t)
  PROVE  Goes(own)
<1>0. PICK h : h = handle[t]
  OBVIOUS
<1>1. /\ pc[t] = "commit" /\ Finish(t) /\ UNCHANGED <<bitmap, next, oft, handle>>
      /\ bft' = [bft EXCEPT ![h].size = NewSize(t)]
      /\ InFile(t) /\ ~Growing(t) /\ ~Unlinking(t)
  BY <1>0 DEF Commit, InFile, AfterGetSize, Growing, Unlinking
<1>2. job[t].kind # "read" /\ h \in Indices /\ writer[h] = t /\ Alone(t, {h}) /\ t # None
  BY <1>0, <1>1, WriterAlone, LevelAssumption DEF IInv, Rest, KindOK, KindAt
<1>3. /\ pc'[t] = "idle" /\ \A u \in Threads \ {t} : pc'[u] = pc[u] /\ job'[u] = job[u]
      /\ writer' = [k \in Indices |-> IF writer[k] = t THEN None ELSE writer[k]]
  BY <1>1, FinishIs
<1>4. /\ bft'[h].first = bft[h].first /\ bft'[h].name = bft[h].name /\ bft'[h].size = NewSize(t)
      /\ \A i \in Indices \ {h} : bft'[i] = bft[i]
  BY <1>1, <1>2 DEF IInv, TypeOK, Entries
<1>5. \A i \in Indices \ {h} : FileKept(i)
  <2>1. \A i \in Indices \ {h} : writer[i] # t
    BY <1>0, <1>2 DEF IInv, Rest, LockHeld
  <2> QED BY <1>3, <1>4, <2>1, FilesKept
<1>6. FileShape(own, pos, h)'
  <2>1. FileShape(own, pos, h)
    BY <1>2 DEF Shape
  <2>2. ChainSize(h) = NewSize(t) /\ ~Cutting(h)
    BY <1>1, <1>2, ChainSizeIs
  <2>3. writer'[h] = None
    BY <1>2, <1>3
  <2>4. ChainSize(h)' = NewSize(t) /\ ~Cutting(h)'
    BY <1>4, <2>3, LevelAssumption DEF ChainSize, Cutting
  <2>5. Extent(h)' = Extent(h)
    BY <2>2, <2>4 DEF Extent, Required
  <2> QED BY <1>1, <1>4, <2>1, <2>2, <2>4, <2>5 DEF FileShape
<1>7. CurShape(own, pos, t)' /\ ~Growing(t)' /\ ~Unlinking(t)'
  BY <1>3, CurTrivial DEF Growing, Unlinking
<1>8. {h} \in SUBSET Indices /\ \A i \in {h} : FileShape(own, pos, i)'
  BY <1>2, <1>6
<1> QED BY <1>1, <1>2, <1>3, <1>5, <1>7, <1>8, QuietStep

----------------------------------------------------------------------------
(* Freeing a chain.                                                        *)

\* Truncate collects the next cluster of its file.
LEMMA CollectTail ==
  ASSUME IInv, NEW t \in Threads, NEW own, NEW pos, Shape(own, pos),
         pc[t] = "collect", job[t].kind = "ftruncate", job[t].at \in Clusters,
         UNCHANGED <<bft, next, handle, pc>>,
         job'[t].arg = job[t].arg, job'[t].size = job[t].size, job'[t].cur = job[t].cur,
         job'[t].kind = job[t].kind, job'[t].at = next[job[t].at],
         job'[t].list = Append(job[t].list, job[t].at)
  PROVE  CurShape(own, pos, t)'
<1>0. PICK h, cur, list, at, n : /\ h = handle[t] /\ cur = job[t].cur /\ list = job[t].list
                                 /\ at = job[t].at /\ n = Len(list)
  OBVIOUS
<1>1. Truncating(t) /\ Truncating(t)' /\ InFile(t)
  BY DEF Truncating, InFile
<1>2. /\ TailShape(own, pos, t) /\ own[cur] = File(h) /\ pos[cur] + 1 = Ext(job[t].arg)
  BY <1>0, <1>1 DEF Shape, CurShape
<1>3. /\ list \in Seq(Clusters) /\ n \in Nat /\ cur \in Clusters /\ EOF \notin Clusters
      /\ pos \in [Clusters -> Nat]
  <2>1. list \in Seq(Clusters) /\ n \in Nat /\ cur \in Clusters
    BY <1>0, JobAt
  <2>2. EOF \notin Clusters
    BY LevelAssumption DEF Clusters
  <2>3. pos \in [Clusters -> Nat]
    BY DEF Shape
  <2> QED BY <2>1, <2>2, <2>3
<1>4. at \in Clusters /\ own[at] = File(h) /\ pos[at] = pos[cur] + n + 1
  BY <1>0, <1>2, <1>3 DEF TailShape
<1>5. /\ Len(Append(list, at)) = n + 1
      /\ \A k \in 1 .. n : Append(list, at)[k] = list[k]
      /\ Append(list, at)[n + 1] = at
  BY <1>0, <1>3, <1>4
<1>6. \A k \in 1 .. n : own[list[k]] = File(h) /\ pos[list[k]] = pos[cur] + k
  BY <1>0, <1>2 DEF TailShape
<1>7. ASSUME NEW k \in 1 .. n + 1
      PROVE  own[Append(list, at)[k]] = File(h) /\ pos[Append(list, at)[k]] = pos[cur] + k
  <2>1. CASE k = n + 1
    <3>1. Append(list, at)[k] = at
      BY <1>5, <2>1
    <3>2. pos[cur] + n + 1 = pos[cur] + k
      BY <1>3, <2>1
    <3> QED BY <1>4, <3>1, <3>2
  <2>2. CASE k # n + 1
    <3>1. k \in 1 .. n
      BY <1>3, <2>2
    <3> QED BY <1>5, <1>6, <3>1
  <2> QED BY <2>1, <2>2
<1>8. \/ next[at] = EOF /\ \A d \in Clusters : own[d] = File(h) => pos[d] <= pos[cur] + (n + 1)
      \/ /\ next[at] \in Clusters /\ own[next[at]] = File(h)
         /\ pos[next[at]] = pos[cur] + (n + 1) + 1
  <2>1. h \in Indices /\ bft[h].name # NoName /\ ~Cutting(h) /\ Extent(h) \in Nat
    BY <1>0, <1>1, InsideFile, ChainSizeType
  <2>2. FileShape(own, pos, h)
    BY <2>1 DEF Shape
  <2>3. \A d \in Clusters : own[d] = File(h) => pos[d] < Extent(h)
    BY <2>1, <2>2 DEF FileShape
  <2>4. pos[at] + 1 < Extent(h) => /\ next[at] \in Clusters /\ own[next[at]] = File(h)
                                   /\ pos[next[at]] = pos[at] + 1
    BY <1>4, <2>1, <2>2 DEF FileShape
  <2>5. pos[at] + 1 = Extent(h) => next[at] = EOF
    BY <1>4, <2>1, <2>2 DEF FileShape
  <2>6. CASE pos[at] + 1 < Extent(h)
    <3>1. pos[at] + 1 = pos[cur] + (n + 1) + 1
      BY <1>3, <1>4
    <3> QED BY <2>4, <2>6, <3>1
  <2>7. CASE pos[at] + 1 = Extent(h)
    <3>1. \A d \in Clusters : own[d] = File(h) => pos[d] <= pos[cur] + (n + 1)
      BY <1>3, <1>4, <2>3, <2>7
    <3> QED BY <2>5, <2>7, <3>1
  <2> QED BY <1>3, <1>4, <2>1, <2>3, <2>6, <2>7
<1>9. TailShape(own, pos, t)'
  <2>1. job[t].arg < job[t].size
    BY <1>2 DEF TailShape
  <2>2. PICK list2, at2 : list2 = Append(list, at) /\ at2 = next[at]
    OBVIOUS
  <2>3. /\ job'[t].list = list2 /\ job'[t].at = at2 /\ job'[t].cur = cur /\ handle'[t] = h
        /\ job'[t].arg < job'[t].size /\ pc'[t] # "free"
    BY <1>0, <2>1, <2>2
  <2>4. /\ Len(list2) = n + 1
        /\ \A k \in 1 .. Len(list2) : own[list2[k]] = File(h) /\ pos[list2[k]] = pos[cur] + k
    BY <1>5, <1>7, <2>2
  <2>5. \/ at2 = EOF /\ \A d \in Clusters : own[d] = File(h) => pos[d] <= pos[cur] + Len(list2)
        \/ /\ at2 \in Clusters /\ own[at2] = File(h)
           /\ pos[at2] = pos[cur] + Len(list2) + 1
    BY <1>8, <2>2, <2>4
  <2> QED BY <2>3, <2>4, <2>5 DEF TailShape
<1> QED BY <1>0, <1>1, <1>2, <1>9 DEF CurShape

\* Unlink collects the next cluster of what was a file.
LEMMA CollectUnlinked ==
  ASSUME IInv, NEW t \in Threads, NEW own, NEW pos, Shape(own, pos),
         pc[t] = "collect", job[t].kind = "unlink", job[t].at \in Clusters,
         UNCHANGED <<next, pc>>,
         job'[t].kind = job[t].kind, job'[t].at = next[job[t].at],
         job'[t].list = Append(job[t].list, job[t].at)
  PROVE  UnlinkShape(own, pos, t)'
<1>0. PICK list, at, n : list = job[t].list /\ at = job[t].at /\ n = Len(list)
  OBVIOUS
<1>1. UnlinkShape(own, pos, t)
  BY DEF Shape, JobShape, Unlinking
<1>3. /\ list \in Seq(Clusters) /\ n \in Nat /\ EOF \notin Clusters /\ pos \in [Clusters -> Nat]
  BY <1>0, JobAt, LevelAssumption DEF Shape, Clusters
<1>4. at \in Clusters /\ own[at] = Job(t) /\ pos[at] = n
  BY <1>0, <1>1, <1>3 DEF UnlinkShape
<1>5. /\ Len(Append(list, at)) = n + 1
      /\ \A k \in 1 .. n : Append(list, at)[k] = list[k]
      /\ Append(list, at)[n + 1] = at
  BY <1>0, <1>3, <1>4
<1>6. \A k \in 1 .. n : own[list[k]] = Job(t) /\ pos[list[k]] + 1 = k
  BY <1>0, <1>1 DEF UnlinkShape
<1>7. ASSUME NEW k \in 1 .. n + 1
      PROVE  own[Append(list, at)[k]] = Job(t) /\ pos[Append(list, at)[k]] + 1 = k
  <2>1. CASE k = n + 1
    BY <1>3, <1>4, <1>5, <2>1
  <2>2. CASE k # n + 1
    <3>1. k \in 1 .. n
      BY <1>3, <2>2
    <3> QED BY <1>5, <1>6, <3>1
  <2> QED BY <2>1, <2>2
<1>8. \/ next[at] = EOF /\ \A d \in Clusters : own[d] = Job(t) => pos[d] < n + 1
      \/ next[at] \in Clusters /\ own[next[at]] = Job(t) /\ pos[next[at]] = n + 1
  <2>1. \/ next[at] = EOF /\ \A d \in Clusters : own[d] = Job(t) => pos[d] <= pos[at]
        \/ next[at] \in Clusters /\ own[next[at]] = Job(t) /\ pos[next[at]] = pos[at] + 1
    BY <1>1, <1>4 DEF UnlinkShape
  <2> QED BY <1>3, <1>4, <2>1
<1>9. PICK list2, at2 : list2 = Append(list, at) /\ at2 = next[at]
  OBVIOUS
<1>10. job'[t].list = list2 /\ job'[t].at = at2 /\ pc'[t] # "free" /\ next' = next
  BY <1>0, <1>9
<1>11. /\ Len(list2) = n + 1
       /\ \A k \in 1 .. Len(list2) : own[list2[k]] = Job(t) /\ pos[list2[k]] + 1 = k
  BY <1>5, <1>7, <1>9
<1>12. \/ at2 = EOF /\ \A d \in Clusters : own[d] = Job(t) => pos[d] < Len(list2)
       \/ at2 \in Clusters /\ own[at2] = Job(t) /\ pos[at2] = Len(list2)
  BY <1>8, <1>9, <1>11
<1>13. \A c \in Clusters : own[c] = Job(t) =>
         /\ pos[c] < ClusterCount
         /\ \/ next[c] = EOF /\ \A d \in Clusters : own[d] = Job(t) => pos[d] <= pos[c]
            \/ next[c] \in Clusters /\ own[next[c]] = Job(t) /\ pos[next[c]] = pos[c] + 1
  BY <1>1 DEF UnlinkShape
<1> QED BY <1>10, <1>11, <1>12, <1>13 DEF UnlinkShape

\* The clusters of a file that is no more stay the operation's.
LEMMA UnlinkedMoves ==
  ASSUME IInv, IInv', NEW t \in Threads, NEW own, NEW pos, Shape(own, pos),
         UNCHANGED <<table, oft, locks, handle>>,
         \A u \in Threads \ {t} : pc'[u] = pc[u] /\ job'[u] = job[u],
         Unlinking(t), Unlinking(t)', UnlinkShape(own, pos, t)'
  PROVE  Goes(own)
<1>1. /\ own \in [Clusters -> Owners] /\ pos \in [Clusters -> Nat] /\ Injective(own, pos)
      /\ Marked(own)'
  BY DEF Shape, Marked, table
<1>2. JobShape(own, pos, t)' /\ CurShape(own, pos, t)'
  BY CurTrivial DEF JobShape, Unlinking, Growing
<1>3. pc[t] \notin {"cut", "commit"} /\ pc'[t] \notin {"cut", "commit"}
  BY DEF Unlinking
<1>4. \A i \in Indices : FileKept(i)
  BY <1>3, FilesKept DEF table, locks
<1>5. Alone(t, {})
  BY DEF Alone
<1>6. Frugal /\ Tight(own) => Tight(own)'
  BY DEF Tight, table
<1> QED BY <1>1, <1>2, <1>4, <1>5, <1>6, StepShape DEF table

\* get_cluster_chain collects clusters of one owner only.
LEMMA CollectGoes ==
  ASSUME IInv, IInv', NEW t \in Threads, NEW own, NEW pos, Shape(own, pos), Collect(t)
  PROVE  Goes(own)
<1>1. /\ pc[t] = "collect" /\ UNCHANGED <<table, oft, handle>> /\ ~Growing(t)
      /\ job \in [Threads -> Jobs] /\ pc \in [Threads -> PCs]
  BY DEF Collect, Growing, IInv, TypeOK
<1>2. job[t].kind \in {"unlink", "ftruncate"} /\ EOF \notin Clusters
  BY <1>1, LevelAssumption DEF IInv, Rest, KindOK, KindAt, Clusters
<1>3. CASE job[t].at = EOF /\ GoTo(t, "free") /\ UNCHANGED <<locks, job>>
  <2>1. pc'[t] = "free" /\ \A u \in Threads \ {t} : pc'[u] = pc[u] /\ job'[u] = job[u]
    BY <1>3, GoToIs
  <2>2. CASE job[t].kind = "unlink"
    <3>1. Unlinking(t) /\ Unlinking(t)'
      BY <1>1, <1>3, <2>1, <2>2 DEF Unlinking
    <3>2. UnlinkShape(own, pos, t)
      BY <3>1 DEF Shape, JobShape
    <3>3. UnlinkShape(own, pos, t)'
      BY <1>1, <1>3, <3>2 DEF UnlinkShape, table
    <3> QED BY <1>1, <1>3, <2>1, <3>1, <3>3, UnlinkedMoves
  <2>3. CASE job[t].kind = "ftruncate"
    <3>1. ~Unlinking(t) /\ ~Unlinking(t)' /\ ~Growing(t)'
      BY <1>3, <2>1, <2>3 DEF Unlinking, Growing
    <3>2. Truncating(t) /\ Truncating(t)' /\ CurShape(own, pos, t)
      BY <1>1, <1>3, <2>1, <2>3 DEF Truncating, Shape
    <3>3. TailShape(own, pos, t)'
      BY <1>1, <1>3, <3>2 DEF CurShape, TailShape
    <3>4. CurShape(own, pos, t)'
      BY <1>1, <1>3, <2>1, <3>2, <3>3 DEF CurShape
    <3> QED BY <1>1, <1>3, <2>1, <3>1, <3>4, MoveGoes DEF table, locks
  <2> QED BY <1>2, <2>2, <2>3
<1>4. CASE /\ job[t].at \in Clusters
           /\ job' = [job EXCEPT ![t].at = next[job[t].at], ![t].list = Append(@, job[t].at)]
           /\ UNCHANGED <<locks, pc>>
  <2>1. /\ \A u \in Threads \ {t} : job'[u] = job[u]
        /\ job'[t].arg = job[t].arg /\ job'[t].size = job[t].size /\ job'[t].cur = job[t].cur
        /\ job'[t].kind = job[t].kind /\ job'[t].at = next[job[t].at]
        /\ job'[t].list = Append(job[t].list, job[t].at)
    BY <1>1, <1>4 DEF Jobs
  <2>2. CASE job[t].kind = "unlink"
    <3>1. UnlinkShape(own, pos, t)'
      BY <1>1, <1>4, <2>1, <2>2, CollectUnlinked DEF table
    <3>2. Unlinking(t) /\ Unlinking(t)'
      BY <1>1, <1>4, <2>1, <2>2 DEF Unlinking
    <3> QED BY <1>1, <1>4, <2>1, <3>1, <3>2, UnlinkedMoves
  <2>3. CASE job[t].kind = "ftruncate"
    <3>1. ~Unlinking(t) /\ ~Unlinking(t)' /\ ~Growing(t)'
      BY <1>1, <1>4, <2>1, <2>3 DEF Unlinking, Growing
    <3>2. CurShape(own, pos, t)'
      BY <1>1, <1>4, <2>1, <2>3, CollectTail DEF table
    <3> QED BY <1>1, <1>4, <2>1, <3>1, <3>2, MoveGoes DEF table, locks
  <2> QED BY <1>2, <2>2, <2>3
<1>5. CASE job[t].at # EOF /\ (job[t].at \notin Clusters \/ "read" \in Faults) /\ Finish(t)
  <2>1. CASE job[t].kind = "unlink"
    <3>1. UnlinkShape(own, pos, t)
      BY <1>1, <2>1 DEF Shape, JobShape, Unlinking
    <3>2. ~Frugal
      BY <1>5, <3>1 DEF UnlinkShape, Frugal
    <3>3. Marked(own)
      BY DEF Shape
    <3> QED BY <1>1, <1>5, <3>2, <3>3, JobFreed DEF Marked, table
  <2>2. CASE job[t].kind = "ftruncate"
    <3>1. ~Unlinking(t)
      BY <2>2 DEF Unlinking
    <3> QED BY <1>1, <1>5, <3>1, ReturnGoes DEF table
  <2> QED BY <1>2, <2>1, <2>2
<1> QED BY <1>3, <1>4, <1>5 DEF Collect

\* dealloc_clusters after unlink: all that the operation owns.
LEMMA FreeUnlinked ==
  ASSUME IInv, IInv', NEW t \in Threads, NEW own, NEW pos, Shape(own, pos),
         pc[t] = "free", job[t].kind = "unlink", UNCHANGED <<bft, next, handle>>,
         bitmap' = bitmap \ Elements(job[t].list), Finish(t)
  PROVE  Goes(own)
<1>1. UnlinkShape(own, pos, t) /\ Injective(own, pos) /\ Marked(own) /\ pos \in [Clusters -> Nat]
  BY DEF Shape, JobShape, Unlinking
<1>2. \A k \in 1 .. Len(job[t].list) : /\ own[job[t].list[k]] = Job(t)
                                       /\ pos[job[t].list[k]] + 1 = k
                                       /\ job[t].list[k] \in Clusters
  BY <1>1, JobAt DEF UnlinkShape
<1>3. Elements(job[t].list) = {job[t].list[k] : k \in 1 .. Len(job[t].list)}
  BY JobAt DEF Elements
<1>4. ASSUME NEW c \in Clusters, own[c] = Job(t) PROVE c \in Elements(job[t].list)
  <2>1. EOF \notin Clusters
    BY LevelAssumption DEF Clusters
  <2>2. pos[c] < Len(job[t].list) /\ pos[c] \in Nat /\ Len(job[t].list) \in Nat
    BY <1>1, <1>4, <2>1, JobAt DEF UnlinkShape
  <2>3. PICK k \in 1 .. Len(job[t].list) : k = pos[c] + 1
    BY <2>2
  <2>4. PICK d \in Clusters : d = job[t].list[k] /\ own[d] = Job(t) /\ pos[d] + 1 = k
    BY <1>2
  <2>5. pos[d] = pos[c]
    BY <1>1, <2>2, <2>3, <2>4
  <2> QED BY <1>1, <1>3, <1>4, <2>4, <2>5, OwnersDiffer DEF Injective
<1>5. \A c \in Elements(job[t].list) : own[c] = Job(t)
  BY <1>2, <1>3
<1>6. \A c \in bitmap' : own[c] # Job(t)
  <2>1. bitmap \subseteq Clusters
    BY DEF IInv, TypeOK
  <2> QED BY <1>4, <2>1
<1>7. \A c \in Clusters : own[c] \notin {Nobody, Job(t)} => c \in bitmap'
  BY <1>1, <1>5 DEF Marked
<1> QED BY <1>6, <1>7, JobFreed

\* dealloc_clusters in truncate: the places behind the last cluster kept.
LEMMA FreeTail ==
  ASSUME IInv, IInv', NEW t \in Threads, NEW own, NEW pos, Shape(own, pos),
         pc[t] = "free", job[t].kind = "ftruncate", UNCHANGED <<bft, next, oft, handle, locks, job>>,
         bitmap' = bitmap \ Elements(job[t].list), GoTo(t, "cut")
  PROVE  Goes(own)
<1>0. PICK h, cur, list, n, e : /\ h = handle[t] /\ cur = job[t].cur /\ list = job[t].list
                                /\ n = Len(list) /\ e = Ext(job[t].arg)
  OBVIOUS
<1>1. /\ pc'[t] = "cut" /\ \A u \in Threads \ {t} : pc'[u] = pc[u]
      /\ InFile(t) /\ Truncating(t) /\ ~Growing(t) /\ ~Unlinking(t)
      /\ ~Growing(t)' /\ ~Unlinking(t)' /\ ~Truncating(t)'
  BY GoToIs DEF InFile, AfterGetSize, Growing, Unlinking, Truncating
<1>2. h \in Indices /\ writer[h] = t /\ Alone(t, {h}) /\ t # None
  BY <1>0, <1>1, WriterAlone, LevelAssumption
<1>3. /\ own \in [Clusters -> Owners] /\ pos \in [Clusters -> Nat] /\ Injective(own, pos)
      /\ Marked(own) /\ FileShape(own, pos, h) /\ CurShape(own, pos, t)
      /\ \A c \in Clusters : own[c] # Job(t)
  BY <1>1, <1>2 DEF Shape, JobShape
<1>4. /\ own[cur] = File(h) /\ pos[cur] + 1 = e /\ TailShape(own, pos, t)
  BY <1>0, <1>1, <1>3 DEF CurShape
<1>5. /\ n \in Nat /\ e \in Nat /\ cur \in Clusters /\ EOF \notin Clusters /\ e <= Ext(job[t].size)
      /\ \A k \in 1 .. n : list[k] \in Clusters
      /\ Elements(list) = {list[k] : k \in 1 .. n}
  <2>1. job[t].arg < job[t].size
    BY <1>4 DEF TailShape
  <2>2. EOF \notin Clusters
    BY LevelAssumption DEF Clusters
  <2>3. job[t].arg \in Nat /\ job[t].size \in Nat /\ job[t].arg <= job[t].size
    BY <2>1, JobAt
  <2>4. e \in Nat /\ e <= Ext(job[t].size)
    BY <1>0, <2>3, ExtOf, ExtMonotone
  <2>5. Elements(list) = {list[k] : k \in 1 .. n}
    BY <1>0, JobAt DEF Elements
  <2> QED BY <1>0, <2>2, <2>4, <2>5, JobAt
<1>6. \A k \in 1 .. n : own[list[k]] = File(h) /\ pos[list[k]] = pos[cur] + k
  BY <1>0, <1>4 DEF TailShape
<1>7. \A d \in Clusters : own[d] = File(h) => pos[d] <= pos[cur] + n
  BY <1>0, <1>4, <1>5 DEF TailShape
<1>8. ASSUME NEW c \in Clusters
      PROVE  c \in Elements(list) <=> own[c] = File(h) /\ pos[c] > pos[cur]
  <2>0. pos[c] \in Nat /\ pos[cur] \in Nat
    BY <1>3, <1>5
  <2>1. ASSUME c \in Elements(list) PROVE own[c] = File(h) /\ pos[c] > pos[cur]
    BY <1>5, <1>6, <2>0, <2>1
  <2>2. ASSUME own[c] = File(h), pos[c] > pos[cur] PROVE c \in Elements(list)
    <3>1. PICK k \in 1 .. n : pos[c] = pos[cur] + k
      <4>1. pos[c] - pos[cur] \in 1 .. n /\ pos[c] = pos[cur] + (pos[c] - pos[cur])
        BY <1>5, <1>7, <2>0, <2>2
      <4> QED BY <4>1
    <3>2. PICK d \in Clusters : d = list[k] /\ own[d] = File(h) /\ pos[d] = pos[cur] + k
      BY <1>5, <1>6
    <3> QED BY <1>3, <1>5, <2>2, <3>1, <3>2, OwnersDiffer DEF Injective
  <2> QED BY <2>1, <2>2
<1>9. /\ bft[h].name # NoName /\ bft[h].first \in Clusters /\ Extent(h) = Ext(job[t].size)
      /\ own[bft[h].first] = File(h) /\ pos[bft[h].first] = 0
  <2>1. bft[h].name # NoName /\ Extent(h) = Ext(job[t].size)
    BY <1>0, <1>1, InsideFile
  <2> QED BY <1>2, <1>3, <2>1 DEF FileShape, IInv, TypeOK, Entries
<1>10. Extent(h)' = e /\ Cutting(h)'
  <2>1. ChainSize(h)' = NewSize(t)' /\ Cutting(h)'
    BY <1>1, <1>2 DEF ChainSize, Cutting, locks, NewSize
  <2>2. NewSize(t)' = job[t].arg
    BY DEF NewSize
  <2>3. Ext(NewSize(t)') = e
    BY <1>0, <2>2
  <2> QED BY <2>1, <2>3 DEF Extent, Ext, Required
<1>11. PICK own2 : own2 = [c \in Clusters |-> IF c \in Elements(list) THEN Nobody ELSE own[c]]
  OBVIOUS
<1>12. \A c \in Clusters :
         /\ own2[c] = File(h) => own[c] = File(h) /\ pos[c] <= pos[cur]
         /\ own[c] = File(h) /\ pos[c] <= pos[cur] => own2[c] = File(h)
         /\ own[c] # File(h) => own2[c] = own[c]
         /\ own2[c] = own[c] \/ (own2[c] = Nobody /\ own[c] = File(h))
         /\ own2[c] # Nobody => c \notin Elements(list)
  <2> SUFFICES ASSUME NEW c \in Clusters
               PROVE  /\ own2[c] = File(h) => own[c] = File(h) /\ pos[c] <= pos[cur]
                      /\ own[c] = File(h) /\ pos[c] <= pos[cur] => own2[c] = File(h)
                      /\ own[c] # File(h) => own2[c] = own[c]
                      /\ own2[c] = own[c] \/ (own2[c] = Nobody /\ own[c] = File(h))
                      /\ own2[c] # Nobody => c \notin Elements(list)
    OBVIOUS
  <2>1. pos[c] \in Nat /\ pos[cur] \in Nat
    BY <1>3, <1>5
  <2>2. ~(pos[c] > pos[cur]) <=> pos[c] <= pos[cur]
    BY <2>1
  <2>3. CASE c \in Elements(list)
    BY <1>8, <1>11, <2>2, <2>3, OwnersDiffer
  <2>4. CASE c \notin Elements(list)
    BY <1>8, <1>11, <2>2, <2>4
  <2> QED BY <2>3, <2>4
<1>13. own2 \in [Clusters -> Owners]
  BY <1>3, <1>11 DEF Owners
<1>14. Injective(own2, pos)
  BY <1>3, <1>12 DEF Injective
<1>15. FileShape(own2, pos, h)'
  <2>1. own2[bft[h].first] = File(h)
    BY <1>3, <1>5, <1>9, <1>12
  <2>2. ASSUME NEW c \in Clusters, own2[c] = File(h)
        PROVE  /\ pos[c] < e
               /\ pos[c] + 1 < e =>
                    next[c] \in Clusters /\ own2[next[c]] = File(h) /\ pos[next[c]] = pos[c] + 1
    <3>1. own[c] = File(h) /\ pos[c] <= pos[cur] /\ pos[c] \in Nat /\ pos[cur] \in Nat
      BY <1>3, <1>5, <1>12, <2>2
    <3>2. pos[c] < e /\ Ext(job[t].size) \in Nat
      BY <1>4, <1>5, <3>1, JobAt, ExtOf
    <3>3. pos[c] + 1 < e => pos[c] + 1 < Ext(job[t].size)
      BY <1>5, <3>1, <3>2
    <3>4. pos[c] + 1 < Ext(job[t].size) =>
            next[c] \in Clusters /\ own[next[c]] = File(h) /\ pos[next[c]] = pos[c] + 1
      BY <1>3, <1>9, <3>1 DEF FileShape
    <3>5. pos[c] + 1 < e => pos[c] + 1 <= pos[cur]
      BY <1>4, <1>5, <3>1
    <3> QED BY <1>12, <3>2, <3>3, <3>4, <3>5
  <2> QED BY <1>9, <1>10, <2>1, <2>2 DEF FileShape
<1>16. Marked(own2)'
  BY <1>0, <1>3, <1>12 DEF Marked
<1>17. JobShape(own2, pos, t)'
  BY <1>1, <1>3, <1>12, OwnersDiffer DEF JobShape
<1>18. CurShape(own2, pos, t)'
  <2>1. own2[cur] = File(h)
    BY <1>3, <1>4, <1>5, <1>12
  <2> QED BY <1>0, <1>1, <1>4, <2>1 DEF CurShape
<1>19. \A i \in Indices \ {h} : FileKept(i)
  <2>1. \A i \in Indices \ {h} : writer[i] # t
    BY <1>0, <1>2 DEF IInv, Rest, LockHeld
  <2> QED BY <1>1, <2>1, FilesKept DEF locks
<1>20. \A c \in Clusters :
         \/ own2[c] = own[c] /\ next'[c] = next[c]
         \/ own[c] \in Mine(t, {h}) /\ own2[c] \in Mine(t, {h})
  BY <1>12 DEF Mine
<1>21. Frugal /\ Tight(own) => Tight(own2)'
  <2>1. bitmap \subseteq Clusters
    BY DEF IInv, TypeOK
  <2> QED BY <1>0, <1>11, <2>1 DEF Tight
<1>22. {h} \in SUBSET Indices /\ \A i \in {h} : FileShape(own2, pos, i)'
  BY <1>2, <1>15
<1>23. \A u \in Threads \ {t} : pc'[u] = pc[u] /\ job'[u] = job[u] /\ handle'[u] = handle[u]
  BY <1>1
<1>24. Alone(t, {h}) /\ pos \in [Clusters -> Nat]
  BY <1>2, <1>3
<1> QED BY <1>13, <1>14, <1>16, <1>17, <1>18, <1>19, <1>20, <1>21, <1>22, <1>23, <1>24, StepShape

\* dealloc_clusters frees what its caller owns.
LEMMA FreeChainGoes ==
  ASSUME IInv, IInv', NEW t \in Threads, NEW own, NEW pos, Shape(own, pos), FreeChain(t)
  PROVE  Goes(own)
<1>1. /\ pc[t] = "free" /\ bitmap' = bitmap \ Elements(job[t].list)
      /\ UNCHANGED <<bft, next, oft, handle>>
  BY DEF FreeChain
<1>2. job[t].kind \in {"unlink", "ftruncate"}
  BY <1>1 DEF IInv, Rest, KindOK, KindAt
<1>3. CASE job[t].kind = "unlink"
  BY <1>1, <1>3, FreeUnlinked DEF FreeChain
<1>4. CASE job[t].kind = "ftruncate"
  BY <1>1, <1>4, FreeTail DEF FreeChain
<1> QED BY <1>2, <1>3, <1>4

\* The end of the chain is where truncate has freed from.
LEMMA CutGoes ==
  ASSUME IInv, IInv', NEW t \in Threads, NEW own, NEW pos, Shape(own, pos), Cut(t),
         "cut" \notin Faults
  PROVE  Goes(own)
<1>0. PICK h, cur : h = handle[t] /\ cur = job[t].cur
  OBVIOUS
<1>1. /\ pc[t] = "cut" /\ UNCHANGED <<bft, bitmap, oft, handle, locks, job>>
      /\ next' = [next EXCEPT ![cur] = EOF] /\ GoTo(t, "commit")
  BY <1>0 DEF Cut
<1>2. /\ pc'[t] = "commit" /\ \A u \in Threads \ {t} : pc'[u] = pc[u]
      /\ InFile(t) /\ ~Growing(t) /\ ~Unlinking(t) /\ ~Growing(t)' /\ ~Unlinking(t)'
  BY <1>1, GoToIs DEF InFile, AfterGetSize, Growing, Unlinking
<1>3. job[t].kind # "read" /\ h \in Indices /\ writer[h] = t /\ Alone(t, {h}) /\ t # None
  BY <1>0, <1>1, <1>2, WriterAlone, LevelAssumption DEF IInv, Rest, KindOK, KindAt
<1>4. /\ own \in [Clusters -> Owners] /\ pos \in [Clusters -> Nat] /\ Injective(own, pos)
      /\ Marked(own)' /\ FileShape(own, pos, h) /\ CurShape(own, pos, t)
      /\ next \in [Clusters -> Links] /\ cur \in Clusters
  BY <1>0, <1>1, <1>3, JobAt DEF Shape, Marked, IInv, TypeOK
<1>5. own[cur] = File(h) /\ pos[cur] + 1 = Ext(job[t].arg) /\ job[t].kind = "ftruncate"
  BY <1>0, <1>1, <1>4 DEF CurShape
<1>6. NewSize(t) = job[t].arg /\ NewSize(t)' = job[t].arg
  BY <1>1, <1>5 DEF NewSize
<1>7. Extent(h) = Ext(job[t].arg)
  BY <1>1, <1>3, <1>6, ChainSizeIs DEF Extent, Ext
<1>8. Extent(h)' = Extent(h) /\ ~Cutting(h)'
  <2>1. ChainSize(h)' = NewSize(t)' /\ ~Cutting(h)'
    BY <1>1, <1>2, <1>3 DEF ChainSize, Cutting, locks, NewSize
  <2>2. Ext(NewSize(t)') = Ext(job[t].arg)
    BY <1>6
  <2> QED BY <1>7, <2>1, <2>2 DEF Extent, Ext, Required
<1>9. \A c \in Clusters : next'[c] = IF c = cur THEN EOF ELSE next[c]
  BY <1>1, <1>4
<1>10. bft[h].name # NoName /\ bft[h].first \in Clusters
  BY <1>0, <1>1, <1>2, <1>3, InsideFile DEF IInv, TypeOK, Entries
<1>11. FileShape(own, pos, h)'
  <2>1. own[bft[h].first] = File(h) /\ pos[bft[h].first] = 0
    BY <1>4, <1>10 DEF FileShape
  <2>2. ASSUME NEW c \in Clusters, own[c] = File(h)
        PROVE  /\ pos[c] < Extent(h)
               /\ pos[c] + 1 < Extent(h) =>
                    next'[c] \in Clusters /\ own[next'[c]] = File(h) /\ pos[next'[c]] = pos[c] + 1
               /\ pos[c] + 1 = Extent(h) => next'[c] = EOF
    <3>1. /\ pos[c] < Extent(h)
          /\ pos[c] + 1 < Extent(h) =>
               next[c] \in Clusters /\ own[next[c]] = File(h) /\ pos[next[c]] = pos[c] + 1
      BY <1>4, <1>10, <2>2 DEF FileShape
    <3>2. pos[c] \in Nat /\ pos[cur] \in Nat /\ Extent(h) \in Nat
      BY <1>3, <1>4, ChainSizeType
    <3>3. CASE c = cur
      BY <1>5, <1>7, <1>9, <3>1, <3>2, <3>3
    <3>4. CASE c # cur
      <4>1. pos[c] # pos[cur]
        BY <1>4, <1>5, <2>2, <3>4, OwnersDiffer DEF Injective
      <4> QED BY <1>5, <1>7, <1>9, <3>1, <3>2, <3>4, <4>1
    <3> QED BY <3>3, <3>4
  <2> QED BY <1>1, <1>8, <1>10, <2>1, <2>2 DEF FileShape
<1>12. JobShape(own, pos, t)' /\ CurShape(own, pos, t)'
  BY <1>2, CurTrivial DEF Shape, JobShape
<1>13. \A i \in Indices \ {h} : FileKept(i)
  <2>1. \A i \in Indices \ {h} : writer[i] # t
    BY <1>0, <1>3 DEF IInv, Rest, LockHeld
  <2> QED BY <1>1, <1>2, <2>1, FilesKept DEF locks
<1>14. \A c \in Clusters : next'[c] = next[c] \/ own[c] \in Mine(t, {h})
  BY <1>5, <1>9 DEF Mine
<1>15. Frugal /\ Tight(own) => Tight(own)'
  BY <1>1 DEF Tight
<1>16. {h} \in SUBSET Indices /\ \A i \in {h} : FileShape(own, pos, i)'
  BY <1>3, <1>11
<1>17. Alone(t, {h}) /\ \A u \in Threads \ {t} : /\ pc'[u] = pc[u] /\ job'[u] = job[u]
                                                 /\ handle'[u] = handle[u]
  BY <1>1, <1>2, <1>3
<1> QED BY <1>4, <1>12, <1>13, <1>14, <1>15, <1>16, <1>17, StepShape

\* The steps of an operation that has begun.
LEMMA ContinueGoes ==
  ASSUME IInv, IInv', NEW t \in Threads, NEW own, NEW pos, Shape(own, pos), Continue(t),
         "cut" \notin Faults
  PROVE  Goes(own)
<1>1. GetSize(t) \/ Walk(t) \/ Arrive(t) => Goes(own)
  BY GetSizeGoes, WalkGoes, ArriveGoes
<1>2. AllocClusters(t) \/ Fill(t) \/ Hook(t) \/ Undo(t) \/ Commit(t) => Goes(own)
  BY AllocGoes, FillGoes, HookGoes, UndoGoes, CommitGoes
<1>3. Collect(t) \/ FreeChain(t) \/ Cut(t) \/ Reap(t) => Goes(own)
  BY CollectGoes, FreeChainGoes, CutGoes, OpenGoes
<1> QED BY <1>1, <1>2, <1>3 DEF Continue

----------------------------------------------------------------------------
(* A file is what its chain leads to.                                      *)

\* The links of a file lead through its places, one by one.
LEMMA ChainIs ==
  ASSUME IInv, NEW own, NEW pos, Shape(own, pos), NEW i \in Indices, bft[i].name # NoName
  PROVE  /\ \A k \in 0 .. Extent(i) - 1 :
              /\ Follow(bft[i].first, k) \in Clusters
              /\ own[Follow(bft[i].first, k)] = File(i) /\ pos[Follow(bft[i].first, k)] = k
         /\ ~Cutting(i) => Follow(bft[i].first, Extent(i)) = EOF
<1>0. PICK first, e : first = bft[i].first /\ e = Extent(i)
  OBVIOUS
<1>1. /\ first \in Clusters /\ e \in Nat \ {0} /\ FileShape(own, pos, i)
      /\ pos \in [Clusters -> Nat]
  BY <1>0, ChainSizeType DEF Shape, IInv, TypeOK, Entries
<1>2. PICK S : S = [j \in 0 .. e |-> IF j < e THEN {c \in Clusters : own[c] = File(i) /\ pos[c] = j}
                                     ELSE IF Cutting(i) THEN {Link(c) : c \in Clusters}
                                     ELSE {EOF}]
  OBVIOUS
<1>3. first \in S[0]
  BY <1>0, <1>1, <1>2 DEF FileShape
<1>4. ASSUME NEW j \in 0 .. e - 1, NEW x \in S[j] PROVE Link(x) \in S[j + 1]
  <2>1. x \in Clusters /\ own[x] = File(i) /\ pos[x] = j /\ Link(x) = next[x]
    BY <1>1, <1>2 DEF Link
  <2>2. CASE j + 1 < e
    <3>1. next[x] \in Clusters /\ own[next[x]] = File(i) /\ pos[next[x]] = j + 1
      BY <1>0, <1>1, <2>1, <2>2 DEF FileShape
    <3>2. j + 1 \in 0 .. e
      BY <1>1
    <3>3. S[j + 1] = {c \in Clusters : own[c] = File(i) /\ pos[c] = j + 1}
      BY <1>2, <2>2, <3>2
    <3> QED BY <2>1, <3>1, <3>3
  <2>3. CASE j + 1 = e /\ ~Cutting(i)
    <3>1. next[x] = EOF
      BY <1>0, <1>1, <2>1, <2>3 DEF FileShape
    <3>2. S[j + 1] = {EOF}
      BY <1>1, <1>2, <2>3
    <3> QED BY <2>1, <3>1, <3>2
  <2>4. CASE j + 1 = e /\ Cutting(i)
    <3>1. S[j + 1] = {Link(c) : c \in Clusters}
      BY <1>1, <1>2, <2>4
    <3> QED BY <2>1, <3>1
  <2> QED BY <1>1, <2>2, <2>3, <2>4
<1>5. ASSUME NEW k \in 0 .. e PROVE Follow(first, k) \in S[k]
  <2>1. \A j \in 0 .. k - 1 : \A x \in S[j] : Link(x) \in S[j + 1]
    <3> SUFFICES ASSUME NEW j \in 0 .. k - 1, NEW x \in S[j] PROVE Link(x) \in S[j + 1]
      OBVIOUS
    <3>1. j \in 0 .. e - 1
      BY <1>1
    <3> QED BY <1>4, <3>1
  <2>2. k \in Nat
    OBVIOUS
  <2> QED BY <1>3, <2>1, <2>2, FollowInto
<1>6. ASSUME NEW k \in 0 .. e - 1
      PROVE  Follow(first, k) \in Clusters /\ own[Follow(first, k)] = File(i)
             /\ pos[Follow(first, k)] = k
  <2>1. k \in 0 .. e /\ k < e
    BY <1>1
  <2> QED BY <1>2, <1>5, <2>1
<1>7. ~Cutting(i) => Follow(first, e) = EOF
  <2>1. e \in 0 .. e
    BY <1>1
  <2> QED BY <1>2, <1>5, <2>1
<1> QED BY <1>0, <1>6, <1>7

\* The clusters of a file are those it owns.
LEMMA FileClustersAre ==
  ASSUME IInv, NEW own, NEW pos, Shape(own, pos), NEW i \in Files
  PROVE  /\ FileClusters(i) = {c \in Clusters : own[c] = File(i)}
         /\ Cardinality(FileClusters(i)) = Extent(i)
         /\ Extent(i) <= ClusterCount
<1>0. PICK first, e : first = bft[i].first /\ e = Extent(i)
  OBVIOUS
<1>1. i \in Indices /\ bft[i].name # NoName /\ e \in Nat \ {0}
  BY <1>0, ChainSizeType DEF Files
<1>2. \A k \in 0 .. e - 1 : /\ Follow(first, k) \in Clusters /\ own[Follow(first, k)] = File(i)
                            /\ pos[Follow(first, k)] = k
  BY <1>0, <1>1, ChainIs
<1>3. FileClusters(i) = {Follow(first, k) : k \in 0 .. e - 1}
  BY <1>0 DEF FileClusters
<1>4. ASSUME NEW c \in Clusters, own[c] = File(i) PROVE c \in FileClusters(i)
  <2>1. pos[c] < e /\ pos[c] \in Nat /\ Injective(own, pos)
    BY <1>0, <1>1, <1>4 DEF Shape, FileShape
  <2>2. PICK k \in 0 .. e - 1 : k = pos[c]
    BY <1>1, <2>1
  <2>3. Follow(first, k) = c
    BY <1>2, <1>4, <2>1, <2>2, OwnersDiffer DEF Injective
  <2> QED BY <1>3, <2>3
<1>5. FileClusters(i) = {c \in Clusters : own[c] = File(i)}
  BY <1>2, <1>3, <1>4
<1>6. PICK f : f = [k \in 0 .. e - 1 |-> Follow(first, k)]
  OBVIOUS
<1>7. f \in Bijection(0 .. e - 1, FileClusters(i))
  <2>1. f \in [0 .. e - 1 -> FileClusters(i)]
    BY <1>3, <1>6
  <2>2. \A j, k \in 0 .. e - 1 : f[j] = f[k] => j = k
    BY <1>2, <1>6
  <2>3. \A c \in FileClusters(i) : \E k \in 0 .. e - 1 : f[k] = c
    BY <1>3, <1>6
  <2> QED BY <2>1, <2>2, <2>3 DEF Bijection, Injection, Surjection, IsInjective
<1>8. IsFiniteSet(0 .. e - 1) /\ Cardinality(0 .. e - 1) = e
  <2>1. 0 \in Int /\ e - 1 \in Int
    BY <1>1
  <2> QED BY <1>1, <2>1, FS_Interval
<1>9. Cardinality(FileClusters(i)) = e
  BY <1>7, <1>8, FS_Bijection DEF ExistsBijection
<1>10. IsFiniteSet(Clusters) /\ Cardinality(Clusters) = ClusterCount
  <2>1. 0 \in Int /\ ClusterCount - 1 \in Int /\ ClusterCount \in Nat \ {0}
    BY LevelAssumption
  <2> QED BY <2>1, FS_Interval DEF Clusters
<1>11. e <= ClusterCount
  <2>1. FileClusters(i) \subseteq Clusters
    BY <1>5
  <2> QED BY <1>9, <1>10, <2>1, FS_Subset
<1> QED BY <1>0, <1>5, <1>9, <1>11

----------------------------------------------------------------------------
(* Operations on paths.                                                    *)

\* No operation is in a file that nobody has open.
LEMMA NotOpen ==
  ASSUME IInv, NEW t \in Threads, NEW i \in Indices, i \notin present \/ bft[i].name = NoName
  PROVE  writer[i] = None /\ Alone(t, {i})
<1>1. \A u \in Threads : InFile(u) => handle[u] # i
  <2> SUFFICES ASSUME NEW u \in Threads, InFile(u), handle[u] = i PROVE FALSE
    OBVIOUS
  <2>1. Using(u, i)
    BY DEF Using, InFile, AfterGetSize
  <2> QED BY <2>1 DEF IInv, Rest, OpenPresent, OpenNamed
<1>2. readers[i] \subseteq Threads /\ writer[i] \in Threads \cup {None}
  BY DEF IInv, TypeOK
<1>3. \A u \in Threads : u \notin readers[i] /\ writer[i] # u
  BY <1>1 DEF IInv, Rest, LockHeld
<1>4. readers[i] = {} /\ writer[i] = None
  BY <1>2, <1>3
<1> QED BY <1>1, <1>4 DEF Alone

\* The names change, and no file comes or goes.
LEMMA NamesGo ==
  ASSUME IInv, IInv', NEW t \in Threads, NEW own, NEW pos, Shape(own, pos), pc[t] = "idle",
         UNCHANGED <<bitmap, next, oft, locks, handle, pc, job>>,
         \A i \in Indices : /\ bft'[i].first = bft[i].first /\ bft'[i].size = bft[i].size
                            /\ bft'[i].name = NoName <=> bft[i].name = NoName
  PROVE  Goes(own)
<1>1. \A i \in Indices : FileKept(i)
  BY FilesKept DEF locks
<1>2. ~Growing(t) /\ ~Unlinking(t) /\ ~Growing(t)' /\ ~Unlinking(t)' /\ CurShape(own, pos, t)'
  BY CurTrivial DEF Growing, Unlinking
<1>3. Alone(t, {})
  BY DEF Alone
<1> QED BY <1>1, <1>2, <1>3, QuietStep

\* A new file gets a cluster nobody has.
LEMMA MknodGoes ==
  ASSUME IInv, IInv', NEW t \in Threads, NEW own, NEW pos, Shape(own, pos),
         NEW n \in Names, Mknod(t, n), "mknod" \notin Faults
  PROVE  Goes(own)
<1>1. /\ pc[t] = "idle" /\ UNCHANGED <<oft, locks, pc, handle, job>>
      /\ ~Growing(t) /\ ~Unlinking(t) /\ n # NoName
  BY LevelAssumption DEF Mknod, Growing, Unlinking
<1>2. CASE UNCHANGED table
  BY <1>1, <1>2, NamesGo DEF table
<1>3. ASSUME NEW i \in Find(NoName), NEW c \in First(FreeClusters),
             bft' = [bft EXCEPT ![i] = [name |-> n, first |-> c, size |-> 0]],
             bitmap' = bitmap \cup {c}, next' = [next EXCEPT ![c] = EOF]
      PROVE  Goes(own)
  <2>1. /\ i \in Indices /\ bft[i].name = NoName /\ c \in Clusters /\ c \notin bitmap
        /\ bft \in [Indices -> Entries] /\ next \in [Clusters -> Links]
    BY FindType, FirstSubset DEF FreeClusters, IInv, TypeOK
  <2>2. /\ bft'[i].name # NoName /\ bft'[i].first = c /\ bft'[i].size = 0
        /\ \A k \in Indices \ {i} : bft'[k] = bft[k]
        /\ next'[c] = EOF /\ \A d \in Clusters \ {c} : next'[d] = next[d]
    BY <1>1, <1>3, <2>1
  <2>3. writer[i] = None /\ Alone(t, {i})
    BY <2>1, NotOpen
  <2>4. Extent(i)' = 1
    <3>1. writer'[i] = None
      BY <1>1, <2>3 DEF locks
    <3>2. ChainSize(i)' = 0
      BY <2>2, <3>1, LevelAssumption DEF ChainSize
    <3>3. Ext(0) = 1
      BY ExtOf DEF EofHops
    <3> QED BY <3>2, <3>3 DEF Extent, Ext, Required
  <2>5. /\ own \in [Clusters -> Owners] /\ pos \in [Clusters -> Nat] /\ Injective(own, pos)
        /\ Marked(own) /\ \A d \in Clusters : own[d] # File(i) /\ own[d] # Job(t)
    BY <1>1, <2>1 DEF Shape, JobShape, FileShape
  <2>6. own[c] = Nobody
    BY <2>1, <2>5 DEF Marked
  <2>7. PICK own2, pos2 : own2 = [own EXCEPT ![c] = File(i)] /\ pos2 = [pos EXCEPT ![c] = 0]
    OBVIOUS
  <2>8. /\ own2[c] = File(i) /\ pos2[c] = 0
        /\ \A d \in Clusters \ {c} : own2[d] = own[d] /\ pos2[d] = pos[d]
        /\ own2 \in [Clusters -> Owners] /\ pos2 \in [Clusters -> Nat]
    BY <2>1, <2>5, <2>7 DEF Owners
  <2>9. Injective(own2, pos2)
    BY <2>5, <2>8 DEF Injective
  <2>10. Marked(own2)'
    BY <1>3, <2>5, <2>8 DEF Marked
  <2>11. FileShape(own2, pos2, i)'
    <3> SUFFICES ASSUME NEW d \in Clusters, own2[d] = File(i)
                 PROVE  /\ pos2[d] < 1
                        /\ ~(pos2[d] + 1 < 1)
                        /\ pos2[d] + 1 = 1 => next'[d] = EOF
      BY <2>2, <2>4, <2>8 DEF FileShape
    <3>1. d = c
      BY <2>5, <2>8
    <3> QED BY <2>2, <2>8, <3>1
  <2>12. JobShape(own2, pos2, t)' /\ CurShape(own2, pos2, t)'
    <3>1. \A d \in Clusters : own2[d] # Job(t)
      BY <2>5, <2>8, OwnersDiffer
    <3> QED BY <1>1, <3>1, CurTrivial DEF JobShape, Growing, Unlinking
  <2>13. \A k \in Indices \ {i} : FileKept(k)
    BY <1>1, <2>2, FilesKept DEF locks
  <2>14. Frugal /\ Tight(own) => Tight(own2)'
    <3>1. bitmap \subseteq Clusters
      BY DEF IInv, TypeOK
    <3> QED BY <1>3, <2>8, <3>1, OwnersDiffer DEF Tight
  <2>15. \A d \in Clusters :
           \/ own2[d] = own[d] /\ pos2[d] = pos[d] /\ next'[d] = next[d]
           \/ own[d] \in Mine(t, {i}) /\ own2[d] \in Mine(t, {i})
    BY <2>2, <2>6, <2>8 DEF Mine
  <2>16. {i} \in SUBSET Indices /\ \A k \in {i} : FileShape(own2, pos2, k)'
    BY <2>1, <2>11
  <2>17. \A u \in Threads \ {t} : pc'[u] = pc[u] /\ job'[u] = job[u] /\ handle'[u] = handle[u]
    BY <1>1
  <2>18. own2 \in [Clusters -> Owners] /\ pos2 \in [Clusters -> Nat] /\ Alone(t, {i})
    BY <2>3, <2>8
  <2> QED BY <2>9, <2>10, <2>12, <2>13, <2>14, <2>15, <2>16, <2>17, <2>18, StepShape
<1> QED BY <1>2, <1>3 DEF Mknod

\* The chain of a file passes to the thread that unlinks it.
LEMMA DetachGoes ==
  ASSUME IInv, IInv', NEW t \in Threads, NEW own, NEW pos, Shape(own, pos), pc[t] = "idle",
         NEW i \in Indices, i \notin present, bft[i].name # NoName, bft'[i].name = NoName,
         \A k \in Indices \ {i} : /\ bft'[k].first = bft[k].first /\ bft'[k].size = bft[k].size
                                  /\ bft'[k].name = NoName <=> bft[k].name = NoName,
         UNCHANGED <<bitmap, next, oft, locks, handle>>,
         StartCollect(t, "unlink", bft[i].first)
  PROVE  Goes(own)
<1>0. PICK first, e : first = bft[i].first /\ e = Extent(i)
  OBVIOUS
<1>1. /\ pc'[t] = "collect" /\ \A u \in Threads \ {t} : pc'[u] = pc[u] /\ job'[u] = job[u]
      /\ job'[t].kind = "unlink" /\ job'[t].at = first /\ job'[t].list = <<>>
      /\ ~Growing(t) /\ ~Unlinking(t) /\ Unlinking(t)' /\ ~Growing(t)'
  BY <1>0 DEF StartCollect, GoTo, IInv, TypeOK, Jobs, Growing, Unlinking
<1>2. writer[i] = None /\ Alone(t, {i}) /\ ~Cutting(i)
  BY NotOpen, ChainSizeIs
<1>3. /\ own \in [Clusters -> Owners] /\ pos \in [Clusters -> Nat] /\ Injective(own, pos)
      /\ Marked(own) /\ FileShape(own, pos, i) /\ \A c \in Clusters : own[c] # Job(t)
      /\ first \in Clusters
  BY <1>0, <1>1 DEF Shape, JobShape, IInv, TypeOK, Entries
<1>4. e \in Nat \ {0} /\ e <= ClusterCount /\ ClusterCount \in Nat
  BY <1>0, ChainSizeType, FileClustersAre, LevelAssumption DEF Files
<1>5. PICK own2 : own2 = [c \in Clusters |-> IF own[c] = File(i) THEN Job(t) ELSE own[c]]
  OBVIOUS
<1>6. /\ own2 \in [Clusters -> Owners]
      /\ \A c \in Clusters : own2[c] = Job(t) <=> own[c] = File(i)
      /\ \A c \in Clusters : own2[c] # Job(t) => own2[c] = own[c]
  BY <1>3, <1>5 DEF Owners
<1>7. Injective(own2, pos)
  BY <1>3, <1>6, OwnersDiffer DEF Injective
<1>8. Marked(own2)'
  BY <1>3, <1>6, OwnersDiffer DEF Marked
<1>9. FileShape(own2, pos, i)'
  BY <1>6, OwnersDiffer DEF FileShape
<1>10. UnlinkShape(own2, pos, t)'
  <2>1. Len(job'[t].list) = 0 /\ \A k \in 1 .. Len(job'[t].list) : FALSE
    BY <1>1
  <2>2. own2[first] = Job(t) /\ pos[first] = 0
    BY <1>0, <1>3, <1>6 DEF FileShape
  <2>3. ASSUME NEW c \in Clusters, own2[c] = Job(t)
        PROVE  /\ pos[c] < ClusterCount
               /\ \/ next[c] = EOF /\ \A d \in Clusters : own2[d] = Job(t) => pos[d] <= pos[c]
                  \/ next[c] \in Clusters /\ own2[next[c]] = Job(t) /\ pos[next[c]] = pos[c] + 1
    <3>1. own[c] = File(i) /\ pos[c] \in Nat
      BY <1>3, <1>6, <2>3
    <3>2. /\ \A d \in Clusters : own[d] = File(i) => pos[d] < e /\ pos[d] \in Nat
          /\ pos[c] + 1 < e => /\ next[c] \in Clusters /\ own[next[c]] = File(i)
                               /\ pos[next[c]] = pos[c] + 1
          /\ pos[c] + 1 = e => next[c] = EOF
      BY <1>0, <1>2, <1>3, <3>1 DEF FileShape
    <3>3. CASE pos[c] + 1 < e
      BY <1>4, <1>6, <3>1, <3>2, <3>3
    <3>4. CASE ~(pos[c] + 1 < e)
      <4>1. pos[c] + 1 = e
        BY <1>4, <3>1, <3>2, <3>4
      <4>2. \A d \in Clusters : own2[d] = Job(t) => pos[d] <= pos[c]
        BY <1>4, <1>6, <3>1, <3>2, <4>1
      <4> QED BY <1>4, <3>1, <3>2, <4>1, <4>2
    <3> QED BY <3>3, <3>4
  <2> QED BY <1>1, <1>3, <2>1, <2>2, <2>3 DEF UnlinkShape
<1>11. JobShape(own2, pos, t)' /\ CurShape(own2, pos, t)'
  BY <1>1, <1>10, CurTrivial DEF JobShape
<1>12. \A k \in Indices \ {i} : FileKept(k)
  BY <1>1, FilesKept DEF locks
<1>13. Frugal /\ Tight(own) => Tight(own2)'
  <2>1. bitmap \subseteq Clusters
    BY DEF IInv, TypeOK
  <2> QED BY <1>6, <2>1, OwnersDiffer DEF Tight
<1>14. \A d \in Clusters :
         \/ own2[d] = own[d] /\ next'[d] = next[d]
         \/ own[d] \in Mine(t, {i}) /\ own2[d] \in Mine(t, {i})
  BY <1>6 DEF Mine
<1>15. {i} \in SUBSET Indices /\ \A k \in {i} : FileShape(own2, pos, k)'
  BY <1>9
<1>16. \A u \in Threads \ {t} : pc'[u] = pc[u] /\ job'[u] = job[u] /\ handle'[u] = handle[u]
  BY <1>1
<1>17. own2 \in [Clusters -> Owners] /\ pos \in [Clusters -> Nat] /\ Alone(t, {i})
  BY <1>2, <1>3, <1>6
<1> QED BY <1>7, <1>8, <1>11, <1>12, <1>13, <1>14, <1>15, <1>16, <1>17, StepShape

\* The file's clusters become the operation's.
LEMMA UnlinkGoes ==
  ASSUME IInv, IInv', NEW t \in Threads, NEW own, NEW pos, Shape(own, pos),
         NEW n \in Names, Unlink(t, n)
  PROVE  Goes(own)
<1>1. pc[t] = "idle" /\ UNCHANGED <<bitmap, next, oft, locks, handle>> /\ n # NoName
  BY LevelAssumption DEF Unlink
<1>2. PICK i \in Find(n) :
        \/ UNCHANGED <<bft, pc, job>>
        \/ /\ i \notin present /\ bft' = [bft EXCEPT ![i] = Zeroed]
           /\ StartCollect(t, "unlink", bft[i].first)
  BY DEF Unlink
<1>3. i \in Indices /\ bft[i].name # NoName /\ bft \in [Indices -> Entries]
  BY <1>1, FindType DEF IInv, TypeOK
<1>4. CASE UNCHANGED <<bft, pc, job>>
  BY <1>1, <1>4, NamesGo
<1>5. CASE /\ i \notin present /\ bft' = [bft EXCEPT ![i] = Zeroed]
           /\ StartCollect(t, "unlink", bft[i].first)
  <2>1. bft'[i].name = NoName /\ \A k \in Indices \ {i} : bft'[k] = bft[k]
    BY <1>3, <1>5 DEF Zeroed
  <2> QED BY <1>1, <1>3, <1>5, <2>1, DetachGoes
<1> QED BY <1>2, <1>4, <1>5

\* Rename swaps names, moves one, or unlinks the file it replaces.
LEMMA RenameGoes ==
  ASSUME IInv, IInv', NEW t \in Threads, NEW own, NEW pos, Shape(own, pos),
         NEW old \in Names, NEW new \in Names, Rename(t, old, new), ~RenameSame
  PROVE  Goes(own)
<1>1. /\ pc[t] = "idle" /\ UNCHANGED <<bitmap, next, oft, locks, handle>>
      /\ old # NoName /\ new # NoName /\ bft \in [Indices -> Entries]
  BY LevelAssumption DEF Rename, IInv, TypeOK
<1>2. CASE RenameExchange(t, old, new)
  <2>1. PICK i \in Find(old), j \in Find(new) :
          bft' = [bft EXCEPT ![i].name = bft[j].name, ![j].name = bft[i].name]
    BY <1>2 DEF RenameExchange
  <2>2. i \in Indices /\ j \in Indices /\ bft[i].name = old /\ bft[j].name = new
    BY FindType
  <2>3. \A k \in Indices : /\ bft'[k].first = bft[k].first /\ bft'[k].size = bft[k].size
                           /\ bft'[k].name = NoName <=> bft[k].name = NoName
    BY <1>1, <2>1, <2>2 DEF Entries
  <2> QED BY <1>1, <1>2, <2>3, NamesGo DEF RenameExchange
<1>3. CASE RenameMove(t, old, new)
  <2>1. PICK i \in Find(old) : bft' = [bft EXCEPT ![i].name = new]
    BY <1>3 DEF RenameMove
  <2>2. i \in Indices /\ bft[i].name = old
    BY FindType
  <2>3. \A k \in Indices : /\ bft'[k].first = bft[k].first /\ bft'[k].size = bft[k].size
                           /\ bft'[k].name = NoName <=> bft[k].name = NoName
    BY <1>1, <2>1, <2>2 DEF Entries
  <2> QED BY <1>1, <1>3, <2>3, NamesGo DEF RenameMove
<1>4. CASE RenameOver(t, old, new)
  <2>1. PICK i \in Find(old), j \in Find(new) :
          \/ UNCHANGED <<bft, pc, job>>
          \/ /\ j \notin present
             /\ bft' = [[bft EXCEPT ![j] = Zeroed] EXCEPT ![i].name = new]
             /\ StartCollect(t, "unlink", bft[j].first)
    BY <1>4 DEF RenameOver
  <2>2. /\ i \in Indices /\ j \in Indices /\ bft[i].name = old /\ bft[j].name = new
        /\ i # j
    BY <1>4, FindType DEF RenameOver
  <2>3. CASE UNCHANGED <<bft, pc, job>>
    BY <1>1, <2>3, NamesGo
  <2>4. CASE /\ j \notin present
             /\ bft' = [[bft EXCEPT ![j] = Zeroed] EXCEPT ![i].name = new]
             /\ StartCollect(t, "unlink", bft[j].first)
    <3>1. PICK f : f = [bft EXCEPT ![j] = Zeroed]
      OBVIOUS
    <3>2. /\ f \in [Indices -> Entries] /\ f[j].name = NoName
          /\ \A k \in Indices \ {j} : f[k] = bft[k]
      BY <1>1, <2>2, <3>1, ZeroIsCluster DEF Entries, Zeroed
    <3>3. bft' = [f EXCEPT ![i].name = new]
      BY <2>4, <3>1
    <3>4. /\ bft'[j].name = NoName
          /\ \A k \in Indices \ {j} :
               /\ bft'[k].first = bft[k].first /\ bft'[k].size = bft[k].size
               /\ bft'[k].name = NoName <=> bft[k].name = NoName
      BY <1>1, <2>2, <3>2, <3>3 DEF Entries
    <3> QED BY <1>1, <2>2, <2>4, <3>4, DetachGoes
  <2> QED BY <2>1, <2>3, <2>4
<1> QED BY <1>2, <1>3, <1>4 DEF Rename

----------------------------------------------------------------------------
(***************************************************************************)
(* The invariant.  The owners exist whatever the threads do, if the write  *)
(* of a file's first cluster does not fail (bsfs_mknod creates the entry   *)
(* all the same), the one that cuts a chain does not (bsfs_ftruncate has   *)
(* freed the rest of it) and no caller renames a file to its own name      *)
(* (bsfs_rename frees it).                                                 *)
(***************************************************************************)
Sound == "mknod" \notin Faults /\ "cut" \notin Faults /\ ~RenameSame

Owned == \E own, pos : Shape(own, pos)
OwnedTight == \E own, pos : Shape(own, pos) /\ Tight(own)

\* An empty level has no owners.
LEMMA InitOwned == Init => OwnedTight
<1> SUFFICES ASSUME Init PROVE OwnedTight
  OBVIOUS
<1> DEFINE own == [c \in Clusters |-> Nobody]
<1> DEFINE pos == [c \in Clusters |-> 0]
<1>1. own \in [Clusters -> Owners] /\ pos \in [Clusters -> Nat] /\ \A c \in Clusters : own[c] = Nobody
  BY DEF Owners
<1> HIDE DEF own, pos
<1>2. /\ \A i \in Indices : bft[i].name = NoName
      /\ \A t \in Threads : pc[t] = "idle"
      /\ bitmap = {}
  BY DEF Init, Zeroed
<1>3. Marked(own) /\ Injective(own, pos) /\ Tight(own)
  BY <1>1, <1>2 DEF Marked, Injective, Tight
<1>4. \A i \in Indices : FileShape(own, pos, i)
  BY <1>1, <1>2, OwnersDiffer DEF FileShape
<1>5. \A t \in Threads : JobShape(own, pos, t)
  BY <1>1, <1>2, OwnersDiffer DEF JobShape, Growing, Unlinking
<1>6. \A t \in Threads : CurShape(own, pos, t)
  BY <1>2 DEF CurShape, Truncating
<1>7. Shape(own, pos)
  BY <1>1, <1>3, <1>4, <1>5, <1>6 DEF Shape
<1> QED BY <1>3, <1>7 DEF OwnedTight

\* Every step of every thread.
LEMMA NextGoes ==
  ASSUME IInv, IInv', NEW own, NEW pos, Shape(own, pos), Next, Sound
  PROVE  Goes(own)
<1>1. PICK t \in Threads :
         \/ \E n \in Names : Mknod(t, n)
         \/ \E n \in Names : Unlink(t, n)
         \/ \E n \in Names : Open(t, n)
         \/ \E old, new \in Names : Rename(t, old, new)
         \/ Attributes(t) \/ Release(t)
         \/ \E arg \in 0 .. MaxSize, kind \in Kinds :
              \/ kind = "read" /\ BeginRead(t, arg)
              \/ kind # "read" /\ BeginWrite(t, kind, arg)
         \/ Continue(t)
  BY Steps
<1>2. ASSUME NEW n \in Names, Mknod(t, n) PROVE Goes(own)
  BY <1>2, MknodGoes DEF Sound
<1>3. ASSUME NEW n \in Names, Unlink(t, n) PROVE Goes(own)
  BY <1>3, UnlinkGoes
<1>4. ASSUME \E n \in Names : Open(t, n) PROVE Goes(own)
  BY <1>4, OpenGoes
<1>5. ASSUME NEW old \in Names, NEW new \in Names, Rename(t, old, new) PROVE Goes(own)
  BY <1>5, RenameGoes DEF Sound
<1>6. ASSUME Attributes(t) \/ Release(t) PROVE Goes(own)
  BY <1>6, OpenGoes
<1>7. ASSUME NEW kind, NEW arg, (kind = "read" /\ BeginRead(t, arg)) \/ BeginWrite(t, kind, arg)
      PROVE  Goes(own)
  BY <1>7, BeginGoes
<1>8. ASSUME Continue(t) PROVE Goes(own)
  BY <1>8, ContinueGoes DEF Sound
<1> QED BY <1>1, <1>2, <1>3, <1>4, <1>5, <1>6, <1>7, <1>8

\* A step that changes nothing.
LEMMA StutterGoes ==
  ASSUME NEW own, NEW pos, Shape(own, pos), UNCHANGED vars
  PROVE  Goes(own)
<1>1. /\ UNCHANGED <<bft, bitmap, next, readers, writer, pc, handle, job>>
  BY DEF vars, table, locks
<1>2. Marked(own)' /\ (Tight(own) => Tight(own)')
  BY <1>1 DEF Shape, Marked, Tight
<1>3. \A t \in Threads : NewSize(t)' = NewSize(t)
  BY <1>1 DEF NewSize
<1>4. \A i : /\ Extent(i)' = Extent(i) /\ (Cutting(i)' <=> Cutting(i))
  BY <1>1 DEF Extent, ChainSize, Cutting, NewSize
<1>5. \A i \in Indices : FileShape(own, pos, i)'
  BY <1>1, <1>4 DEF Shape, FileShape
<1>6. \A t \in Threads : JobShape(own, pos, t)'
  BY <1>1 DEF Shape, JobShape, GrowShape, UnlinkShape, Growing, Unlinking
<1>7. \A t \in Threads : CurShape(own, pos, t)'
  BY <1>1 DEF Shape, CurShape, TailShape, Truncating
<1>8. Shape(own, pos)'
  BY <1>2, <1>5, <1>6, <1>7 DEF Shape
<1> QED BY <1>1, <1>2, <1>8 DEF Goes

\* A step or a stutter.
LEMMA BoxNextGoes ==
  ASSUME IInv, IInv', NEW own, NEW pos, Shape(own, pos), [Next]_vars, Sound
  PROVE  Goes(own)
BY NextGoes, StutterGoes

\* The invariant is inductive.
LEMMA OwnedStep ==
  ASSUME IInv, IInv', Owned, [Next]_vars, Sound
  PROVE  Owned'
<1>1. PICK own, pos : Shape(own, pos)
  BY DEF Owned
<1>2. Goes(own)
  BY <1>1, BoxNextGoes
<1> QED BY <1>2 DEF Goes, Owned

\* With every cluster in use owned, too.
LEMMA OwnedTightStep ==
  ASSUME IInv, IInv', OwnedTight, [Next]_vars, Sound, Frugal
  PROVE  OwnedTight'
<1>1. PICK own, pos : Shape(own, pos) /\ Tight(own)
  BY DEF OwnedTight
<1>2. Goes(own)
  BY <1>1, BoxNextGoes
<1> QED BY <1>1, <1>2 DEF Goes, OwnedTight

\* Every cluster of a level that is in use has an owner and a place, by which
\* the links lead from the first cluster of a file to its last.
THEOREM EveryClusterOwned == ASSUME Sound PROVE Spec => []Owned
<1>1. Init => Owned
  BY InitOwned DEF Owned, OwnedTight
<1>2. IInv /\ IInv' /\ Owned /\ [Next]_vars => Owned'
  BY OwnedStep
<1> QED
  BY Inductive, <1>1, <1>2, PTL DEF Spec

----------------------------------------------------------------------------
(***************************************************************************)
(* What the owners say of the properties: the clusters of a file and those *)
(* of an operation are the ones it owns.                                   *)
(***************************************************************************)
LEMMA UnlinkedClusters ==
  ASSUME IInv, NEW t \in Threads, NEW own, NEW pos, Shape(own, pos), Unlinking(t)
  PROVE  Elements(job[t].list) \cup Reach(job[t].at) = {c \in Clusters : own[c] = Job(t)}
<1>0. PICK list, at, n : list = job[t].list /\ at = job[t].at /\ n = Len(list)
  OBVIOUS
<1>1. /\ own \in [Clusters -> Owners] /\ pos \in [Clusters -> Nat] /\ Injective(own, pos)
      /\ UnlinkShape(own, pos, t)
  BY DEF Shape, JobShape, Unlinking, Growing
<1>2. list \in Seq(Clusters) /\ n \in Nat /\ DOMAIN list = 1 .. n
  BY <1>0, JobFields DEF IInv, TypeOK
<1>3. /\ \A k \in 1 .. n : own[list[k]] = Job(t) /\ pos[list[k]] + 1 = k
      /\ \A c \in Clusters : own[c] = Job(t) =>
           /\ pos[c] < ClusterCount
           /\ \/ next[c] = EOF /\ \A d \in Clusters : own[d] = Job(t) => pos[d] <= pos[c]
              \/ next[c] \in Clusters /\ own[next[c]] = Job(t) /\ pos[next[c]] = pos[c] + 1
      /\ \/ at = EOF /\ \A d \in Clusters : own[d] = Job(t) => pos[d] < n
         \/ at \in Clusters /\ own[at] = Job(t) /\ pos[at] = n
  BY <1>0, <1>1 DEF UnlinkShape
<1>4. EOF \notin Clusters /\ ClusterCount \in Nat
  BY LevelAssumption DEF Clusters
<1>5. ASSUME NEW c \in Elements(list) PROVE c \in Clusters /\ own[c] = Job(t)
  <2>1. PICK k \in 1 .. n : c = list[k]
    BY <1>2 DEF Elements
  <2> QED BY <1>2, <1>3, <2>1
<1>6. ASSUME NEW c \in Reach(at) PROVE c \in Clusters /\ own[c] = Job(t)
  <2>1. PICK k \in 0 .. ClusterCount : c = Follow(at, k) /\ c \in Clusters
    BY DEF Reach
  <2> DEFINE Mine0 == {d \in Clusters : own[d] = Job(t)} \cup {EOF}
  <2>2. PICK S : S = [j \in 0 .. k |-> Mine0]
    OBVIOUS
  <2>3. k \in Nat /\ \A j \in 0 .. k : S[j] = Mine0
    BY <1>4, <2>2
  <2>4. at \in S[0]
    BY <1>3, <2>3
  <2>5. ASSUME NEW j \in 0 .. k - 1, NEW x \in S[j] PROVE Link(x) \in S[j + 1]
    <3>1. j \in 0 .. k /\ j + 1 \in 0 .. k
      BY <2>3
    <3>2. x \in Mine0
      BY <2>3, <3>1
    <3>3. Link(x) \in Mine0
      BY <1>3, <1>4, <3>2 DEF Link
    <3> QED BY <2>3, <3>1, <3>3
  <2>6. Follow(at, k) \in S[k]
    BY <2>3, <2>4, <2>5, FollowInto
  <2> QED BY <1>4, <2>1, <2>3, <2>6
<1>7. ASSUME NEW c \in Clusters, own[c] = Job(t) PROVE c \in Elements(list) \cup Reach(at)
  <2>0. pos[c] \in Nat /\ pos[c] < ClusterCount
    BY <1>1, <1>3, <1>7
  <2>1. CASE pos[c] < n
    <3>1. pos[c] + 1 \in 1 .. n
      BY <1>2, <2>0, <2>1
    <3>2. /\ own[list[pos[c] + 1]] = Job(t) /\ pos[list[pos[c] + 1]] + 1 = pos[c] + 1
          /\ list[pos[c] + 1] \in Clusters
      BY <1>2, <1>3, <3>1
    <3>3. pos[list[pos[c] + 1]] = pos[c]
      BY <1>1, <2>0, <3>2
    <3>4. list[pos[c] + 1] = c
      BY <1>1, <1>7, <3>2, <3>3, OwnersDiffer DEF Injective
    <3> QED BY <1>2, <3>1, <3>4 DEF Elements
  <2>2. CASE pos[c] >= n
    <3>1. at \in Clusters /\ own[at] = Job(t) /\ pos[at] = n
      BY <1>2, <1>3, <1>7, <2>0, <2>2
    <3>2. PICK k : k = pos[c] - n
      OBVIOUS
    <3>3. k \in Nat /\ k \in 0 .. ClusterCount /\ n + k = pos[c]
      BY <1>2, <1>4, <2>0, <2>2, <3>2
    <3> DEFINE Place(j) == {x \in Clusters : own[x] = Job(t) /\ pos[x] = n + j}
                     \cup {x \in {EOF} : \A d \in Clusters : own[d] = Job(t) => pos[d] < n + j}
    <3>4. PICK S : S = [j \in 0 .. k |-> Place(j)]
      OBVIOUS
    <3>5. \A j \in 0 .. k : S[j] = Place(j)
      BY <3>4
    <3>6. at \in S[0]
      BY <1>2, <3>1, <3>3, <3>5
    <3>7. ASSUME NEW j \in 0 .. k - 1, NEW x \in S[j] PROVE Link(x) \in S[j + 1]
      <4>1. j \in Nat /\ j \in 0 .. k /\ j + 1 \in 0 .. k
        BY <3>3
      <4>2. x \in Place(j)
        BY <3>5, <4>1
      <4>3. CASE x \in Clusters
        <5>1. own[x] = Job(t) /\ pos[x] = n + j /\ Link(x) = next[x]
          BY <1>4, <4>2, <4>3 DEF Link
        <5>2. CASE next[x] = EOF /\ \A d \in Clusters : own[d] = Job(t) => pos[d] <= pos[x]
          <6>1. \A d \in Clusters : own[d] = Job(t) => pos[d] < n + (j + 1)
            BY <1>1, <1>2, <4>1, <5>1, <5>2
          <6>2. Link(x) \in Place(j + 1)
            BY <5>1, <5>2, <6>1
          <6> QED BY <3>5, <4>1, <6>2
        <5>3. CASE next[x] \in Clusters /\ own[next[x]] = Job(t) /\ pos[next[x]] = pos[x] + 1
          <6>1. Link(x) \in Place(j + 1)
            BY <1>2, <4>1, <5>1, <5>3
          <6> QED BY <3>5, <4>1, <6>1
        <5> QED BY <1>3, <4>3, <5>1, <5>2, <5>3
      <4>4. CASE x \notin Clusters
        <5>1. x = EOF /\ Link(x) = EOF /\ \A d \in Clusters : own[d] = Job(t) => pos[d] < n + j
          BY <4>2, <4>4 DEF Link
        <5>2. \A d \in Clusters : own[d] = Job(t) => pos[d] < n + (j + 1)
          BY <1>1, <1>2, <4>1, <5>1
        <5>3. Link(x) \in Place(j + 1)
          BY <5>1, <5>2
        <5> QED BY <3>5, <4>1, <5>3
      <4> QED BY <4>3, <4>4
    <3>8. Follow(at, k) \in S[k]
      BY <3>3, <3>6, <3>7, FollowInto
    <3>9. Follow(at, k) \in Place(k)
      BY <3>3, <3>5, <3>8
    <3>10. ~ (\A d \in Clusters : own[d] = Job(t) => pos[d] < n + k)
      BY <1>7, <2>0, <3>3
    <3>11. Follow(at, k) \in Clusters /\ own[Follow(at, k)] = Job(t) /\ pos[Follow(at, k)] = pos[c]
      BY <3>3, <3>9, <3>10
    <3>12. Follow(at, k) = c
      BY <1>1, <1>7, <3>11, OwnersDiffer DEF Injective
    <3> QED BY <3>3, <3>12 DEF Reach
  <2> QED BY <1>2, <2>0, <2>1, <2>2
<1>8. Elements(list) \cup Reach(at) = {c \in Clusters : own[c] = Job(t)}
  BY <1>5, <1>6, <1>7
<1> QED BY <1>0, <1>8

\* The clusters of an operation are those it owns.
LEMMA JobClustersAre ==
  ASSUME IInv, NEW t \in Threads, NEW own, NEW pos, Shape(own, pos)
  PROVE  JobClusters(t) = {c \in Clusters : own[c] = Job(t)}
<1>1. CASE Growing(t)
  <2>1. JobClusters(t) = Elements(job[t].list)
    BY <1>1 DEF JobClusters, Growing
  <2>2. Elements(job[t].list) \subseteq Clusters
    BY JobFields, ElementsType DEF IInv, TypeOK
  <2>3. \A c \in Clusters : own[c] = Job(t) <=> c \in Elements(job[t].list)
    BY <1>1, InList
  <2> QED BY <2>1, <2>2, <2>3
<1>2. CASE Unlinking(t)
  <2>1. JobClusters(t) = Elements(job[t].list) \cup Reach(job[t].at)
    BY <1>2 DEF JobClusters, Unlinking
  <2> QED BY <1>2, <2>1, UnlinkedClusters
<1>3. CASE ~Growing(t) /\ ~Unlinking(t)
  <2>1. JobClusters(t) = {}
    BY <1>3 DEF JobClusters, Growing, Unlinking
  <2>2. \A c \in Clusters : own[c] # Job(t)
    BY <1>3 DEF Shape, JobShape
  <2> QED BY <2>1, <2>2
<1> QED BY <1>1, <1>2, <1>3

\* The chain of a file is what it owns.
LEMMA OwnedIntact ==
  ASSUME IInv, Owned
  PROVE  ChainsIntact
<1> SUFFICES ASSUME NEW i \in Files
             PROVE  /\ FileClusters(i) \subseteq Clusters
                    /\ Cardinality(FileClusters(i)) = Extent(i)
                    /\ ~Cutting(i) => Follow(bft[i].first, Extent(i)) = EOF
  BY DEF ChainsIntact
<1>1. PICK own, pos : Shape(own, pos)
  BY DEF Owned
<1>2. i \in Indices /\ bft[i].name # NoName
  BY DEF Files
<1>3. FileClusters(i) = {c \in Clusters : own[c] = File(i)} /\ Cardinality(FileClusters(i)) = Extent(i)
  BY <1>1, FileClustersAre
<1>4. ~Cutting(i) => Follow(bft[i].first, Extent(i)) = EOF
  BY <1>1, <1>2, ChainIs
<1> QED BY <1>3, <1>4

\* Every file has a chain of as many clusters as its size takes, ended where
\* the size ends, at every moment of every operation on it.
THEOREM ChainsAreIntact == ASSUME Sound PROVE Spec => []ChainsIntact
<1>1. IInv /\ Owned => ChainsIntact
  BY OwnedIntact
<1> QED
  BY Inductive, EveryClusterOwned, <1>1, PTL

\* A cluster has one owner.
LEMMA OwnedApart ==
  ASSUME IInv, Owned
  PROVE  NoCrossLink
<1>1. PICK own, pos : Shape(own, pos)
  BY DEF Owned
<1>2. \A i \in Files : FileClusters(i) = {c \in Clusters : own[c] = File(i)}
  BY <1>1, FileClustersAre
<1>3. \A t \in Threads : JobClusters(t) = {c \in Clusters : own[c] = Job(t)}
  BY <1>1, JobClustersAre
<1>4. \A c \in Clusters : own[c] # Nobody => c \in bitmap
  BY <1>1 DEF Shape, Marked
<1>5. FreeMeansFree
  BY <1>2, <1>3, <1>4, OwnersDiffer DEF FreeMeansFree
<1>6. \A i \in Files : \A j \in Files \ {i} : FileClusters(i) \cap FileClusters(j) = {}
  BY <1>2, OwnersDiffer
<1>7. \A i \in Files : \A t \in Threads : FileClusters(i) \cap JobClusters(t) = {}
  BY <1>2, <1>3, OwnersDiffer
<1>8. \A t \in Threads : \A u \in Threads \ {t} : JobClusters(t) \cap JobClusters(u) = {}
  BY <1>3, OwnersDiffer
<1> QED BY <1>5, <1>6, <1>7, <1>8 DEF NoCrossLink

\* No two files, no file and operation, and no two operations have a cluster
\* in common, and no cluster that has an owner can be allocated.
THEOREM NeverCrossLinked == ASSUME Sound PROVE Spec => []NoCrossLink
<1>1. IInv /\ Owned => NoCrossLink
  BY OwnedApart
<1> QED
  BY Inductive, EveryClusterOwned, <1>1, PTL

\* No operation falls off a chain: find_cluster and do_rw_op stop where the size
\* they read long before ends, and a chain that is freed ends where its file did.
THEOREM WalksStayInside == ASSUME Sound PROVE Spec => []WalksInside
<1>1. IInv /\ Owned => WalksInside
  <2> SUFFICES ASSUME IInv, Owned, NEW t \in Threads
               PROVE  /\ pc[t] = "walk" /\ job[t].hops > 0 => next[job[t].cur] \in Clusters
                      /\ pc[t] = "collect" => job[t].at # Random
    BY DEF WalksInside
  <2>1. PICK own, pos : Shape(own, pos)
    BY DEF Owned
  <2>2. CurShape(own, pos, t) /\ JobShape(own, pos, t)
    BY <2>1 DEF Shape
  <2>3. ASSUME pc[t] = "walk", job[t].hops > 0 PROVE next[job[t].cur] \in Clusters
    <3>0. PICK h, cur, hops, goal, size :
            /\ h = handle[t] /\ cur = job[t].cur /\ hops = job[t].hops /\ size = job[t].size
            /\ goal = EofHops(Lesser(job[t].arg, size))
      OBVIOUS
    <3>1. /\ cur \in Clusters /\ hops \in Nat /\ job[t].arg \in Nat /\ size \in Nat
      BY <3>0, JobFields, LevelAssumption DEF IInv, TypeOK
    <3>2. InFile(t)
      BY <2>3 DEF InFile, AfterGetSize
    <3>3. h \in Indices /\ bft[h].name # NoName /\ Extent(h) = Ext(size)
      BY <2>3, <3>0, <3>2, InsideFile
    <3>4. own[cur] = File(h) /\ pos[cur] + hops = goal
      BY <2>2, <2>3, <3>0 DEF CurShape
    <3>5. goal \in Nat /\ goal + 1 <= Ext(size) /\ Ext(size) \in Nat
      BY <3>0, <3>1, GoalInside, ExtOf
    <3>6. pos[cur] \in Nat /\ FileShape(own, pos, h)
      BY <2>1, <3>1, <3>3 DEF Shape
    <3>7. pos[cur] + 1 < Extent(h)
      BY <2>3, <3>0, <3>1, <3>3, <3>4, <3>5, <3>6
    <3> QED BY <3>0, <3>1, <3>3, <3>4, <3>6, <3>7 DEF FileShape
  <2>4. ASSUME pc[t] = "collect" PROVE job[t].at # Random
    <3>1. Random \notin Clusters /\ EOF # Random
      BY LevelAssumption DEF Clusters
    <3>2. job[t].kind \in {"unlink", "ftruncate"}
      BY <2>4 DEF IInv, Rest, KindOK, KindAt
    <3>3. CASE job[t].kind = "unlink"
      BY <2>2, <2>4, <3>1, <3>3 DEF JobShape, Unlinking, Growing, UnlinkShape
    <3>4. CASE job[t].kind = "ftruncate"
      BY <2>2, <2>4, <3>1, <3>4 DEF CurShape, Truncating, TailShape
    <3> QED BY <3>2, <3>3, <3>4
  <2> QED BY <2>3, <2>4
<1> QED
  BY Inductive, EveryClusterOwned, <1>1, PTL

\* Whose clusters an operation accesses: its own or those of the file it has
\* locked.
LEMMA Accesses ==
  ASSUME IInv, NEW t \in Threads, NEW own, NEW pos, Shape(own, pos)
  PROVE  /\ \A c \in WritesTo(t) :
              \/ own[c] = Job(t)
              \/ own[c] = File(handle[t]) /\ InFile(t) /\ job[t].kind # "read"
         /\ \A c \in ReadsFrom(t) :
              own[c] = Job(t) \/ (own[c] = File(handle[t]) /\ InFile(t))
<1>1. CurShape(own, pos, t) /\ JobShape(own, pos, t) /\ KindAt(t) /\ job[t].list \in Seq(Clusters)
  BY JobFields DEF Shape, IInv, TypeOK, Rest, KindOK
<1>2. ASSUME NEW c \in WritesTo(t)
      PROVE  \/ own[c] = Job(t)
             \/ own[c] = File(handle[t]) /\ InFile(t) /\ job[t].kind # "read"
  <2>1. CASE pc[t] = "fill"
    <3>1. c \in Elements(job[t].list) /\ Growing(t)
      BY <1>2, <2>1 DEF WritesTo, Growing
    <3>2. c \in Clusters
      BY <1>1, <3>1, ElementsType
    <3> QED BY <3>1, <3>2, InList
  <2>2. CASE pc[t] \in {"hook", "cut"}
    BY <1>1, <1>2, <2>2 DEF WritesTo, CurShape, InFile, AfterGetSize, KindAt
  <2>3. CASE pc[t] = "walk" /\ job[t].kind = "write"
    BY <1>1, <1>2, <2>3 DEF WritesTo, CurShape, InFile, AfterGetSize
  <2> QED BY <1>2, <2>1, <2>2, <2>3 DEF WritesTo
<1>3. ASSUME NEW c \in ReadsFrom(t)
      PROVE  own[c] = Job(t) \/ (own[c] = File(handle[t]) /\ InFile(t))
  <2>1. CASE pc[t] = "walk"
    BY <1>1, <1>3, <2>1 DEF ReadsFrom, CurShape, InFile, AfterGetSize
  <2>2. CASE pc[t] = "collect"
    <3>1. c = job[t].at /\ c \in Clusters /\ c # EOF
      BY <1>3, <2>2, LevelAssumption DEF ReadsFrom, Clusters
    <3>2. CASE job[t].kind = "unlink"
      BY <1>1, <2>2, <3>1, <3>2 DEF JobShape, Unlinking, Growing, UnlinkShape
    <3>3. CASE job[t].kind = "ftruncate"
      BY <1>1, <2>2, <3>1, <3>3 DEF CurShape, Truncating, TailShape, InFile
    <3> QED BY <1>1, <2>2, <3>2, <3>3 DEF KindAt
  <2> QED BY <1>3, <2>1, <2>2 DEF ReadsFrom
<1> QED BY <1>2, <1>3

\* Between the read of a cluster and its writing back, for which the disk's lock
\* is not held, no other thread reads or writes that cluster.
THEOREM ClustersNotRaced == ASSUME Sound PROVE Spec => []NoClusterRace
<1>1. IInv /\ Owned => NoClusterRace
  <2> SUFFICES ASSUME IInv, Owned, NEW t \in Threads, NEW u \in Threads \ {t},
                      NEW c \in WritesTo(t), c \in WritesTo(u) \cup ReadsFrom(u)
               PROVE  FALSE
    BY DEF NoClusterRace
  <2>1. PICK own, pos : Shape(own, pos)
    BY DEF Owned
  <2>2. \/ own[c] = Job(t)
        \/ own[c] = File(handle[t]) /\ InFile(t) /\ job[t].kind # "read"
    BY <2>1, Accesses
  <2>3. own[c] = Job(u) \/ (own[c] = File(handle[u]) /\ InFile(u))
    BY <2>1, Accesses
  <2>4. /\ own[c] = File(handle[t]) /\ InFile(t) /\ job[t].kind # "read"
        /\ own[c] = File(handle[u]) /\ InFile(u)
    BY <2>2, <2>3, OwnersDiffer
  <2>5. handle[t] = handle[u]
    BY <2>4, OwnersDiffer
  <2>6. Alone(t, {handle[t]})
    BY <2>4, WriterAlone
  <2> QED BY <2>4, <2>5, <2>6 DEF Alone
<1> QED
  BY Inductive, EveryClusterOwned, <1>1, PTL

\* Every cluster that is in use belongs to a file or to an operation, so each
\* comes back, if every cluster can be read and no allocation of two clusters or
\* more runs out of space.
THEOREM NothingLeaks ==
  ASSUME Sound, "read" \notin Faults
  PROVE  Spec /\ []Enough => []NoLeak
<1>1. IInv /\ IInv' /\ OwnedTight /\ Enough /\ [Next]_vars => OwnedTight'
  BY OwnedTightStep DEF Frugal
<1>2. IInv /\ OwnedTight => NoLeak
  <2> SUFFICES ASSUME IInv, OwnedTight, NEW c \in bitmap
               PROVE  \/ \E i \in Files : c \in FileClusters(i)
                      \/ \E t \in Threads : c \in JobClusters(t)
    BY DEF NoLeak
  <2>1. PICK own, pos : Shape(own, pos) /\ Tight(own)
    BY DEF OwnedTight
  <2>2. c \in Clusters
    BY DEF IInv, TypeOK
  <2>3. own[c] \in Owners /\ own[c] # Nobody
    BY <2>1, <2>2 DEF Shape, Tight
  <2>4. CASE \E i \in Indices : own[c] = File(i)
    <3>1. PICK i \in Indices : own[c] = File(i)
      BY <2>4
    <3>2. FileShape(own, pos, i)
      BY <2>1 DEF Shape
    <3>3. i \in Files
      BY <2>2, <3>1, <3>2 DEF FileShape, Files
    <3> QED BY <2>1, <2>2, <3>1, <3>3, FileClustersAre
  <2>5. CASE \E t \in Threads : own[c] = Job(t)
    BY <2>1, <2>2, <2>5, JobClustersAre
  <2> QED BY <2>3, <2>4, <2>5 DEF Owners
<1> QED
  BY Inductive, InitOwned, <1>1, <1>2, PTL DEF Spec

\* FileClustersAre, for a state and for the one after it.
ClustersKnown ==
  \A own, pos : Shape(own, pos) =>
    \A i \in Files : FileClusters(i) = {c \in Clusters : own[c] = File(i)}

\* While a thread reads a file, from its lock to its unlock, neither the size
\* of the file nor any of its clusters changes.
THEOREM ReadersAreIsolated == ASSUME Sound PROVE Spec => ReadersIsolated
<1>1. IInv => ClustersKnown
  BY FileClustersAre DEF ClustersKnown
<1>2. IInv /\ IInv' /\ Owned /\ ClustersKnown /\ ClustersKnown' /\ [Next]_vars =>
        [\A i \in Files : readers[i] \cap readers'[i] # {} =>
           /\ bft'[i].size = bft[i].size
           /\ FileClusters(i)' = FileClusters(i)]_vars
  <2> SUFFICES ASSUME IInv, IInv', Owned, ClustersKnown, ClustersKnown', [Next]_vars,
                      NEW i \in Files, readers[i] # {}
               PROVE  /\ bft'[i].size = bft[i].size
                      /\ FileClusters(i)' = FileClusters(i)
    OBVIOUS
  <2>1. PICK own, pos : Shape(own, pos)
    BY DEF Owned
  <2>2. Goes(own)
    BY <2>1, BoxNextGoes
  <2>3. PICK own2, pos2 :
          /\ Shape(own2, pos2)'
          /\ \A k \in Indices : readers[k] # {} =>
               /\ bft'[k].size = bft[k].size
               /\ bft'[k].name # NoName <=> bft[k].name # NoName
               /\ \A c \in Clusters : own2[c] = File(k) <=> own[c] = File(k)
    BY <2>2 DEF Goes
  <2>4. i \in Indices /\ bft[i].name # NoName
    BY DEF Files
  <2>5. /\ bft'[i].size = bft[i].size /\ bft'[i].name # NoName
        /\ \A c \in Clusters : own2[c] = File(i) <=> own[c] = File(i)
    BY <2>3, <2>4
  <2>6. FileClusters(i) = {c \in Clusters : own[c] = File(i)}
    BY <2>1 DEF ClustersKnown
  <2>7. i \in Files'
    BY <2>4, <2>5 DEF Files
  <2>8. FileClusters(i)' = {c \in Clusters : own2[c] = File(i)}
    BY <2>3, <2>7 DEF ClustersKnown
  <2> QED BY <2>5, <2>6, <2>8
<1> QED
  BY Inductive, EveryClusterOwned, <1>1, <1>2, PTL DEF Spec, ReadersIsolated
=============================================================================
