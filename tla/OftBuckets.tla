----------------------------- MODULE OftBuckets -----------------------------
(***************************************************************************)
(* The hash table inside the open file table (src/src/oft.c): buckets of   *)
(* chained objects that are doubled when there would be more objects than  *)
(* buckets.  OpenFileTable searches and changes the set of the objects     *)
(* that are chained; here each of its steps that does so changes the       *)
(* chains the way oft_insert and oft_remove do.                            *)
(*                                                                         *)
(* A failing calloc makes bs_oft_get undo what it did and return: no step. *)
(***************************************************************************)
EXTENDS OpenFileTable, SequencesExt

CONSTANT InitialBuckets   \* OFT_INITIAL_BUCKET_COUNT

ASSUME BucketAssumption ==
  InitialBuckets \in Nat \ {0} /\ Indices \subseteq Nat

VARIABLES buckets,        \* table->buckets: the objects of each chain in order
          bucketCount,    \* table->bucket_count
          size            \* table->size

bucketVars == <<vars, buckets, bucketCount, size>>

EmptyBuckets(n) == [b \in 0 .. n - 1 |-> <<>>]

\* bucket_of; the count is a power of 2.
BucketOf(i, n) == i % n

\* oft_do_insert: the object becomes the first of its chain.
Inserted(chains, n, a, idx) ==
  [chains EXCEPT ![BucketOf(idx[a], n)] = <<a>> \o @]

\* Mutant of Moved: of a chain only the head is moved.
MovedHead(chains, n, chain) ==
  IF chain = <<>> THEN chains ELSE Inserted(chains, n, Head(chain), index)

\* The inner loop of oft_rehash: the objects of a chain are inserted one by one.
Moved(chains, n, chain) ==
  LET moved[k \in 0 .. Len(chain)] ==
        IF k = 0 THEN chains ELSE Inserted(moved[k - 1], n, chain[k], index)
  IN  moved[Len(chain)]

\* oft_rehash: the chains are moved bucket by bucket.
Rehashed(n) ==
  LET rehashed[b \in 0 .. bucketCount] ==
        IF b = 0 THEN EmptyBuckets(n) ELSE Moved(rehashed[b - 1], n, buckets[b - 1])
  IN  rehashed[bucketCount]

\* oft_insert
Insert(a) ==
  /\ IF size + 1 > bucketCount
       THEN /\ bucketCount' = 2 * bucketCount
            /\ buckets' = Inserted(Rehashed(2 * bucketCount), 2 * bucketCount, a, index')
       ELSE buckets' = Inserted(buckets, bucketCount, a, index') /\ UNCHANGED bucketCount
  /\ size' = size + 1

\* oft_remove of an object that its chain holds.
Unchain(a) ==
  /\ buckets' = [buckets EXCEPT ![BucketOf(index[a], bucketCount)] = RemoveFirst(@, a)]
  /\ size' = size - 1
  /\ UNCHANGED bucketCount

BucketInit ==
  /\ Init
  /\ buckets = EmptyBuckets(InitialBuckets)
  /\ bucketCount = InitialBuckets
  /\ size = 0

KeepBuckets == UNCHANGED <<buckets, bucketCount, size>>

BucketNext == \E t \in Threads :
  \/ \E i \in Indices : \/ GetFound(t, i) /\ KeepBuckets
                        \/ GetNew(t, i) /\ Insert(file'[t])
  \/ ReleaseDec(t) /\ KeepBuckets
  \/ ReleaseRecheck(t) /\ IF table' = table THEN KeepBuckets ELSE Unchain(file[t])
  \/ Destroy(t) /\ KeepBuckets

BucketSpec == BucketInit /\ [][BucketNext]_bucketVars /\ Fairness

----------------------------------------------------------------------------
Chained == UNION {ToSet(buckets[b]) : b \in DOMAIN buckets}

\* oft_find: the first object with the index in the chain of the index's bucket.
Find(i) ==
  LET chain == buckets[BucketOf(i, bucketCount)]
  IN  {chain[k] : k \in {j \in DOMAIN chain :
         index[chain[j]] = i /\ \A l \in 1 .. j - 1 : index[chain[l]] # i}}

\* oft_find walks the chain of one bucket only: it finds the object that the
\* table has for the index, over every rehash, and a removal takes out that
\* object and no other.  No chain links an object twice, and the load factor
\* holds, which is what oft_insert decides on.
ChainsAreTable ==
  /\ \A i \in Indices : Find(i) = Found(i)
  /\ Chained = table
  /\ \A b \in DOMAIN buckets :
       \A k \in DOMAIN buckets[b] : BucketOf(index[buckets[b][k]], bucketCount) = b
  /\ \A b \in DOMAIN buckets : IsInjective(buckets[b])
  /\ size = Cardinality(table) /\ size <= bucketCount
=============================================================================
