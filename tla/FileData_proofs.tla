--------------------------- MODULE FileData_proofs ---------------------------
(***************************************************************************)
(* A file is an array of bytes: the proof that FileData implements         *)
(* FileSpec, for every cluster size, number of clusters and offset.        *)
(*                                                                         *)
(* An operation takes effect when it commits its size, but for a write,    *)
(* which changes the bytes the file already has one cluster at a time, and *)
(* for a truncation that frees clusters, which has happened when the chain *)
(* is cut.  The invariant says how far the operation is: which of the      *)
(* bytes are copied, what the new clusters hold, and that the chain is as  *)
(* long as the size that will be committed.                                *)
(***************************************************************************)
EXTENDS FileData, SequenceTheorems, TLAPS

\* The clusters a file of n bytes has: one before it has a byte.
Ext(n) == Greater(1, Required(n))

\* The byte at an offset of a chain, where find_cluster leads.
Cell(chain, i) == chain[1 + i \div DataSize][i % DataSize]
At(i) == Cell(blocks, i)

\* The first n bytes of the caller's buffer are in the file.
Written(n) == \A i \in job.off .. job.off + n - 1 : At(i) = Byte(i - job.off)

Begun == pc # "idle" =>
  /\ job.kind \in Kinds
  /\ job.off + job.len <= MaxEnd
  /\ job.kind = "ftruncate" <=> job.len = 0
  /\ pc = "size" => job.overlap = 0 /\ job.done = 0

BufferInv == got # <<>> => pc = "idle" \/ (pc = "rw" /\ job.kind = "read")

\* The new clusters are filled in the order of the file.
FreshInv ==
  /\ pc \notin {"fill", "hook"} => fresh = <<>>
  /\ pc = "fill" => Len(fresh) = job.done /\ job.done < NewCount
  /\ pc = "hook" => Len(fresh) = NewCount
  /\ \A k \in 1 .. Len(fresh) : fresh[k] = FilledBlock(Room + (k - 1) * DataSize)

\* Every cluster is in the chain, free, in the list of a write, or lost.
LengthInv == Len(blocks) = Ext(IF pc = "commit" THEN NewSize ELSE size)
FreeInv ==
  /\ free + Len(blocks) <= ClusterCount
  /\ pc \in {"fill", "hook"} => free + Len(blocks) + NewCount <= ClusterCount

\* do_rw_op has copied job.done bytes and is at the next one.
RwInv == pc = "rw" =>
  /\ job.kind \in {"read", "write"}
  /\ job.off < size /\ job.overlap = FittedLen(job.off, job.len)
  /\ job.done < job.overlap
  /\ job.at * DataSize + job.local = job.off + job.done
  /\ job.kind = "write" => Written(job.done)
  /\ job.kind = "read" => /\ Len(got) = job.done
                          /\ \A k \in 1 .. job.done : got[k] = At(job.off + k - 1)

\* bs_do_write_extend is at the last cluster of the file, up to which all is written.
ExtendInv == pc \in {"extend", "fill", "hook"} =>
  /\ job.kind # "read" /\ size < NewSize /\ job.at + 1 = Ext(size)
  /\ job.kind = "write" => job.overlap = FittedLen(job.off, job.len) /\ Written(job.overlap)

ShrinkInv == pc = "shrink" =>
  job.kind = "ftruncate" /\ job.off < size /\ job.at + 1 = Ext(job.off)

\* What the size is committed for has been done: the data is written, and the
\* rest of what the file grew by is zeros.
CommitInv == pc = "commit" =>
  /\ job.kind # "read"
  /\ job.kind = "write" => Written(job.len)
  /\ job.kind = "fallocate" => size < NewSize
  /\ \A i \in size .. NewSize - 1 : At(i) = 0 \/ (job.kind = "write" /\ job.off <= i)

IInv == /\ TypeOK
        /\ Begun /\ BufferInv /\ FreshInv /\ LengthInv /\ FreeInv
        /\ RwInv /\ ExtendInv /\ ShrinkInv /\ CommitInv

----------------------------------------------------------------------------
(* Quotients and remainders *)

\* The bounds of a quotient.
LEMMA DivMod ==
  ASSUME NEW a \in Nat, NEW b \in Nat \ {0}
  PROVE  /\ a \div b \in Nat /\ a % b \in 0 .. b - 1
         /\ a = (a \div b) * b + (a % b)
OBVIOUS

\* Products grow with their factors.
LEMMA Monotone ==
  ASSUME NEW a \in Nat, NEW b \in Nat, NEW c \in Nat, a <= b
  PROVE  a * c <= b * c
OBVIOUS

\* A product of naturals is one.
LEMMA ProductType ==
  ASSUME NEW a \in Nat, NEW b \in Nat
  PROVE  a * b \in Nat
OBVIOUS

\* Blocks of b numbers each do not meet.
LEMMA SameBlock ==
  ASSUME NEW p \in Nat, NEW q \in Nat, NEW b \in Nat \ {0},
         NEW m \in 0 .. b - 1, NEW n \in 0 .. b - 1, p * b + m = q * b + n
  PROVE  p = q /\ m = n
<1>1. ASSUME NEW x \in Nat, NEW y \in Nat, NEW k \in 0 .. b - 1, NEW l \in 0 .. b - 1,
             x * b + k = y * b + l
      PROVE  ~(x < y)
  <2> SUFFICES ASSUME x < y PROVE FALSE
    OBVIOUS
  <2>1. (x + 1) * b <= y * b
    BY Monotone
  <2>2. (x + 1) * b = x * b + b
    OBVIOUS
  <2>3. x * b \in Nat /\ y * b \in Nat
    BY ProductType
  <2> QED BY <1>1, <2>1, <2>2, <2>3
<1>2. p = q
  BY <1>1
<1>3. p * b \in Nat
  BY ProductType
<1> QED BY <1>2, <1>3

\* Quotient and remainder are the numbers that divide so.
LEMMA Decompose ==
  ASSUME NEW q \in Nat, NEW b \in Nat \ {0}, NEW m \in 0 .. b - 1
  PROVE  /\ q * b + m \in Nat
         /\ (q * b + m) \div b = q /\ (q * b + m) % b = m
<1>1. PICK a \in Nat : a = q * b + m
  BY ProductType
<1>2. PICK p \in Nat, n \in 0 .. b - 1 : p = a \div b /\ n = a % b /\ a = p * b + n
  BY DivMod
<1>3. p = q /\ n = m
  BY <1>1, <1>2, SameBlock
<1> QED BY <1>1, <1>2, <1>3

\* A quotient grows with the dividend.
LEMMA DivMonotone ==
  ASSUME NEW a \in Nat, NEW c \in Nat, NEW b \in Nat \ {0}, a <= c
  PROVE  a \div b <= c \div b
<1>1. PICK p \in Nat, m \in 0 .. b - 1 : p = a \div b /\ a = p * b + m
  BY DivMod
<1>2. PICK q \in Nat, n \in 0 .. b - 1 : q = c \div b /\ c = q * b + n
  BY DivMod
<1>3. ~(q < p)
  <2> SUFFICES ASSUME q < p PROVE FALSE
    OBVIOUS
  <2>1. (q + 1) * b <= p * b
    BY Monotone
  <2>2. (q + 1) * b = q * b + b
    OBVIOUS
  <2>3. p * b \in Nat /\ q * b \in Nat
    BY ProductType
  <2> QED BY <1>1, <1>2, <2>1, <2>2, <2>3
<1> QED BY <1>1, <1>2, <1>3

----------------------------------------------------------------------------
(* How many clusters a size takes *)

\* The offset of a byte, split as find_cluster splits it.
LEMMA Split ==
  ASSUME NEW i \in Nat
  PROVE  \E q \in Nat, m \in Positions :
           /\ q = i \div DataSize /\ m = i % DataSize
           /\ i = q * DataSize + m
BY DivMod, FileAssumption DEF Positions

\* The place of a byte in its cluster determines its offset.
LEMMA Joined ==
  ASSUME NEW q \in Nat, NEW m \in Positions
  PROVE  /\ q * DataSize + m \in Nat
         /\ (q * DataSize + m) \div DataSize = q /\ (q * DataSize + m) % DataSize = m
BY Decompose, FileAssumption DEF Positions

\* The last cluster of a file is the one of its last byte.
LEMMA ExtOf ==
  ASSUME NEW s \in Nat
  PROVE  /\ Ext(s) \in Nat \ {0}
         /\ Ext(s) = LastByte(s) \div DataSize + 1
         /\ s # 0 => Required(s) = Ext(s)
         /\ LastByte(s) \in Nat /\ LastByte(s) \div DataSize \in Nat
<1>1. CASE s = 0
  <2>1. PICK m \in Positions : m = DataSize - 1
    BY FileAssumption DEF Positions
  <2>2. 0 * DataSize + m = s + DataSize - 1 /\ 0 * DataSize + 0 = 0 /\ 0 \in Positions
    BY <1>1, <2>1, FileAssumption DEF Positions
  <2>3. (s + DataSize - 1) \div DataSize = 0 /\ 0 \div DataSize = 0
    BY <2>2, Joined
  <2> QED BY <1>1, <2>3 DEF Ext, LastByte, Required, Greater
<1>2. CASE s # 0
  <2>1. s - 1 \in Nat
    BY <1>2
  <2>2. PICK q \in Nat, m \in Positions : q = (s - 1) \div DataSize /\ s - 1 = q * DataSize + m
    BY <2>1, Split
  <2>3. ((q + 1) * DataSize + m) \div DataSize = q + 1
    BY Joined
  <2>4. (q + 1) * DataSize + m = s + DataSize - 1
    <3>1. (q + 1) * DataSize = q * DataSize + DataSize /\ q * DataSize \in Nat
      BY FileAssumption, ProductType
    <3> QED BY <2>2, <3>1, FileAssumption DEF Positions
  <2>5. Required(s) = q + 1
    BY <2>3, <2>4 DEF Required
  <2> QED BY <1>2, <2>1, <2>2, <2>5 DEF Ext, LastByte, Greater
<1> QED BY <1>1, <1>2

\* A longer file has no fewer clusters.
LEMMA ExtMonotone ==
  ASSUME NEW s \in Nat, NEW u \in Nat, s <= u
  PROVE  Ext(s) <= Ext(u)
<1>1. LastByte(s) \in Nat /\ LastByte(u) \in Nat /\ LastByte(s) <= LastByte(u)
  BY DEF LastByte
<1>2. LastByte(s) \div DataSize <= LastByte(u) \div DataSize
  BY <1>1, DivMonotone, FileAssumption
<1> QED BY <1>2, ExtOf

\* A byte before the end of a file is in one of its clusters, and all of them
\* hold no less than the file has.
LEMMA InExtent ==
  ASSUME NEW s \in Nat
  PROVE  /\ \A i \in 0 .. s - 1 : i \div DataSize \in 0 .. Ext(s) - 1
         /\ s <= DataSize * Ext(s)
<1>1. ASSUME NEW i \in 0 .. s - 1 PROVE i \div DataSize \in 0 .. Ext(s) - 1
  <2>1. i \in Nat /\ s # 0 /\ LastByte(s) = s - 1 /\ i <= LastByte(s) /\ LastByte(s) \in Nat
    BY DEF LastByte
  <2>2. i \div DataSize <= LastByte(s) \div DataSize /\ i \div DataSize \in Nat
    BY <2>1, DivMonotone, DivMod, FileAssumption
  <2> QED BY <2>2, ExtOf
<1>2. s <= DataSize * Ext(s)
  <2>1. CASE s = 0
    <3>1. Ext(s) \in Nat
      BY ExtOf
    <3>2. DataSize * Ext(s) \in Nat
      BY <3>1, ProductType, FileAssumption
    <3> QED BY <2>1, <3>2
  <2>2. CASE s # 0
    <3>1. s - 1 \in Nat /\ LastByte(s) = s - 1
      BY <2>2 DEF LastByte
    <3>2. PICK q \in Nat, m \in Positions : q = (s - 1) \div DataSize /\ s - 1 = q * DataSize + m
      BY <3>1, Split
    <3>3. Ext(s) = q + 1
      BY <3>1, <3>2, ExtOf
    <3>4. DataSize * (q + 1) = q * DataSize + DataSize /\ q * DataSize \in Nat
      BY FileAssumption, ProductType
    <3> QED BY <3>2, <3>3, <3>4, FileAssumption DEF Positions
  <2> QED BY <2>1, <2>2
<1> QED BY <1>1, <1>2

\* Where a file ends: in its last cluster, at get_local_eof_off.
LEMMA EndsAt ==
  ASSUME NEW s \in Nat
  PROVE  \E q \in Nat : /\ Ext(s) = q + 1
                        /\ LocalEof(s) \in 0 .. DataSize /\ DataSize - LocalEof(s) \in 0 .. DataSize
                        /\ s = q * DataSize + LocalEof(s)
                        /\ q * DataSize \in Nat
<1>1. CASE s = 0
  <2>1. LastByte(s) = 0 /\ LocalEof(s) = 0
    BY <1>1 DEF LastByte, LocalEof
  <2>2. 0 \in Positions /\ 0 * DataSize + 0 = 0 /\ 0 * DataSize = 0
    BY FileAssumption DEF Positions
  <2>3. 0 \div DataSize = 0
    BY <2>2, Joined
  <2>4. Ext(s) = 0 + 1
    BY <2>1, <2>3, ExtOf
  <2>5. PICK q \in Nat : q = 0
    OBVIOUS
  <2>6. q * DataSize = 0 /\ Ext(s) = q + 1
    BY <2>2, <2>4, <2>5
  <2>7. LocalEof(s) \in 0 .. DataSize /\ DataSize - LocalEof(s) \in 0 .. DataSize
    BY <2>1, FileAssumption
  <2>8. s = q * DataSize + LocalEof(s) /\ q * DataSize \in Nat
    BY <1>1, <2>1, <2>6
  <2> QED BY <2>6, <2>7, <2>8
<1>2. CASE s # 0
  <2>1. s - 1 \in Nat /\ LastByte(s) = s - 1
    BY <1>2 DEF LastByte
  <2>2. PICK q \in Nat, m \in Positions : /\ q = (s - 1) \div DataSize /\ m = (s - 1) % DataSize
                                         /\ s - 1 = q * DataSize + m
    BY <2>1, Split
  <2>3. Ext(s) = q + 1 /\ LocalEof(s) = m + 1 /\ q * DataSize \in Nat
    BY <1>2, <2>1, <2>2, ExtOf, ProductType, FileAssumption DEF LocalEof
  <2> QED BY <2>2, <2>3, FileAssumption DEF Positions
<1> QED BY <1>1, <1>2

\* bs_do_write_extend allocates just the clusters that the new size needs.
LEMMA ExtGrows ==
  ASSUME NEW s \in Nat, NEW u \in Nat, s < u
  PROVE  LET n == ((u - s) - (DataSize - LocalEof(s)) + DataSize - 1) \div DataSize
         IN  n \in Nat /\ Ext(u) = Ext(s) + n
<1> DEFINE x == (u - s) - (DataSize - LocalEof(s)) + DataSize - 1
<1>1. PICK q \in Nat : /\ Ext(s) = q + 1 /\ LocalEof(s) \in 0 .. DataSize
                       /\ s = q * DataSize + LocalEof(s) /\ q * DataSize \in Nat
  BY EndsAt
<1>2. u - 1 \in Nat /\ LastByte(u) = u - 1
  BY DEF LastByte
<1>3. PICK p \in Nat, m \in Positions : p = (u - 1) \div DataSize /\ u - 1 = p * DataSize + m
  BY <1>2, Split
<1>4. Ext(u) = p + 1
  BY <1>2, <1>3, ExtOf
<1>5. q <= p
  BY <1>1, <1>4, ExtMonotone
<1>6. PICK d \in Nat : p = q + d
  <2>1. p - q \in Nat /\ p = q + (p - q)
    BY <1>5
  <2> QED BY <2>1
<1>7. p * DataSize = q * DataSize + d * DataSize /\ d * DataSize \in Nat
  BY <1>6, FileAssumption, ProductType
<1>8. x = d * DataSize + m
  <2>1. PICK e \in 0 .. DataSize : e = LocalEof(s)
    BY <1>1
  <2>2. PICK a \in Nat, b \in Nat : a = q * DataSize /\ b = d * DataSize
    BY <1>1, <1>7
  <2>3. s = a + e /\ u - 1 = a + b + m /\ m \in 0 .. DataSize - 1
    BY <1>1, <1>3, <1>7, <2>1, <2>2 DEF Positions
  <2>4. x = (u - s) - (DataSize - e) + DataSize - 1
    BY <2>1
  <2>5. x = b + m
    BY <2>3, <2>4, FileAssumption
  <2> QED BY <2>2, <2>5
<1>9. x \div DataSize = d
  BY <1>8, Joined
<1> QED BY <1>1, <1>4, <1>6, <1>9

----------------------------------------------------------------------------
(* The invariant *)

\* A file starts with one cluster and no byte.
LEMMA InitIInv == Init => IInv
<1> SUFFICES ASSUME Init PROVE IInv
  OBVIOUS
<1>1. blocks \in Seq(Block) /\ Len(blocks) = 1
  BY DEF Init, Block, Bytes
<1>2. TypeOK
  BY <1>1, FileAssumption DEF Init, TypeOK, NoJob, Positions
<1>3. LengthInv
  <2>1. PICK z \in Nat : z = 0
    OBVIOUS
  <2>2. LastByte(z) = 0 /\ 0 \in Positions /\ 0 * DataSize + 0 = 0
    BY <2>1, FileAssumption DEF LastByte, Positions
  <2>3. 0 \div DataSize = 0
    BY <2>2, Joined
  <2>4. Ext(z) = 1
    BY <2>1, <2>2, <2>3, ExtOf
  <2> QED BY <1>1, <2>1, <2>4 DEF Init, LengthInv
<1> QED BY <1>1, <1>2, <1>3, FileAssumption DEF Init, IInv, Begun, BufferInv, FreshInv,
      FreeInv, RwInv, ExtendInv, ShrinkInv, CommitInv

\* The sizes and offsets are numbers.
LEMMA Numbers ==
  ASSUME IInv
  PROVE  /\ size \in Nat /\ job.off \in Nat /\ job.len \in Nat
         /\ size \in 0 .. MaxEnd /\ job.off \in 0 .. MaxEnd /\ job.len \in 0 .. MaxEnd
BY DEF IInv, TypeOK

\* Between two operations there is only the length of the chain to account for.
LEMMA Ended ==
  ASSUME TypeOK, NEW r \in {"ok", "error"}, Return(r),
         blocks' = blocks, size' \in 0 .. MaxEnd, Len(blocks) = Ext(size'),
         free' \in Nat, free' + Len(blocks) <= ClusterCount, got' \in Seq(Bytes)
  PROVE  IInv'
<1>1. pc' = "idle" /\ job' = NoJob /\ fresh' = <<>> /\ ret' = r
  BY DEF Return
<1>2. Len(blocks) \in Nat
  BY DEF TypeOK
<1>3. TypeOK'
  BY <1>1, <1>2, FileAssumption DEF TypeOK, NoJob, Positions
<1>4. LengthInv'
  BY <1>1 DEF LengthInv
<1>5. FreshInv' /\ Begun' /\ BufferInv'
  BY <1>1 DEF FreshInv, Begun, BufferInv
<1> QED BY <1>1, <1>3, <1>4, <1>5 DEF IInv, FreeInv, RwInv, ExtendInv, ShrinkInv, CommitInv

\* So does an operation that fails, with the clusters it has not lost free.
LEMMA Failed ==
  ASSUME IInv, pc # "commit", Fail, free' \in Nat, free' + Len(blocks) <= ClusterCount
  PROVE  IInv'
<1>1. TypeOK /\ Len(blocks) = Ext(size)
  BY DEF IInv, LengthInv
<1>2. Return("error") /\ got' = <<>> /\ size' = size /\ blocks' = blocks
  BY DEF Fail
<1>3. got' \in Seq(Bytes) /\ size' \in 0 .. MaxEnd /\ Len(blocks) = Ext(size')
  BY <1>1, <1>2 DEF TypeOK
<1> QED BY <1>1, <1>2, <1>3, Ended

\* An operation begins with its arguments.
LEMMA BeginIInv ==
  ASSUME IInv, NEW kind \in Kinds, NEW off \in 0 .. MaxEnd, NEW len \in 0 .. MaxEnd,
         Begin(kind, off, len)
  PROVE  IInv'
<1>1. /\ pc = "idle" /\ pc' = "size" /\ got' = <<>> /\ ret' = "none"
      /\ size' = size /\ blocks' = blocks /\ free' = free /\ fresh' = fresh
  BY DEF Begin
<1>2. /\ job'.kind = kind /\ job'.off = off /\ job'.len = len
      /\ job'.overlap = 0 /\ job'.done = 0
      /\ job' \in [kind : Kinds \cup {"none"}, off : 0 .. MaxEnd, len : 0 .. MaxEnd,
                   overlap : 0 .. MaxEnd, at : Nat, local : Positions, done : 0 .. MaxEnd]
  <2>1. job' = [kind |-> kind, off |-> off, len |-> len, overlap |-> 0,
                at |-> 0, local |-> 0, done |-> 0]
    BY DEF Begin, NoJob
  <2>2. 0 \in 0 .. MaxEnd /\ 0 \in Positions
    BY FileAssumption DEF Positions
  <2> QED BY <2>1, <2>2
<1>3. TypeOK'
  BY <1>1, <1>2 DEF IInv, TypeOK
<1>4. Begun'
  BY <1>1, <1>2 DEF Begun, Begin
<1>5. fresh' = <<>>
  BY <1>1 DEF IInv, FreshInv
<1>6. FreshInv' /\ BufferInv' /\ LengthInv' /\ FreeInv'
  BY <1>1, <1>5 DEF IInv, FreshInv, BufferInv, LengthInv, FreeInv
<1> QED BY <1>1, <1>3, <1>4, <1>6 DEF IInv, RwInv, ExtendInv, ShrinkInv, CommitInv

\* What find_cluster computes.
LEMMA Found ==
  ASSUME TypeOK, NEW byte \in Nat, FindCluster(byte)
  PROVE  /\ job'.kind = job.kind /\ job'.off = job.off /\ job'.len = job.len
         /\ job'.overlap = job.overlap /\ job'.done = job.done
         /\ job'.at = byte \div DataSize
         /\ job' \in [kind : Kinds \cup {"none"}, off : 0 .. MaxEnd, len : 0 .. MaxEnd,
                      overlap : 0 .. MaxEnd, at : Nat, local : Positions, done : 0 .. MaxEnd]
<1>1. PICK q \in Nat, m \in Positions : q = byte \div DataSize /\ m = byte % DataSize
  BY Split
<1>2. job' = [job EXCEPT !.at = q, !.local = m]
  BY <1>1 DEF FindCluster
<1> QED BY <1>1, <1>2 DEF TypeOK

\* A size that has been checked, and what an operation fits into it.
LEMMA Fitted ==
  ASSUME IInv, pc # "idle"
  PROVE  /\ size \in Nat /\ job.off \in Nat /\ job.len \in Nat
         /\ FittedLen(job.off, job.len) \in 0 .. MaxEnd
         /\ FittedLen(job.off, job.len) > 0 => job.off < size /\ FittedOff(job.off) = job.off
         /\ FittedLen(job.off, job.len) = 0 /\ job.len > 0 => size <= job.off
         /\ job.off <= size => FittedLen(job.off, job.len) = Lesser(job.len, size - job.off)
         /\ job.off > size => FittedLen(job.off, job.len) = 0
<1>1. size \in 0 .. MaxEnd /\ job.off \in 0 .. MaxEnd /\ job.len \in 0 .. MaxEnd
  BY DEF IInv, TypeOK
<1>2. PICK s \in Nat, off \in Nat, len \in 0 .. MaxEnd :
        s = size /\ off = job.off /\ len = job.len
  BY <1>1
<1>3. CASE off < s
  <2>1. FittedOff(off) = off /\ FittedLen(off, len) = Lesser(len, s - off)
    BY <1>2, <1>3 DEF FittedOff, FittedLen, Lesser
  <2> QED BY <1>2, <1>3, <2>1, FileAssumption DEF Lesser
<1>4. CASE s <= off
  <2>1. FittedOff(off) = s /\ FittedLen(off, len) = 0 /\ (s = off => Lesser(len, s - off) = 0)
    BY <1>2, <1>4 DEF FittedOff, FittedLen, Lesser
  <2> QED BY <1>2, <1>4, <2>1, FileAssumption
<1> QED BY <1>2, <1>3, <1>4

\* A read or a write begins with the bytes the file has.
LEMMA RwBegins ==
  ASSUME IInv, pc = "size", BeginRw, UNCHANGED <<size, blocks, free, got>>
  PROVE  IInv'
<1>1. /\ TypeOK /\ Begun /\ fresh = <<>> /\ got = <<>>
      /\ Len(blocks) = Ext(size) /\ free + Len(blocks) <= ClusterCount
  BY DEF IInv, FreshInv, BufferInv, LengthInv, FreeInv
<1>2. /\ job.kind \in {"read", "write"} /\ job.off + job.len <= MaxEnd /\ job.len > 0
      /\ job.overlap = 0 /\ job.done = 0 /\ size \in Nat
      /\ job.off \in 0 .. MaxEnd /\ job.len \in 0 .. MaxEnd
  <2>1. job.kind \in {"read", "write"} /\ job.len # 0 /\ job.len \in 0 .. MaxEnd
    BY <1>1 DEF BeginRw, Begun, TypeOK
  <2> QED BY <1>1, <2>1 DEF Begun, TypeOK
<1>3. size' = size /\ blocks' = blocks /\ free' = free /\ got' = got /\ fresh' = fresh
  BY DEF BeginRw
<1> DEFINE n == FittedLen(job.off, job.len)
<1>4. /\ n \in 0 .. MaxEnd
      /\ n > 0 => job.off < size /\ FittedOff(job.off) = job.off
      /\ n = 0 => size <= job.off
  BY <1>2, Fitted
<1>5. CASE /\ n > 0
           /\ job' = [job EXCEPT !.overlap = n, !.at = FittedOff(job.off) \div DataSize,
                                 !.local = FittedOff(job.off) % DataSize]
           /\ pc' = "rw" /\ UNCHANGED ret
  <2>1. PICK q \in Nat, m \in Positions : /\ q = job.off \div DataSize /\ m = job.off % DataSize
                                         /\ job.off = q * DataSize + m
    BY <1>2, Split
  <2>2. job' = [job EXCEPT !.overlap = n, !.at = q, !.local = m]
    BY <1>4, <1>5, <2>1
  <2>3. /\ job'.kind = job.kind /\ job'.off = job.off /\ job'.len = job.len
        /\ job'.overlap = n /\ job'.done = 0 /\ job'.at = q /\ job'.local = m
    BY <1>1, <1>2, <2>2 DEF TypeOK
  <2>4. TypeOK'
    <3> HIDE DEF n
    <3>1. job' \in [kind : Kinds \cup {"none"}, off : 0 .. MaxEnd, len : 0 .. MaxEnd,
                    overlap : 0 .. MaxEnd, at : Nat, local : Positions, done : 0 .. MaxEnd]
      BY <1>1, <1>4, <2>2 DEF TypeOK
    <3> QED BY <1>1, <1>3, <1>5, <3>1 DEF TypeOK
  <2>5. RwInv'
    <3>1. n' = n
      BY <1>3, <2>3 DEF FittedLen, FittedOff
    <3>2. FittedLen(job.off, job.len)' = n
      BY <3>1
    <3> HIDE DEF n
    <3>3. Written(job.done)'
      BY <1>2, <2>3 DEF Written
    <3>4. (job.at * DataSize + job.local = job.off + job.done)'
      BY <1>2, <2>1, <2>3
    <3>5. (Len(got) = job.done /\ \A k \in 1 .. job.done : got[k] = At(job.off + k - 1))'
      BY <1>1, <1>3, <2>3
    <3>6. n > 0
      BY <1>5
    <3> QED BY <1>2, <1>3, <1>4, <2>3, <3>2, <3>3, <3>4, <3>5, <3>6 DEF RwInv
  <2>6. Begun' /\ BufferInv' /\ FreshInv' /\ LengthInv' /\ FreeInv'
    BY <1>1, <1>3, <1>5, <2>3 DEF Begun, BufferInv, FreshInv, LengthInv, FreeInv
  <2> QED BY <1>5, <2>4, <2>5, <2>6 DEF IInv, ExtendInv, ShrinkInv, CommitInv
<1>6. CASE /\ n = 0 /\ job.kind = "write"
           /\ FindCluster(LastByte(size))
           /\ pc' = "extend" /\ UNCHANGED ret
  <2>1. LastByte(size) \in Nat /\ Ext(size) = LastByte(size) \div DataSize + 1
    BY <1>2, ExtOf
  <2>2. /\ job'.kind = job.kind /\ job'.off = job.off /\ job'.len = job.len
        /\ job'.overlap = job.overlap /\ job'.done = job.done
        /\ job'.at + 1 = Ext(size)
        /\ job' \in [kind : Kinds \cup {"none"}, off : 0 .. MaxEnd, len : 0 .. MaxEnd,
                     overlap : 0 .. MaxEnd, at : Nat, local : Positions, done : 0 .. MaxEnd]
    BY <1>1, <1>6, <2>1, Found
  <2>3. TypeOK'
    BY <1>1, <1>3, <1>6, <2>2 DEF TypeOK
  <2>4. ExtendInv'
    <3>1. n' = n
      BY <1>3, <2>2 DEF FittedLen, FittedOff
    <3>2. FittedLen(job.off, job.len)' = 0
      BY <3>1, <1>6
    <3>3. Written(0)'
      BY <1>2, <2>2 DEF Written
    <3>4. NewSize' = Greater(size, job.off + job.len)
      BY <1>3, <1>6, <2>2 DEF NewSize
    <3>5. size' < NewSize'
      BY <1>2, <1>3, <1>4, <1>6, <3>4 DEF Greater
    <3> QED BY <1>2, <1>3, <1>6, <2>2, <3>2, <3>3, <3>5 DEF ExtendInv
  <2>5. Begun' /\ BufferInv' /\ FreshInv' /\ LengthInv' /\ FreeInv'
    BY <1>1, <1>3, <1>6, <2>2 DEF Begun, BufferInv, FreshInv, LengthInv, FreeInv
  <2> QED BY <1>6, <2>3, <2>4, <2>5 DEF IInv, RwInv, ShrinkInv, CommitInv
<1>7. CASE Return("ok")
  BY <1>1, <1>3, <1>7, Ended DEF TypeOK
<1> QED BY <1>5, <1>6, <1>7 DEF BeginRw

\* A change of size begins with a search for the end of the file.
LEMMA ResizeBegins ==
  ASSUME IInv, pc = "size", BeginResize, UNCHANGED <<size, blocks, free, got>>
  PROVE  IInv'
<1>1. /\ TypeOK /\ Begun /\ fresh = <<>> /\ got = <<>>
      /\ Len(blocks) = Ext(size) /\ free + Len(blocks) <= ClusterCount
  BY DEF IInv, FreshInv, BufferInv, LengthInv, FreeInv
<1>2. /\ job.kind \in {"fallocate", "ftruncate"} /\ job.off + job.len <= MaxEnd
      /\ job.overlap = 0 /\ job.done = 0 /\ size \in 0 .. MaxEnd
      /\ job.off \in 0 .. MaxEnd /\ job.len \in 0 .. MaxEnd
      /\ job.kind = "ftruncate" => job.len = 0
  BY <1>1 DEF BeginResize, Begun, TypeOK
<1>3. size' = size /\ blocks' = blocks /\ free' = free /\ got' = got
  OBVIOUS
<1>4. CASE /\ job.off + job.len > size
           /\ FindCluster(LastByte(size))
           /\ pc' = "extend" /\ UNCHANGED <<fresh, ret>>
  <2>1. LastByte(size) \in Nat /\ Ext(size) = LastByte(size) \div DataSize + 1
    BY <1>2, ExtOf
  <2>2. /\ job'.kind = job.kind /\ job'.off = job.off /\ job'.len = job.len
        /\ job'.overlap = job.overlap /\ job'.done = job.done
        /\ job'.at + 1 = Ext(size)
        /\ job' \in [kind : Kinds \cup {"none"}, off : 0 .. MaxEnd, len : 0 .. MaxEnd,
                     overlap : 0 .. MaxEnd, at : Nat, local : Positions, done : 0 .. MaxEnd]
    BY <1>1, <1>4, <2>1, Found
  <2>3. TypeOK'
    BY <1>1, <1>3, <1>4, <2>2 DEF TypeOK
  <2>4. ExtendInv'
    <3>1. NewSize' = IF job.kind = "ftruncate" THEN job.off ELSE job.off + job.len
      BY <1>2, <2>2 DEF NewSize
    <3>2. size' < NewSize'
      BY <1>2, <1>3, <1>4, <3>1
    <3> QED BY <1>2, <1>3, <2>2, <3>2 DEF ExtendInv
  <2>5. Begun' /\ BufferInv' /\ FreshInv' /\ LengthInv' /\ FreeInv'
    BY <1>1, <1>3, <1>4, <2>2 DEF Begun, BufferInv, FreshInv, LengthInv, FreeInv
  <2> QED BY <1>4, <2>3, <2>4, <2>5 DEF IInv, RwInv, ShrinkInv, CommitInv
<1>5. CASE Return("ok")
  BY <1>1, <1>3, <1>5, Ended DEF TypeOK
<1>6. CASE /\ job.kind = "ftruncate" /\ job.off < size
           /\ FindCluster(LastByte(job.off))
           /\ pc' = "shrink" /\ UNCHANGED <<fresh, ret>>
  <2>1. LastByte(job.off) \in Nat /\ Ext(job.off) = LastByte(job.off) \div DataSize + 1
    BY <1>2, ExtOf
  <2>2. /\ job'.kind = job.kind /\ job'.off = job.off /\ job'.len = job.len
        /\ job'.overlap = job.overlap /\ job'.done = job.done
        /\ job'.at + 1 = Ext(job.off)
        /\ job' \in [kind : Kinds \cup {"none"}, off : 0 .. MaxEnd, len : 0 .. MaxEnd,
                     overlap : 0 .. MaxEnd, at : Nat, local : Positions, done : 0 .. MaxEnd]
    BY <1>1, <1>6, <2>1, Found
  <2>3. TypeOK'
    BY <1>1, <1>3, <1>6, <2>2 DEF TypeOK
  <2>4. ShrinkInv'
    BY <1>2, <1>3, <1>6, <2>2 DEF ShrinkInv
  <2>5. Begun' /\ BufferInv' /\ FreshInv' /\ LengthInv' /\ FreeInv'
    BY <1>1, <1>3, <1>6, <2>2 DEF Begun, BufferInv, FreshInv, LengthInv, FreeInv
  <2> QED BY <1>6, <2>3, <2>4, <2>5 DEF IInv, RwInv, ExtendInv, CommitInv
<1>7. CASE /\ job.kind = "ftruncate" /\ job.off < size
           /\ Required(job.off) = Required(size)
           /\ pc' = "commit" /\ UNCHANGED <<job, fresh, ret>>
  <2>1. NewSize' = job.off
    BY <1>7 DEF NewSize
  <2>2. Ext(job.off) = Ext(size)
    BY <1>7 DEF Ext
  <2>3. TypeOK'
    BY <1>1, <1>3, <1>7 DEF TypeOK
  <2>4. LengthInv'
    BY <1>1, <1>3, <1>7, <2>1, <2>2 DEF LengthInv
  <2>5. CommitInv'
    BY <1>2, <1>3, <1>7, <2>1 DEF CommitInv
  <2>6. Begun' /\ BufferInv' /\ FreshInv' /\ FreeInv'
    BY <1>1, <1>3, <1>7 DEF Begun, BufferInv, FreshInv, FreeInv
  <2> QED BY <1>7, <2>3, <2>4, <2>5, <2>6 DEF IInv, RwInv, ExtendInv, ShrinkInv
<1> QED BY <1>4, <1>5, <1>6, <1>7 DEF BeginResize

\* The size of the file decides what the operation does.
LEMMA GetSizeIInv == IInv /\ GetSize => IInv'
<1> SUFFICES ASSUME IInv, GetSize PROVE IInv'
  OBVIOUS
<1>1. pc = "size" /\ free' = free
  BY DEF GetSize
<1>2. CASE Fail
  <2>1. free' \in Nat /\ free' + Len(blocks) <= ClusterCount
    BY <1>1 DEF IInv, TypeOK, FreeInv
  <2> QED BY <1>1, <1>2, <2>1, Failed
<1>3. CASE (BeginRw \/ BeginResize) /\ UNCHANGED <<size, blocks, got>>
  BY <1>1, <1>3, RwBegins, ResizeBegins
<1> QED BY <1>2, <1>3 DEF GetSize

----------------------------------------------------------------------------
(* The bytes the file has already *)

\* The length of a round of do_rw_op, which ends in its cluster.
LEMMA Round ==
  ASSUME IInv, pc = "rw"
  PROVE  /\ Chunk \in 1 .. job.overlap - job.done /\ Chunk <= DataSize - job.local
         /\ job.done \in Nat /\ job.overlap \in 0 .. MaxEnd /\ job.local \in Positions
         /\ job.done + Chunk < job.overlap => Chunk = DataSize - job.local
         /\ job.off \in Nat /\ job.at \in Nat /\ size \in Nat
         /\ job.off + job.overlap <= size /\ job.overlap <= job.len
         /\ job.overlap # job.len => job.off + job.overlap = size
<1>1. PICK c \in Nat, d \in Nat, l \in Positions :
        c = job.overlap /\ d = job.done /\ l = job.local /\ d < c
  BY DEF IInv, TypeOK, RwInv
<1>2. Chunk \in 1 .. c - d /\ Chunk <= DataSize - l /\ (Chunk = c - d \/ Chunk = DataSize - l)
  BY <1>1, FileAssumption DEF Chunk, Lesser, Positions
<1>3. PICK s \in Nat, off \in Nat, len \in Nat : s = size /\ off = job.off /\ len = job.len /\ off < s
  <2>1. size \in Nat /\ job.off \in Nat /\ job.len \in Nat
    BY DEF IInv, TypeOK
  <2>2. job.off < size
    BY DEF IInv, RwInv
  <2> QED BY <2>1, <2>2
<1>4. c = Lesser(len, s - off)
  BY <1>1, <1>3, Fitted DEF IInv, RwInv
<1>5. off + c <= s /\ c <= len /\ (c # len => off + c = s)
  BY <1>1, <1>3, <1>4 DEF Lesser
<1>6. job.at \in Nat /\ job.overlap \in 0 .. MaxEnd
  BY DEF IInv, TypeOK
<1> QED BY <1>1, <1>2, <1>3, <1>5, <1>6

\* The bytes of a round are the next ones of the file, all in one cluster.
LEMMA RoundCells ==
  ASSUME IInv, pc = "rw"
  PROVE  /\ \A i \in Nat : job.off + job.done <= i /\ i < job.off + job.done + Chunk
              <=> /\ i \div DataSize = job.at
                  /\ job.local <= i % DataSize /\ i % DataSize < job.local + Chunk
         /\ \A i \in Nat : i \div DataSize = job.at
              => i - (job.off + job.done) = (i % DataSize) - job.local
<1> SUFFICES ASSUME NEW i \in Nat
             PROVE  /\ job.off + job.done <= i /\ i < job.off + job.done + Chunk
                         <=> /\ i \div DataSize = job.at
                             /\ job.local <= i % DataSize /\ i % DataSize < job.local + Chunk
                    /\ i \div DataSize = job.at
                         => i - (job.off + job.done) = (i % DataSize) - job.local
  OBVIOUS
<1>1. PICK c \in Nat, l \in Positions, a \in Nat :
        c = Chunk /\ l = job.local /\ a = job.at /\ c <= DataSize - l
  BY Round
<1>2. PICK b \in Nat : b = job.off + job.done /\ a * DataSize + l = b
  BY <1>1, Round DEF IInv, RwInv
<1>3. PICK q \in Nat, m \in Positions : /\ q = i \div DataSize /\ m = i % DataSize
                                       /\ i = q * DataSize + m
  BY Split
<1>4. ASSUME b <= i, i < b + c PROVE q = a /\ l <= m /\ m < l + c
  <2>1. PICK k \in Nat : k = l + (i - b)
    BY <1>4 DEF Positions
  <2>2. k \in Positions
    BY <1>1, <1>4, <2>1, FileAssumption DEF Positions
  <2>3. i = a * DataSize + k
    <3>1. PICK x \in Nat : x = a * DataSize
      BY ProductType, FileAssumption
    <3> QED BY <1>2, <2>1, <3>1 DEF Positions
  <2>4. q = a /\ m = k
    BY <1>3, <2>2, <2>3, SameBlock, FileAssumption DEF Positions
  <2> QED BY <1>4, <2>1, <2>4 DEF Positions
<1>5. ASSUME q = a PROVE i - b = m - l
  <2>1. PICK x \in Nat : x = a * DataSize
    BY ProductType, FileAssumption
  <2> QED BY <1>2, <1>3, <1>5, <2>1 DEF Positions
<1>6. ASSUME q = a, l <= m, m < l + c PROVE b <= i /\ i < b + c
  BY <1>1, <1>5, <1>6, FileAssumption DEF Positions
<1>7. job.off + job.done + Chunk = b + c
  BY <1>1, <1>2
<1> QED BY <1>1, <1>2, <1>3, <1>4, <1>5, <1>6, <1>7

\* A byte of the caller's buffer is one.
LEMMA ByteType ==
  ASSUME NEW x \in Int
  PROVE  Byte(x) \in Bytes
BY DEF Byte, Bytes

\* A byte before the end of the file is in its chain.
LEMMA InChain ==
  ASSUME TypeOK, NEW n \in Nat, Len(blocks) = Ext(n), NEW i \in 0 .. n - 1
  PROVE  /\ i \in Nat /\ i \div DataSize \in Nat /\ i % DataSize \in Positions
         /\ 1 + i \div DataSize \in 1 .. Len(blocks)
         /\ At(i) \in Bytes
<1>1. i \in Nat /\ i \div DataSize \in 0 .. Ext(n) - 1 /\ Ext(n) \in Nat \ {0}
  <2>1. i \div DataSize \in 0 .. Ext(n) - 1
    BY InExtent
  <2>2. Ext(n) \in Nat \ {0}
    BY ExtOf
  <2> QED BY <2>1, <2>2
<1>2. PICK q \in Nat, m \in Positions : q = i \div DataSize /\ m = i % DataSize
  BY <1>1, Split
<1>3. 1 + q \in 1 .. Len(blocks)
  BY <1>1, <1>2
<1>4. blocks[1 + q] \in [Positions -> Bytes]
  BY <1>3 DEF TypeOK, Block
<1>5. blocks[1 + q][m] \in Bytes
  BY <1>4
<1> QED BY <1>1, <1>2, <1>3, <1>5 DEF At, Cell

\* What a round reads are the next bytes of the file.
LEMMA ReadCells ==
  ASSUME IInv, pc = "rw", job.kind = "read", job.at < Len(blocks), NEW g
  PROVE  g = got \o [j \in 1 .. Chunk |-> blocks[job.at + 1][job.local + j - 1]] =>
           /\ g \in Seq(Bytes) /\ Len(g) = job.done + Chunk
           /\ \A k \in 1 .. job.done + Chunk : g[k] = At(job.off + k - 1)
<1>0. SUFFICES ASSUME g = got \o [j \in 1 .. Chunk |-> blocks[job.at + 1][job.local + j - 1]]
      PROVE  /\ g \in Seq(Bytes) /\ Len(g) = job.done + Chunk
             /\ \A k \in 1 .. job.done + Chunk : g[k] = At(job.off + k - 1)
  OBVIOUS
<1>1. PICK c \in Nat, l \in Positions, a \in Nat, d \in Nat, off \in Nat :
        /\ c = Chunk /\ l = job.local /\ a = job.at /\ d = job.done /\ off = job.off
        /\ c <= DataSize - l
  BY Round
<1>2. got \in Seq(Bytes) /\ Len(got) = d /\ \A k \in 1 .. d : got[k] = At(off + k - 1)
  BY <1>1 DEF IInv, TypeOK, RwInv
<1>3. PICK block : block = blocks[a + 1]
  OBVIOUS
<1>4. block \in [Positions -> Bytes]
  <2>1. a + 1 \in 1 .. Len(blocks) /\ blocks \in Seq(Block)
    BY <1>1 DEF IInv, TypeOK
  <2> QED BY <1>3, <2>1 DEF Block
<1>5. PICK h : h = [j \in 1 .. c |-> block[l + j - 1]]
  OBVIOUS
<1>6. h \in Seq(Bytes) /\ Len(h) = c
  <2>1. \A j \in 1 .. c : l + j - 1 \in Positions
    BY <1>1, FileAssumption DEF Positions
  <2>2. \A j \in 1 .. c : block[l + j - 1] \in Bytes
    BY <1>4, <2>1
  <2>3. h \in [1 .. c -> Bytes]
    BY <1>5, <2>2
  <2> QED BY <2>3
<1>7. g = got \o h
  BY <1>0, <1>1, <1>3, <1>5
<1>8. /\ g \in Seq(Bytes) /\ Len(g) = d + c
      /\ \A k \in 1 .. d + c : g[k] = IF k <= d THEN got[k] ELSE h[k - d]
  BY <1>2, <1>6, <1>7, ConcatProperties
<1>9. ASSUME NEW k \in 1 .. d + c PROVE g[k] = At(off + k - 1)
  <2>1. CASE k <= d
    BY <1>2, <1>8, <2>1
  <2>2. CASE d < k
    <3>1. PICK i \in Nat, j \in 1 .. c : i = off + k - 1 /\ j = k - d
      BY <2>2
    <3>2. g[k] = h[j]
      BY <1>8, <2>2, <3>1
    <3>3. PICK q \in Nat, m \in Positions : q = i \div DataSize /\ m = i % DataSize
      BY Split
    <3>4. off + d <= i /\ i < off + d + c
      BY <2>2, <3>1
    <3>5. q = a /\ i - (off + d) = m - l
      BY <1>1, <3>3, <3>4, RoundCells
    <3>6. m = l + j - 1
      BY <3>1, <3>5, FileAssumption DEF Positions
    <3>7. At(i) = block[m]
      BY <1>3, <3>3, <3>5 DEF At, Cell
    <3> QED BY <1>5, <3>1, <3>2, <3>6, <3>7
  <2> QED BY <2>1, <2>2
<1> QED BY <1>1, <1>8, <1>9

\* What a round writes are the next bytes of the file, and no other.
LEMMA WriteCells ==
  ASSUME IInv, pc = "rw", job.at < Len(blocks), NEW chain
  PROVE  chain = [blocks EXCEPT ![job.at + 1] =
           [j \in Positions |->
              IF job.local <= j /\ j < job.local + Chunk
                THEN Byte(job.done + j - job.local) ELSE @[j]]] =>
         /\ chain \in Seq(Block) /\ Len(chain) = Len(blocks)
         /\ \A i \in 0 .. size - 1 : Cell(chain, i) =
              IF job.off + job.done <= i /\ i < job.off + job.done + Chunk
                THEN Byte(i - job.off) ELSE At(i)
<1>0. SUFFICES
        ASSUME chain = [blocks EXCEPT ![job.at + 1] =
                 [j \in Positions |->
                    IF job.local <= j /\ j < job.local + Chunk
                      THEN Byte(job.done + j - job.local) ELSE @[j]]]
        PROVE  /\ chain \in Seq(Block) /\ Len(chain) = Len(blocks)
               /\ \A i \in 0 .. size - 1 : Cell(chain, i) =
                    IF job.off + job.done <= i /\ i < job.off + job.done + Chunk
                      THEN Byte(i - job.off) ELSE At(i)
  OBVIOUS
<1>1. PICK c \in Nat, l \in Positions, a \in Nat, d \in Nat, off \in Nat, s \in Nat :
        /\ c = Chunk /\ l = job.local /\ a = job.at /\ d = job.done /\ off = job.off
        /\ s = size
  BY Round
<1>2. a + 1 \in 1 .. Len(blocks) /\ blocks \in Seq(Block) /\ TypeOK /\ Len(blocks) = Ext(s)
  BY <1>1 DEF IInv, TypeOK, LengthInv
<1>3. PICK block : block = [j \in Positions |-> IF l <= j /\ j < l + c
                              THEN Byte(d + j - l) ELSE blocks[a + 1][j]]
  OBVIOUS
<1>4. block \in Block
  <2>1. blocks[a + 1] \in [Positions -> Bytes]
    BY <1>2 DEF Block
  <2>2. ASSUME NEW j \in Positions, l <= j PROVE Byte(d + j - l) \in Bytes
    <3>1. d + j - l \in Nat
      BY <2>2 DEF Positions
    <3> QED BY <3>1, ByteType
  <2> QED BY <1>3, <2>1, <2>2 DEF Block
<1>5. chain = [blocks EXCEPT ![a + 1] = block]
  BY <1>0, <1>1, <1>3
<1>6. chain \in Seq(Block) /\ Len(chain) = Len(blocks)
  BY <1>2, <1>4, <1>5, ExceptSeq
<1>7. ASSUME NEW i \in 0 .. s - 1
      PROVE  Cell(chain, i) = IF off + d <= i /\ i < off + d + c
                                THEN Byte(i - off) ELSE At(i)
  <2>1. PICK q \in Nat, m \in Positions : /\ q = i \div DataSize /\ m = i % DataSize
                                         /\ 1 + q \in 1 .. Len(blocks)
    BY <1>1, <1>2, InChain
  <2>2. /\ off + d <= i /\ i < off + d + c <=> q = a /\ l <= m /\ m < l + c
        /\ q = a => i - (off + d) = m - l
    BY <1>1, <2>1, RoundCells
  <2>3. Cell(chain, i) = IF q = a THEN block[m] ELSE blocks[1 + q][m]
    BY <1>2, <1>5, <2>1 DEF Cell
  <2>4. At(i) = blocks[1 + q][m]
    BY <2>1 DEF At, Cell
  <2>5. CASE q = a /\ l <= m /\ m < l + c
    <3>1. d + m - l = i - off
      BY <2>2, <2>5 DEF Positions
    <3> QED BY <1>3, <2>2, <2>3, <2>5, <3>1
  <2>6. CASE ~(q = a /\ l <= m /\ m < l + c)
    BY <1>3, <2>2, <2>3, <2>4, <2>6
  <2> QED BY <2>5, <2>6
<1> QED BY <1>1, <1>6, <1>7

\* Where the next round of do_rw_op is, if there is one.
LEMMA NextRound ==
  ASSUME IInv, pc = "rw", NextChunk
  PROVE  /\ job'.kind = job.kind /\ job'.off = job.off /\ job'.len = job.len
         /\ job'.overlap = job.overlap /\ job'.done = job.done + Chunk
         /\ job' \in [kind : Kinds \cup {"none"}, off : 0 .. MaxEnd, len : 0 .. MaxEnd,
                      overlap : 0 .. MaxEnd, at : Nat, local : Positions, done : 0 .. MaxEnd]
         /\ job.done + Chunk < job.overlap =>
              pc' = "rw" /\ job'.at * DataSize + job'.local = job.off + job.done + Chunk
         /\ ~(job.done + Chunk < job.overlap) =>
              /\ job.done + Chunk = job.overlap /\ job'.at = job.at
              /\ pc' = IF job.overlap = job.len THEN "commit" ELSE "extend"
<1>1. PICK d \in Nat, c \in Nat, n \in 0 .. MaxEnd, l \in Positions, a \in Nat, off \in Nat :
        /\ d = job.done /\ c = Chunk /\ n = job.overlap /\ l = job.local /\ a = job.at
        /\ off = job.off
  BY Round
<1>2. /\ d + c <= n /\ d + c \in 0 .. MaxEnd
      /\ d + c < n => c = DataSize - l
  <2>1. c \in 1 .. n - d
    BY <1>1, Round
  <2>2. d + c < n => c = DataSize - l
    BY <1>1, Round
  <2> QED BY <2>1, <2>2, FileAssumption
<1>3. PICK na \in Nat, nl \in Positions :
        /\ na = IF d + c = n THEN a ELSE a + 1
        /\ nl = IF d + c = n THEN l ELSE 0
  <2>1. 0 \in Positions
    BY FileAssumption DEF Positions
  <2>2. (IF d + c = n THEN a ELSE a + 1) \in Nat /\ (IF d + c = n THEN l ELSE 0) \in Positions
    BY <2>1
  <2> QED BY <2>2
<1>4. /\ job' = [job EXCEPT !.done = d + c, !.at = na, !.local = nl]
      /\ pc' = IF d + c < n THEN "rw" ELSE IF n = job.len THEN "commit" ELSE "extend"
  BY <1>1, <1>3 DEF NextChunk
<1>5. /\ job'.kind = job.kind /\ job'.off = job.off /\ job'.len = job.len
      /\ job'.overlap = job.overlap /\ job'.done = d + c /\ job'.at = na /\ job'.local = nl
      /\ job' \in [kind : Kinds \cup {"none"}, off : 0 .. MaxEnd, len : 0 .. MaxEnd,
                   overlap : 0 .. MaxEnd, at : Nat, local : Positions, done : 0 .. MaxEnd]
  <2>1. job \in [kind : Kinds \cup {"none"}, off : 0 .. MaxEnd, len : 0 .. MaxEnd,
                 overlap : 0 .. MaxEnd, at : Nat, local : Positions, done : 0 .. MaxEnd]
    BY DEF IInv, TypeOK
  <2> QED BY <1>2, <1>4, <2>1
<1>6. ASSUME d + c < n PROVE na * DataSize + nl = off + d + c
  <2>1. na = a + 1 /\ nl = 0
    BY <1>3, <1>6
  <2>2. PICK x \in Nat : x = a * DataSize
    BY ProductType, FileAssumption
  <2>3. x + l = off + d
    BY <1>1, <2>2 DEF IInv, RwInv
  <2>4. (a + 1) * DataSize = x + DataSize
    BY <2>2, FileAssumption
  <2> QED BY <1>2, <1>6, <2>1, <2>3, <2>4, FileAssumption DEF Positions
<1>7. ~(d + c < n) => d + c = n /\ na = a
  BY <1>2, <1>3
<1> QED BY <1>1, <1>4, <1>5, <1>6, <1>7

\* A round of a read copies the next bytes to the buffer.
LEMMA ReadIInv ==
  ASSUME IInv, pc = "rw", job.at < Len(blocks), job.kind = "read", ReadChunk,
         size' = size, free' = free
  PROVE  IInv'
<1>1. /\ got' \in Seq(Bytes) /\ Len(got') = job.done + Chunk
      /\ \A k \in 1 .. job.done + Chunk : got'[k] = At(job.off + k - 1)
  BY ReadCells DEF ReadChunk
<1>2. /\ TypeOK /\ fresh = <<>> /\ Len(blocks) = Ext(size)
      /\ free \in Nat /\ free + Len(blocks) <= ClusterCount /\ blocks' = blocks
  BY DEF IInv, TypeOK, FreshInv, LengthInv, FreeInv, ReadChunk
<1>3. CASE job.done + Chunk < job.overlap /\ NextChunk /\ UNCHANGED <<fresh, ret>>
  <2>1. /\ job'.kind = job.kind /\ job'.off = job.off /\ job'.len = job.len
        /\ job'.overlap = job.overlap /\ job'.done = job.done + Chunk
        /\ job' \in [kind : Kinds \cup {"none"}, off : 0 .. MaxEnd, len : 0 .. MaxEnd,
                     overlap : 0 .. MaxEnd, at : Nat, local : Positions, done : 0 .. MaxEnd]
        /\ pc' = "rw" /\ job'.at * DataSize + job'.local = job.off + job.done + Chunk
    BY <1>3, NextRound
  <2>2. TypeOK'
    BY <1>1, <1>2, <1>3, <2>1 DEF TypeOK
  <2>3. RwInv'
    <3>1. /\ job.off < size /\ job.overlap = FittedLen(job.off, job.len)
      BY DEF IInv, RwInv
    <3>2. FittedLen(job.off, job.len)' = FittedLen(job.off, job.len)
      BY <2>1 DEF FittedLen, FittedOff
    <3>3. (job.done < job.overlap)'
      BY <1>3, <2>1
    <3>4. (job.at * DataSize + job.local = job.off + job.done)'
      <4>1. job.off \in Nat /\ job.done \in Nat /\ Chunk \in Nat
        BY Round
      <4> QED BY <2>1, <4>1
    <3>5. (\A k \in 1 .. job.done : got[k] = At(job.off + k - 1))'
      BY <1>1, <1>2, <2>1 DEF At
    <3> QED BY <1>1, <2>1, <3>1, <3>2, <3>3, <3>4, <3>5 DEF RwInv
  <2>4. Begun' /\ BufferInv' /\ FreshInv' /\ LengthInv' /\ FreeInv'
    BY <1>2, <1>3, <2>1 DEF IInv, Begun, BufferInv, FreshInv, LengthInv, FreeInv
  <2> QED BY <2>1, <2>2, <2>3, <2>4 DEF IInv, ExtendInv, ShrinkInv, CommitInv
<1>4. CASE Return("ok")
  <2>1. size' \in 0 .. MaxEnd /\ Len(blocks) = Ext(size')
        /\ free' \in Nat /\ free' + Len(blocks) <= ClusterCount
    BY <1>2 DEF TypeOK
  <2> QED BY <1>1, <1>2, <1>4, <2>1, Ended
<1> QED BY <1>3, <1>4 DEF ReadChunk

\* A round of a write copies the next bytes into the file, and the last one
\* leads to the end of the file or to the commit.
LEMMA WriteIInv ==
  ASSUME IInv, pc = "rw", job.at < Len(blocks), job.kind = "write", WriteChunk,
         size' = size, free' = free
  PROVE  IInv'
<1>1. /\ blocks' \in Seq(Block) /\ Len(blocks') = Len(blocks)
      /\ \A i \in 0 .. size - 1 : At(i)' =
           IF job.off + job.done <= i /\ i < job.off + job.done + Chunk
             THEN Byte(i - job.off) ELSE At(i)
  <2>1. blocks' = [blocks EXCEPT ![job.at + 1] =
          [j \in Positions |->
             IF job.local <= j /\ j < job.local + Chunk
               THEN Byte(job.done + j - job.local) ELSE @[j]]]
    BY DEF WriteChunk
  <2>2. PICK chain : chain = blocks'
    OBVIOUS
  <2>3. /\ chain \in Seq(Block) /\ Len(chain) = Len(blocks)
        /\ \A i \in 0 .. size - 1 : Cell(chain, i) =
             IF job.off + job.done <= i /\ i < job.off + job.done + Chunk
               THEN Byte(i - job.off) ELSE At(i)
    BY <2>1, <2>2, WriteCells
  <2>4. \A i : At(i)' = Cell(chain, i)
    BY <2>2 DEF At, Cell
  <2> QED BY <2>2, <2>3, <2>4
<1>2. /\ TypeOK /\ Begun /\ fresh = <<>> /\ Len(blocks) = Ext(size) /\ got = <<>>
      /\ free + Len(blocks) <= ClusterCount /\ fresh' = fresh /\ ret' = ret /\ got' = got
  BY DEF IInv, FreshInv, LengthInv, FreeInv, BufferInv, WriteChunk
<1>3. /\ job'.kind = job.kind /\ job'.off = job.off /\ job'.len = job.len
      /\ job'.overlap = job.overlap /\ job'.done = job.done + Chunk
      /\ job' \in [kind : Kinds \cup {"none"}, off : 0 .. MaxEnd, len : 0 .. MaxEnd,
                   overlap : 0 .. MaxEnd, at : Nat, local : Positions, done : 0 .. MaxEnd]
      /\ job.done + Chunk < job.overlap =>
           pc' = "rw" /\ job'.at * DataSize + job'.local = job.off + job.done + Chunk
      /\ ~(job.done + Chunk < job.overlap) =>
           /\ job.done + Chunk = job.overlap /\ job'.at = job.at
           /\ pc' = IF job.overlap = job.len THEN "commit" ELSE "extend"
  BY NextRound DEF WriteChunk
<1>4. PICK c \in Nat, d \in Nat, n \in Nat, off \in Nat, s \in Nat, len \in Nat :
        /\ c = Chunk /\ d = job.done /\ n = job.overlap /\ off = job.off /\ s = size
        /\ len = job.len
  <2>1. Chunk \in 1 .. job.overlap - job.done /\ job.done \in Nat /\ job.overlap \in Nat
        /\ job.off \in Nat /\ size \in Nat
    BY Round
  <2>2. job.len \in Nat /\ Chunk \in Nat
    BY <2>1 DEF IInv, TypeOK
  <2> QED BY <2>1, <2>2
<1>5. d + c <= n /\ off + n <= s /\ n <= len /\ (n # len => off + n = s) /\ c > 0
  <2>1. c \in 1 .. n - d
    BY <1>4, Round
  <2>2. off + n <= s /\ n <= len /\ (n # len => off + n = s)
    BY <1>4, Round
  <2> QED BY <2>1, <2>2
<1>6. \A i \in off .. off + d + c - 1 : At(i)' = Byte(i - off)
  <2> SUFFICES ASSUME NEW i \in off .. off + d + c - 1 PROVE At(i)' = Byte(i - off)
    OBVIOUS
  <2>1. i \in 0 .. s - 1
    BY <1>5
  <2>2. CASE off + d <= i
    <3>1. i < off + d + c
      OBVIOUS
    <3> QED BY <1>1, <1>4, <2>1, <2>2, <3>1
  <2>3. CASE i < off + d
    <3>1. At(i)' = At(i)
      BY <1>1, <1>4, <2>1, <2>3
    <3>2. i \in off .. off + d - 1
      BY <2>3
    <3>3. At(i) = Byte(i - off)
      BY <1>4, <3>2 DEF IInv, RwInv, Written
    <3> QED BY <3>1, <3>3
  <2> QED BY <2>2, <2>3
<1>7. Written(job.done)' /\ Written(d + c)'
  <2>1. job'.off = off /\ job'.done = d + c
    BY <1>3, <1>4
  <2>2. Written(d + c)'
    BY <1>6, <2>1 DEF Written
  <2> QED BY <1>6, <2>1 DEF Written
<1>8. /\ off < s /\ n = FittedLen(off, len) /\ FittedLen(off, len)' = n
  <2>1. job.off < size /\ job.overlap = FittedLen(job.off, job.len)
    BY DEF IInv, RwInv
  <2> QED BY <1>4, <2>1 DEF FittedLen, FittedOff
<1>9. pc' \in {"rw", "commit", "extend"}
  BY <1>3
<1>10. TypeOK' /\ Begun' /\ BufferInv' /\ FreshInv' /\ FreeInv'
  <2>1. TypeOK'
    BY <1>1, <1>2, <1>3, <1>9 DEF TypeOK
  <2>2. Begun' /\ BufferInv' /\ FreshInv' /\ FreeInv'
    BY <1>1, <1>2, <1>3, <1>9 DEF Begun, BufferInv, FreshInv, FreeInv
  <2> QED BY <2>1, <2>2
<1>11. CASE d + c < n
  <2>1. pc' = "rw" /\ job'.at * DataSize + job'.local = off + d + c
    BY <1>3, <1>4, <1>11
  <2>2. (job.at * DataSize + job.local = job.off + job.done)'
    <3>1. job'.off = off /\ job'.done = d + c
      BY <1>3, <1>4
    <3> QED BY <2>1, <3>1
  <2>3. RwInv'
    BY <1>3, <1>4, <1>7, <1>8, <1>11, <2>2 DEF RwInv
  <2>4. LengthInv'
    BY <1>1, <1>2, <2>1 DEF LengthInv
  <2> QED BY <1>10, <2>1, <2>3, <2>4 DEF IInv, ExtendInv, ShrinkInv, CommitInv
<1>12. CASE d + c = n /\ n = len
  <2>1. pc' = "commit"
    BY <1>3, <1>4, <1>12
  <2>2. NewSize' = s
    <3>1. NewSize' = Greater(s, off + len)
      BY <1>3, <1>4 DEF NewSize
    <3> QED BY <1>5, <1>12, <3>1 DEF Greater
  <2>3. LengthInv'
    BY <1>1, <1>2, <1>4, <2>1, <2>2 DEF LengthInv
  <2>4. CommitInv'
    BY <1>3, <1>4, <1>7, <1>12, <2>1, <2>2 DEF CommitInv
  <2> QED BY <1>10, <2>1, <2>3, <2>4 DEF IInv, RwInv, ExtendInv, ShrinkInv
<1>13. CASE d + c = n /\ n # len
  <2>1. pc' = "extend" /\ job'.at = job.at /\ off + n = s
    <3>1. ~(job.done + Chunk < job.overlap) /\ job.overlap # job.len
      BY <1>4, <1>13
    <3>2. off + n = s
      BY <1>5, <1>13
    <3> QED BY <1>3, <3>1, <3>2
  <2>2. NewSize' = off + len /\ s < off + len
    <3>1. NewSize' = Greater(s, off + len)
      BY <1>3, <1>4 DEF NewSize
    <3> QED BY <1>5, <1>13, <3>1 DEF Greater
  <2>3. job.at + 1 = Ext(s)
    <3>1. PICK i \in Nat : i = s - 1 /\ off + d <= i /\ i < off + d + c
      BY <1>5, <2>1, <1>13
    <3>2. i \div DataSize = job.at
      BY <1>4, <3>1, RoundCells
    <3>3. LastByte(s) = i
      BY <3>1 DEF LastByte
    <3> QED BY <3>2, <3>3, ExtOf, <1>4, Round
  <2>4. ExtendInv'
    <3>1. (size < NewSize)' /\ (job.at + 1 = Ext(size))'
      BY <1>4, <2>1, <2>2, <2>3
    <3>2. (job.overlap = FittedLen(job.off, job.len))' /\ Written(job.overlap)'
      BY <1>3, <1>4, <1>7, <1>8, <1>13 DEF Written
    <3> QED BY <1>3, <3>1, <3>2 DEF ExtendInv
  <2>5. LengthInv'
    BY <1>1, <1>2, <2>1 DEF LengthInv
  <2> QED BY <1>10, <2>1, <2>4, <2>5 DEF IInv, RwInv, ShrinkInv, CommitInv
<1> QED BY <1>5, <1>11, <1>12, <1>13

\* A round of do_rw_op keeps the invariant.
LEMMA RwChunkIInv == IInv /\ RwChunk => IInv'
<1> SUFFICES ASSUME IInv, RwChunk PROVE IInv'
  OBVIOUS
<1>1. pc = "rw" /\ free' = free
  BY DEF RwChunk
<1>2. CASE Fail
  <2>1. free' \in Nat /\ free' + Len(blocks) <= ClusterCount
    BY <1>1 DEF IInv, TypeOK, FreeInv
  <2> QED BY <1>1, <1>2, <2>1, Failed
<1> QED BY <1>1, <1>2, ReadIInv, WriteIInv DEF RwChunk

----------------------------------------------------------------------------
(* The bytes a file grows by *)

\* The zeros and the data that are appended fill the file up to its new size.
LEMMA Growth ==
  ASSUME IInv, pc \in {"extend", "fill", "hook"}
  PROVE  /\ size \in Nat /\ NewSize \in 0 .. MaxEnd /\ size < NewSize
         /\ job.off \in Nat /\ job.len \in Nat /\ job.overlap \in Nat
         /\ Gap \in Nat /\ Data \in Nat /\ size + Gap + Data = NewSize
         /\ job.kind = "write" => /\ job.off + job.overlap = size + Gap
                                  /\ job.off + job.len = NewSize
                                  /\ job.off < size => Gap = 0
                                  /\ size <= job.off => job.overlap = 0
         /\ job.kind # "write" => Data = 0
<1>1. PICK s \in Nat, off \in Nat, len \in Nat, n \in Nat :
        /\ s = size /\ off = job.off /\ len = job.len /\ n = job.overlap
        /\ s <= MaxEnd
  BY DEF IInv, TypeOK
<1>2. /\ pc # "idle" /\ job.kind \in Kinds /\ off + len <= MaxEnd
      /\ job.kind = "ftruncate" <=> len = 0
      /\ job.kind # "read" /\ s < NewSize
      /\ job.kind = "write" => n = FittedLen(off, len)
  BY <1>1 DEF IInv, Begun, ExtendInv
<1>3. CASE job.kind = "write"
  <2>1. NewSize = Greater(s, off + len) /\ Gap = Greater(0, off - s) /\ Data = len - n
    BY <1>1, <1>3 DEF NewSize, Gap, Data
  <2>2. NewSize = off + len /\ s < off + len
    BY <1>2, <2>1 DEF Greater
  <2>3. CASE off <= s
    <3>1. n = Lesser(len, s - off)
      BY <1>1, <1>2, <1>3, <2>3, Fitted
    <3>2. n = s - off /\ Gap = 0
      BY <2>1, <2>2, <2>3, <3>1 DEF Lesser, Greater
    <3> QED BY <1>1, <1>2, <1>3, <2>1, <2>2, <2>3, <3>2, FileAssumption
  <2>4. CASE s < off
    <3>1. n = 0
      BY <1>1, <1>2, <1>3, <2>4, Fitted
    <3>2. Gap = off - s
      BY <2>1, <2>4 DEF Greater
    <3> QED BY <1>1, <1>2, <1>3, <2>1, <2>2, <2>4, <3>1, <3>2, FileAssumption
  <2> QED BY <2>3, <2>4
<1>4. CASE job.kind # "write"
  <2>1. Gap = off + len - s /\ Data = 0
    BY <1>1, <1>4 DEF Gap, Data
  <2>2. NewSize = off + len
    BY <1>1, <1>2, <1>4 DEF NewSize, Kinds
  <2> QED BY <1>1, <1>2, <1>4, <2>1, <2>2, FileAssumption
<1> QED BY <1>3, <1>4

\* bs_do_write_extend allocates what the new size needs.
LEMMA Allocated ==
  ASSUME IInv, pc \in {"extend", "fill", "hook"}
  PROVE  /\ NewCount \in Nat /\ Ext(NewSize) = Ext(size) + NewCount
         /\ Ext(size) \in Nat /\ Len(blocks) = Ext(size)
         /\ Room \in 0 .. DataSize /\ size + Room = Ext(size) * DataSize
         /\ job.at + 1 = Ext(size) /\ size = job.at * DataSize + LocalEof(size)
         /\ LocalEof(size) \in 0 .. DataSize /\ job.at * DataSize \in Nat /\ job.at \in Nat
<1>1. size \in Nat /\ NewSize \in Nat /\ size < NewSize /\ Gap + Data = NewSize - size
  <2>1. PICK s \in Nat, u \in Nat, g \in Nat, d \in Nat :
          s = size /\ u = NewSize /\ g = Gap /\ d = Data /\ s < u /\ s + g + d = u
    BY Growth
  <2>2. g + d = u - s
    BY <2>1
  <2> QED BY <2>1, <2>2
<1>2. PICK q \in Nat, e \in 0 .. DataSize :
        /\ e = LocalEof(size) /\ Ext(size) = q + 1 /\ size = q * DataSize + e
        /\ q * DataSize \in Nat /\ DataSize - e \in 0 .. DataSize
  BY <1>1, EndsAt
<1>3. Room = DataSize - e
  BY <1>2 DEF Room
<1>4. NewCount = ((NewSize - size) - (DataSize - LocalEof(size)) + DataSize - 1) \div DataSize
  <2>1. PICK g \in Nat, d \in Nat, r \in Nat : g = Gap /\ d = Data /\ r = Room
    <3>1. Room \in Nat
      <4>1. DataSize - e \in 0 .. DataSize
        BY <1>2
      <4>2. DataSize - e \in Nat
        BY <4>1, FileAssumption
      <4> QED BY <1>3, <4>2
    <3>2. Gap \in Nat /\ Data \in Nat
      BY Growth
    <3> QED BY <3>1, <3>2
  <2>2. NewCount = (g + d - r + DataSize - 1) \div DataSize
    BY <2>1 DEF NewCount
  <2>3. r = DataSize - LocalEof(size) /\ g + d = NewSize - size
    BY <1>1, <1>2, <1>3, <2>1
  <2> QED BY <2>2, <2>3
<1>5. PICK n \in Nat : n = NewCount /\ Ext(NewSize) = Ext(size) + n
  BY <1>1, <1>4, ExtGrows
<1>6. size + Room = Ext(size) * DataSize
  <2>1. PICK x \in Nat : x = q * DataSize
    BY <1>2
  <2>2. PICK y \in Nat : y = (q + 1) * DataSize /\ y = x + DataSize
    BY <2>1, FileAssumption, ProductType
  <2>3. size = x + e
    BY <1>2, <2>1
  <2>4. size + Room = y
    BY <1>3, <2>2, <2>3, FileAssumption
  <2> QED BY <1>2, <2>2, <2>4
<1>7. job.at = q
  <2>1. PICK a \in Nat : a = job.at
    BY DEF IInv, TypeOK
  <2>2. a + 1 = Ext(size)
    BY <2>1 DEF IInv, ExtendInv
  <2>3. a + 1 = q + 1
    BY <1>2, <2>2
  <2> QED BY <2>1, <2>3
<1>8. Len(blocks) = Ext(size)
  BY DEF IInv, LengthInv
<1>9. Ext(size) \in Nat /\ job.at \in Nat /\ job.at + 1 = Ext(size)
  BY <1>2, <1>7
<1>10. size = job.at * DataSize + LocalEof(size) /\ job.at * DataSize \in Nat
  BY <1>2, <1>7
<1>11. Room \in 0 .. DataSize /\ LocalEof(size) \in 0 .. DataSize
  BY <1>2, <1>3
<1> QED BY <1>5, <1>6, <1>8, <1>9, <1>10, <1>11

\* What is appended does not depend on how much of it has been.
LEMMA SameGrowth ==
  ASSUME size' = size, job'.kind = job.kind, job'.off = job.off, job'.len = job.len,
         job'.overlap = job.overlap
  PROVE  /\ Gap' = Gap /\ Data' = Data /\ Room' = Room /\ NewCount' = NewCount
         /\ NewSize' = NewSize
         /\ \A x : FilledBlock(x)' = FilledBlock(x)
<1>1. Gap' = Gap /\ Data' = Data
  BY DEF Gap, Data
<1>2. Room' = Room
  BY DEF Room, LocalEof
<1>3. NewCount' = NewCount
  BY <1>1, <1>2 DEF NewCount
<1>4. NewSize' = NewSize
  BY DEF NewSize
<1>5. \A x : FilledBlock(x)' = FilledBlock(x)
  BY <1>1 DEF FilledBlock
<1> QED BY <1>1, <1>2, <1>3, <1>4, <1>5

\* A new cluster is filled with bytes.
LEMMA FilledType ==
  ASSUME IInv, pc \in {"extend", "fill", "hook"}, NEW p \in Nat
  PROVE  FilledBlock(p) \in Block
<1>1. PICK g \in Nat, d \in Nat, n \in Nat : g = Gap /\ d = Data /\ n = job.overlap
  BY Growth
<1>2. ASSUME NEW j \in Positions PROVE Byte(n + p - g + j) \in Bytes
  <2>1. n + p - g + j \in Int
    BY DEF Positions
  <2> QED BY <2>1, ByteType
<1>3. 0 \in Bytes /\ Junk \in Bytes
  BY DEF Bytes
<1> QED BY <1>1, <1>2, <1>3 DEF FilledBlock, Block

\* What a new cluster holds of the file: zeros in the gap, then the data.
LEMMA FilledCells ==
  ASSUME IInv, pc \in {"extend", "fill", "hook"},
         NEW k \in 1 .. NewCount, NEW j \in Positions, NEW i \in Nat,
         i = (Ext(size) + k - 1) * DataSize + j, i < NewSize
  PROVE  FilledBlock(Room + (k - 1) * DataSize)[j] =
           IF i < size + Gap THEN 0 ELSE Byte(i - job.off)
<1>1. PICK g \in Nat, d \in Nat, r \in Nat, s \in Nat, e \in Nat, off \in Nat, n \in Nat :
        /\ g = Gap /\ d = Data /\ r = Room /\ s = size /\ e = Ext(size)
        /\ off = job.off /\ n = job.overlap
  <2>1. Gap \in Nat /\ Data \in Nat /\ size \in Nat /\ job.off \in Nat /\ job.overlap \in Nat
    BY Growth
  <2>2. Room \in Nat /\ Ext(size) \in Nat
    BY Allocated
  <2> QED BY <2>1, <2>2
<1>2. PICK x \in Nat : x = (k - 1) * DataSize
  <2>1. k - 1 \in Nat
    BY Allocated
  <2> QED BY <2>1, ProductType, FileAssumption
<1>3. i = s + r + x + j
  <2>1. PICK y \in Nat : y = e * DataSize /\ s + r = y
    <3>1. s + r = e * DataSize
      BY <1>1, Allocated
    <3> QED BY <3>1
  <2>2. (e + k - 1) * DataSize = y + x
    <3>1. PICK h \in Nat : h = k - 1
      BY Allocated
    <3>2. (e + h) * DataSize = e * DataSize + h * DataSize
      BY <3>1, FileAssumption
    <3>3. e + k - 1 = e + h
      BY <3>1, Allocated
    <3> QED BY <1>2, <2>1, <3>1, <3>2, <3>3
  <2>3. i = y + x + j
    BY <1>1, <2>2
  <2> QED BY <2>1, <2>3
<1>4. PICK p \in Nat : p = r + x /\ i = s + p + j /\ j \in Nat /\ j < DataSize
  BY <1>3, FileAssumption DEF Positions
<1>5. i < s + g + d
  <2>1. NewSize = s + g + d
    BY <1>1, Growth
  <2> QED BY <2>1
<1>6. PICK w \in Nat : /\ w = Lesser(g + d - p, DataSize) /\ j < w
  <2>1. p + j < g + d
    BY <1>4, <1>5
  <2>2. PICK h \in Nat : h = g + d - p /\ j < h
    BY <1>4, <2>1
  <2>3. Lesser(h, DataSize) \in Nat /\ j < Lesser(h, DataSize)
    BY <1>4, <2>2, FileAssumption DEF Lesser
  <2> QED BY <2>2, <2>3
<1>7. PICK pad \in Nat : /\ pad = IF g > p THEN Lesser(w, g - p) ELSE 0
                         /\ j < pad <=> i < s + g
  <2>1. CASE g > p
    <3>1. PICK h \in Nat : h = g - p
      BY <2>1
    <3>2. j \in Nat /\ j < w
      BY <1>4, <1>6
    <3>3. Lesser(w, h) \in Nat /\ (j < Lesser(w, h) <=> j < h)
      BY <3>2 DEF Lesser
    <3>4. j < h <=> i < s + g
      BY <1>4, <3>1
    <3> QED BY <2>1, <3>1, <3>3, <3>4
  <2>2. CASE ~(g > p)
    <3>1. ~(j < 0) /\ ~(i < s + g)
      BY <1>4, <2>2
    <3> QED BY <2>2, <3>1
  <2> QED BY <2>1, <2>2
<1>8. FilledBlock(p) = [m \in Positions |-> IF m < pad THEN 0
                          ELSE IF m < w THEN Byte(n + p - g + m) ELSE Junk]
  BY <1>1, <1>6, <1>7 DEF FilledBlock
<1>9. FilledBlock(p)[j] = IF i < s + g THEN 0 ELSE Byte(n + p - g + j)
  BY <1>6, <1>7, <1>8
<1>10. ASSUME ~(i < s + g) PROVE n + p - g + j = i - off
  <2>1. job.kind = "write"
    <3>1. d # 0
      BY <1>5, <1>10
    <3> QED BY <1>1, <3>1, Growth
  <2>2. off + n = s + g
    BY <1>1, <2>1, Growth
  <2> QED BY <1>4, <2>2
<1> QED BY <1>1, <1>2, <1>4, <1>9, <1>10

\* What the last cluster of the file holds of it afterwards: what it held up to
\* the old end, then zeros in the gap, then the start of the data.
LEMMA HookedCells ==
  ASSUME IInv, pc \in {"extend", "fill", "hook"}, NEW old \in Block,
         NEW j \in Positions, NEW i \in Nat, i = job.at * DataSize + j, i < NewSize
  PROVE  HookedBlock(old)[j] =
           IF i < size THEN old[j]
           ELSE IF i < size + Gap THEN 0 ELSE Byte(i - job.off)
<1>1. PICK g \in Nat, d \in Nat, r \in Nat, s \in Nat, f \in Nat, off \in Nat, n \in Nat :
        /\ g = Gap /\ d = Data /\ r = Room /\ s = size /\ f = LocalEof(size)
        /\ off = job.off /\ n = job.overlap
  <2>1. Gap \in Nat /\ Data \in Nat /\ size \in Nat /\ job.off \in Nat /\ job.overlap \in Nat
    BY Growth
  <2>2. Room \in 0 .. DataSize /\ LocalEof(size) \in 0 .. DataSize
    BY Allocated
  <2>3. Room \in Nat /\ LocalEof(size) \in Nat
    BY <2>2, FileAssumption
  <2> QED BY <2>1, <2>3
<1>2. j \in Nat /\ j < f + r
  <2>1. r = DataSize - f
    BY <1>1 DEF Room
  <2> QED BY <2>1, FileAssumption DEF Positions
<1>3. j - f = i - s
  <2>1. PICK x \in Nat : x = job.at * DataSize /\ s = x + f
    BY <1>1, Allocated
  <2>2. i = x + j
    BY <2>1
  <2> QED BY <1>2, <2>1, <2>2
<1>4. i < s + g + d
  <2>1. NewSize = s + g + d
    BY <1>1, Growth
  <2> QED BY <2>1
<1>5. HookedBlock(old) = [m \in Positions |->
         IF f <= m /\ m < f + Lesser(g, r) THEN 0
         ELSE IF g < r /\ f + g <= m /\ m < f + g + Lesser(r - g, d)
           THEN Byte(n + m - f - g) ELSE old[m]]
  BY <1>1 DEF HookedBlock
<1>6. CASE i < s
  <2>1. j < f
    BY <1>2, <1>3, <1>6
  <2>2. ~(f <= j) /\ ~(f + g <= j)
    BY <1>2, <2>1
  <2> QED BY <1>1, <1>5, <1>6, <2>2
<1>7. CASE s <= i /\ i < s + g
  <2>1. f <= j /\ j < f + g
    BY <1>2, <1>3, <1>7
  <2>2. j < f + Lesser(g, r)
    BY <1>2, <2>1 DEF Lesser
  <2>3. ~(i < s)
    BY <1>7
  <2> QED BY <1>1, <1>5, <1>7, <2>1, <2>2, <2>3
<1>8. CASE s + g <= i
  <2>1. f + g <= j
    BY <1>2, <1>3, <1>8
  <2>2. g < r
    BY <1>2, <2>1
  <2>3. PICK h \in Nat : h = r - g
    BY <2>2
  <2>4. j < f + g + h /\ j < f + g + d
    BY <1>2, <1>3, <1>4, <2>3
  <2>5. j < f + g + Lesser(h, d)
    BY <2>4 DEF Lesser
  <2>6. ~(j < f + Lesser(g, r))
    BY <1>2, <2>1, <2>2 DEF Lesser
  <2>7. HookedBlock(old)[j] = Byte(n + j - f - g)
    BY <1>5, <2>1, <2>2, <2>3, <2>5, <2>6
  <2>8. n + j - f - g = i - off
    <3>1. job.kind = "write"
      <4>1. d # 0
        BY <1>4, <1>8
      <4> QED BY <1>1, <4>1, Growth
    <3>2. off + n = s + g
      BY <1>1, <3>1, Growth
    <3> QED BY <1>2, <1>3, <3>2
  <2>9. ~(i < s) /\ ~(i < s + g)
    BY <1>8
  <2> QED BY <1>1, <2>7, <2>8, <2>9
<1> QED BY <1>6, <1>7, <1>8

\* The last cluster stays a cluster.
LEMMA HookedType ==
  ASSUME IInv, pc \in {"extend", "fill", "hook"}, NEW old \in Block
  PROVE  HookedBlock(old) \in Block
<1>1. PICK g \in Nat, n \in Nat : g = Gap /\ n = job.overlap
  BY Growth
<1>2. PICK f \in Int : f = LocalEof(size)
  <2>1. LocalEof(size) \in 0 .. DataSize
    BY Allocated
  <2> QED BY <2>1, FileAssumption
<1>3. ASSUME NEW j \in Positions PROVE Byte(n + j - f - g) \in Bytes
  <2>1. n + j - f - g \in Int
    BY DEF Positions
  <2> QED BY <2>1, ByteType
<1>4. 0 \in Bytes /\ old \in [Positions -> Bytes]
  BY DEF Bytes, Block
<1> QED BY <1>1, <1>2, <1>3, <1>4 DEF HookedBlock, Block

\* The chain that is written back holds the bytes the file had, then zeros
\* where it grew past its end, then the data.
LEMMA HookedChain ==
  ASSUME IInv, pc = "hook", job.at < Len(blocks), NEW chain
  PROVE  chain = [blocks EXCEPT ![job.at + 1] = HookedBlock(@)] \o fresh =>
           /\ chain \in Seq(Block) /\ Len(chain) = Ext(NewSize)
           /\ \A i \in 0 .. NewSize - 1 : Cell(chain, i) =
                IF i < size THEN At(i)
                ELSE IF i < size + Gap THEN 0 ELSE Byte(i - job.off)
<1>0. SUFFICES ASSUME chain = [blocks EXCEPT ![job.at + 1] = HookedBlock(@)] \o fresh
      PROVE  /\ chain \in Seq(Block) /\ Len(chain) = Ext(NewSize)
             /\ \A i \in 0 .. NewSize - 1 : Cell(chain, i) =
                  IF i < size THEN At(i)
                  ELSE IF i < size + Gap THEN 0 ELSE Byte(i - job.off)
  OBVIOUS
<1>1. PICK a \in Nat, e \in Nat, c \in Nat, s \in Nat, u \in Nat :
        /\ a = job.at /\ e = Ext(size) /\ c = NewCount /\ s = size /\ u = NewSize
        /\ a + 1 = e /\ Ext(u) = e + c
  <2>1. NewSize \in Nat /\ size \in Nat
    BY Growth
  <2> QED BY <2>1, Allocated
<1>2. /\ blocks \in Seq(Block) /\ Len(blocks) = e /\ a + 1 \in 1 .. Len(blocks)
      /\ fresh \in Seq(Block) /\ Len(fresh) = c
      /\ \A k \in 1 .. c : fresh[k] = FilledBlock(Room + (k - 1) * DataSize)
  <2>1. blocks \in Seq(Block) /\ fresh \in Seq(Block)
    BY DEF IInv, TypeOK
  <2>2. Len(blocks) = e
    BY <1>1, Allocated
  <2>3. Len(fresh) = c /\ \A k \in 1 .. c : fresh[k] = FilledBlock(Room + (k - 1) * DataSize)
    BY <1>1 DEF IInv, FreshInv
  <2> QED BY <1>1, <2>1, <2>2, <2>3
<1>3. PICK old \in Block : old = blocks[a + 1]
  BY <1>2
<1>4. PICK new \in Block : new = HookedBlock(old)
  BY HookedType
<1>5. PICK front : front = [blocks EXCEPT ![a + 1] = new]
  OBVIOUS
<1>6. /\ front \in Seq(Block) /\ Len(front) = e
      /\ \A k \in 1 .. e : front[k] = IF k = a + 1 THEN new ELSE blocks[k]
  BY <1>2, <1>5, ExceptSeq
<1>7. chain = front \o fresh
  BY <1>0, <1>1, <1>3, <1>4, <1>5
<1>8. /\ chain \in Seq(Block) /\ Len(chain) = e + c
      /\ \A k \in 1 .. e + c : chain[k] = IF k <= e THEN front[k] ELSE fresh[k - e]
  <2>1. /\ front \o fresh \in Seq(Block)
        /\ Len(front \o fresh) = Len(front) + Len(fresh)
        /\ \A k \in 1 .. Len(front) + Len(fresh) : (front \o fresh)[k] =
             IF k <= Len(front) THEN front[k] ELSE fresh[k - Len(front)]
    BY <1>2, <1>6, ConcatProperties
  <2>2. Len(front) = e /\ Len(fresh) = c
    BY <1>2, <1>6
  <2> QED BY <1>7, <2>1, <2>2
<1>9. ASSUME NEW i \in 0 .. u - 1
      PROVE  Cell(chain, i) = IF i < s THEN At(i)
                              ELSE IF i < size + Gap THEN 0 ELSE Byte(i - job.off)
  <2>1. PICK q \in Nat, m \in Positions : /\ q = i \div DataSize /\ m = i % DataSize
                                         /\ i = q * DataSize + m
    <3>1. i \in Nat
      OBVIOUS
    <3> QED BY <3>1, Split
  <2>2. q \in 0 .. Ext(u) - 1
    BY <2>1, InExtent
  <2>3. 1 + q \in 1 .. e + c /\ i \in Nat /\ i < NewSize
    BY <1>1, <2>2
  <2>4. Cell(chain, i) = chain[1 + q][m] /\ At(i) = blocks[1 + q][m]
    BY <2>1 DEF Cell, At
  <2>5. CASE q < a
    <3>1. chain[1 + q] = blocks[1 + q]
      <4>1. 1 + q \in 1 .. e /\ 1 + q <= e /\ 1 + q # a + 1
        BY <1>1, <2>5
      <4> QED BY <1>6, <1>8, <2>3, <4>1
    <3>2. i < s
      <4>1. PICK x \in Nat, y \in Nat : x = q * DataSize /\ y = a * DataSize
        BY ProductType, FileAssumption
      <4>2. x + DataSize <= y
        <5>1. (q + 1) * DataSize <= a * DataSize
          BY <2>5, Monotone, FileAssumption
        <5>2. (q + 1) * DataSize = x + DataSize
          BY <4>1, FileAssumption
        <5> QED BY <4>1, <5>1, <5>2
      <4>3. y <= s
        <5>1. PICK f \in Nat : s = y + f
          <6>1. size = job.at * DataSize + LocalEof(size) /\ LocalEof(size) \in 0 .. DataSize
            BY Allocated
          <6> QED BY <1>1, <4>1, <6>1, FileAssumption
        <5> QED BY <5>1
      <4> QED BY <2>1, <4>1, <4>2, <4>3, FileAssumption DEF Positions
    <3> QED BY <2>4, <3>1, <3>2
  <2>6. CASE q = a
    <3>1. chain[1 + q] = new
      <4>1. 1 + q \in 1 .. e /\ 1 + q <= e /\ 1 + q = a + 1
        BY <1>1, <2>6
      <4> QED BY <1>6, <1>8, <2>3, <4>1
    <3>2. i = job.at * DataSize + m
      BY <1>1, <2>1, <2>6
    <3>3. HookedBlock(old)[m] = IF i < size THEN old[m]
            ELSE IF i < size + Gap THEN 0 ELSE Byte(i - job.off)
      BY <2>3, <3>2, HookedCells
    <3>4. old[m] = At(i)
      <4>1. 1 + q = a + 1
        BY <2>6
      <4> QED BY <1>3, <2>4, <4>1
    <3> QED BY <1>1, <1>4, <2>4, <3>1, <3>3, <3>4
  <2>7. CASE a < q
    <3>1. PICK k \in 1 .. c : k = q - a
      BY <1>1, <2>3, <2>7
    <3>2. chain[1 + q] = FilledBlock(Room + (k - 1) * DataSize)
      <4>1. ~(1 + q <= e) /\ 1 + q - e = k
        <5>1. e = a + 1
          BY <1>1
        <5> QED BY <2>7, <3>1, <5>1
      <4>2. chain[1 + q] = fresh[1 + q - e]
        BY <1>8, <2>3, <4>1
      <4>3. fresh[k] = FilledBlock(Room + (k - 1) * DataSize)
        BY <1>2
      <4> QED BY <4>1, <4>2, <4>3
    <3>3. Ext(size) + k - 1 = q
      <4>1. e = a + 1
        BY <1>1
      <4>2. e + k - 1 = q
        BY <3>1, <4>1
      <4> QED BY <1>1, <4>2
    <3>4. FilledBlock(Room + (k - 1) * DataSize)[m] =
            IF i < size + Gap THEN 0 ELSE Byte(i - job.off)
      <4>1. k \in 1 .. NewCount
        BY <1>1
      <4>2. i = (Ext(size) + k - 1) * DataSize + m
        BY <2>1, <3>3
      <4> QED BY <2>3, <4>1, <4>2, FilledCells
    <3>5. ~(i < s)
      <4>1. PICK x \in Nat, y \in Nat : x = q * DataSize /\ y = e * DataSize
        BY ProductType, FileAssumption
      <4>2. y <= x
        <5>1. e <= q
          BY <1>1, <2>7
        <5>2. e * DataSize <= q * DataSize
          BY <5>1, Monotone, FileAssumption
        <5> QED BY <4>1, <5>2
      <4>3. PICK r \in Nat : s + r = y
        <5>1. Room \in 0 .. DataSize /\ size + Room = Ext(size) * DataSize
          BY Allocated
        <5>2. Room \in Nat
          BY <5>1, FileAssumption
        <5>3. s + Room = y
          BY <1>1, <4>1, <5>1
        <5> QED BY <5>2, <5>3
      <4>4. i = x + m /\ m \in Nat
        BY <2>1, <4>1, FileAssumption DEF Positions
      <4> QED BY <4>2, <4>3, <4>4
    <3> QED BY <2>4, <3>2, <3>4, <3>5
  <2> QED BY <2>5, <2>6, <2>7
<1> QED BY <1>1, <1>8, <1>9

\* The clusters of a write are taken from the free ones.
LEMMA AllocIInv == IInv /\ AllocClusters => IInv'
<1> SUFFICES ASSUME IInv, AllocClusters PROVE IInv'
  OBVIOUS
<1>1. /\ TypeOK /\ Begun /\ fresh = <<>> /\ got = <<>> /\ pc = "extend"
      /\ Len(blocks) = Ext(size) /\ Len(blocks) \in Nat
      /\ free \in Nat /\ free <= ClusterCount /\ free + Len(blocks) <= ClusterCount
  BY DEF IInv, TypeOK, FreshInv, BufferInv, LengthInv, FreeInv, AllocClusters
<1>2. PICK c \in Nat, n \in Nat : c = NewCount /\ n = Len(blocks)
  BY <1>1, Allocated
<1>3. CASE ~(NewCount <= free)
  <2>1. free' = Greater(0, free - 1) /\ Fail
    BY <1>3 DEF AllocClusters
  <2>2. free' \in Nat /\ free' <= free
    BY <1>1, <2>1 DEF Greater
  <2>3. free' + Len(blocks) <= ClusterCount
    BY <1>1, <2>2, FileAssumption
  <2> QED BY <1>1, <2>1, <2>2, <2>3, Failed
<1>4. CASE c <= free
  <2>1. /\ free' = free - c /\ job' = [job EXCEPT !.done = 0]
        /\ pc' = IF c = 0 THEN "hook" ELSE "fill"
        /\ UNCHANGED <<size, blocks, fresh, got, ret>>
    BY <1>2, <1>4 DEF AllocClusters
  <2>2. /\ job'.kind = job.kind /\ job'.off = job.off /\ job'.len = job.len
        /\ job'.overlap = job.overlap /\ job'.at = job.at /\ job'.done = 0
        /\ job' \in [kind : Kinds \cup {"none"}, off : 0 .. MaxEnd, len : 0 .. MaxEnd,
                     overlap : 0 .. MaxEnd, at : Nat, local : Positions, done : 0 .. MaxEnd]
    <3>1. 0 \in 0 .. MaxEnd
      BY FileAssumption
    <3> QED BY <1>1, <2>1, <3>1 DEF TypeOK
  <2>3. free' \in 0 .. ClusterCount /\ free' + n + c <= ClusterCount /\ free' + n <= ClusterCount
    BY <1>1, <1>2, <1>4, <2>1, FileAssumption
  <2>4. TypeOK'
    BY <1>1, <2>1, <2>2, <2>3 DEF TypeOK
  <2>5. NewCount' = c /\ NewSize' = NewSize
    BY <1>2, <2>1, <2>2, SameGrowth
  <2>6. FreshInv'
    BY <1>1, <1>2, <2>1, <2>2, <2>5 DEF FreshInv
  <2>7. FreeInv' /\ LengthInv' /\ Begun' /\ BufferInv'
    BY <1>1, <1>2, <2>1, <2>2, <2>3, <2>5 DEF FreeInv, LengthInv, Begun, BufferInv
  <2>8. ExtendInv'
    <3>1. /\ job.kind # "read" /\ size < NewSize /\ job.at + 1 = Ext(size)
          /\ job.kind = "write" => /\ job.overlap = FittedLen(job.off, job.len)
                                   /\ Written(job.overlap)
      BY <1>1 DEF IInv, ExtendInv
    <3>2. FittedLen(job.off, job.len)' = FittedLen(job.off, job.len)
      BY <2>1, <2>2 DEF FittedLen, FittedOff
    <3>3. Written(job.overlap)' = Written(job.overlap)
      BY <2>1, <2>2 DEF Written, At
    <3> QED BY <2>1, <2>2, <2>5, <3>1, <3>2, <3>3 DEF ExtendInv
  <2> QED BY <2>1, <2>4, <2>6, <2>7, <2>8 DEF IInv, RwInv, ShrinkInv, CommitInv
<1> QED BY <1>2, <1>3, <1>4

\* The new clusters are filled one after the other.
LEMMA FillIInv == IInv /\ FillCluster => IInv'
<1> SUFFICES ASSUME IInv, FillCluster PROVE IInv'
  OBVIOUS
<1>1. /\ TypeOK /\ Begun /\ got = <<>> /\ pc = "fill" /\ fresh \in Seq(Block)
      /\ Len(blocks) = Ext(size)
      /\ free \in Nat /\ free + Len(blocks) + NewCount <= ClusterCount
  BY DEF IInv, TypeOK, BufferInv, LengthInv, FreeInv, FillCluster
<1>2. PICK c \in Nat, n \in Nat, d \in Nat :
        c = NewCount /\ n = Len(blocks) /\ d = job.done /\ d < c /\ Len(fresh) = d
  <2>1. NewCount \in Nat /\ Len(blocks) \in Nat /\ job.done \in Nat
    BY <1>1, Allocated DEF TypeOK
  <2>2. Len(fresh) = job.done /\ job.done < NewCount
    BY <1>1 DEF IInv, FreshInv
  <2> QED BY <2>1, <2>2
<1>3. CASE free' = free + NewCount /\ Fail
  <2>1. free' \in Nat /\ free' + Len(blocks) <= ClusterCount
    BY <1>1, <1>2, <1>3
  <2> QED BY <1>1, <1>3, <2>1, Failed
<1>4. CASE /\ fresh' = Append(fresh, FilledBlock(Room + job.done * DataSize))
           /\ job' = [job EXCEPT !.done = @ + 1]
           /\ pc' = IF job.done + 1 = NewCount THEN "hook" ELSE "fill"
           /\ UNCHANGED <<size, blocks, free, got, ret>>
  <2>1. PICK new \in Block : new = FilledBlock(Room + d * DataSize)
    <3>1. PICK x \in Nat : x = d * DataSize
      BY ProductType, FileAssumption
    <3>2. Room \in 0 .. DataSize
      BY <1>1, Allocated
    <3>3. Room + x \in Nat
      BY <3>2, FileAssumption
    <3> QED BY <1>1, <3>1, <3>3, FilledType
  <2>2. /\ fresh' \in Seq(Block) /\ Len(fresh') = d + 1
        /\ \A k \in 1 .. d : fresh'[k] = fresh[k]
        /\ fresh'[d + 1] = new
    <3>1. fresh' = Append(fresh, new)
      BY <1>2, <1>4, <2>1
    <3> QED BY <1>1, <1>2, <3>1, AppendProperties
  <2>3. d + 1 \in 0 .. MaxEnd /\ d + 1 <= c
    <3>1. d + 1 <= c
      BY <1>2
    <3>2. c <= NewSize /\ NewSize \in 0 .. MaxEnd
      <4>1. PICK u \in Nat : u = NewSize /\ u \in 0 .. MaxEnd /\ u > 0
        BY <1>1, Growth
      <4>2. Ext(u) <= u
        <5>1. LastByte(u) = u - 1 /\ u - 1 \in Nat
          BY <4>1 DEF LastByte
        <5>2. PICK q \in Nat, m \in Positions : /\ q = (u - 1) \div DataSize
                                               /\ u - 1 = q * DataSize + m
          BY <5>1, Split
        <5>3. q * 1 <= DataSize * q
          BY Monotone, FileAssumption
        <5>4. PICK x \in Nat : x = q * DataSize /\ q <= x
          BY <5>3, ProductType, FileAssumption
        <5>5. Ext(u) = q + 1
          BY <5>1, <5>2, <4>1, ExtOf
        <5>6. m \in Nat
          BY FileAssumption DEF Positions
        <5> QED BY <5>2, <5>4, <5>5, <5>6, <4>1
      <4>3. PICK e \in Nat : e = Ext(size) /\ Ext(u) = e + c
        BY <1>1, <1>2, <4>1, Allocated
      <4> QED BY <4>1, <4>2, <4>3
    <3> QED BY <3>1, <3>2, FileAssumption
  <2>4. /\ job'.kind = job.kind /\ job'.off = job.off /\ job'.len = job.len
        /\ job'.overlap = job.overlap /\ job'.at = job.at /\ job'.done = d + 1
        /\ job' \in [kind : Kinds \cup {"none"}, off : 0 .. MaxEnd, len : 0 .. MaxEnd,
                     overlap : 0 .. MaxEnd, at : Nat, local : Positions, done : 0 .. MaxEnd]
    <3>1. job' = [job EXCEPT !.done = d + 1]
      BY <1>2, <1>4
    <3> QED BY <1>1, <2>3, <3>1 DEF TypeOK
  <2>5. pc' = IF d + 1 = c THEN "hook" ELSE "fill"
    BY <1>2, <1>4
  <2>6. TypeOK'
    BY <1>1, <1>4, <2>2, <2>4, <2>5 DEF TypeOK
  <2>7. NewCount' = c /\ Room' = Room /\ \A x : FilledBlock(x)' = FilledBlock(x)
    BY <1>2, <1>4, <2>4, SameGrowth
  <2>8. NewSize' = NewSize
    BY <1>4, <2>4, SameGrowth
  <2>9. FreshInv'
    <3>1. (\A k \in 1 .. Len(fresh) : fresh[k] = FilledBlock(Room + (k - 1) * DataSize))'
      <4>1. \A k \in 1 .. d + 1 : fresh'[k] = FilledBlock(Room + (k - 1) * DataSize)
        <5> SUFFICES ASSUME NEW k \in 1 .. d + 1
                     PROVE  fresh'[k] = FilledBlock(Room + (k - 1) * DataSize)
          OBVIOUS
        <5>1. CASE k = d + 1
          <6>1. k - 1 = d
            BY <5>1
          <6> QED BY <2>1, <2>2, <5>1, <6>1
        <5>2. CASE k # d + 1
          <6>1. k \in 1 .. d /\ k \in 1 .. Len(fresh)
            BY <1>2, <5>2
          <6>2. fresh[k] = FilledBlock(Room + (k - 1) * DataSize)
            BY <6>1 DEF IInv, FreshInv
          <6> QED BY <2>2, <6>1, <6>2
        <5> QED BY <5>1, <5>2
      <4> QED BY <2>2, <2>7, <4>1
    <3>2. (pc = "fill" => Len(fresh) = job.done /\ job.done < NewCount)'
      BY <2>2, <2>3, <2>4, <2>5, <2>7
    <3>3. (pc = "hook" => Len(fresh) = NewCount)'
      BY <2>2, <2>5, <2>7
    <3>4. (pc \notin {"fill", "hook"} => fresh = <<>>)'
      BY <2>5
    <3> QED BY <3>1, <3>2, <3>3, <3>4 DEF FreshInv
  <2>10. FreeInv' /\ LengthInv' /\ Begun' /\ BufferInv'
    <3>1. free' + n <= ClusterCount /\ free' + n + c <= ClusterCount
      BY <1>1, <1>2, <1>4, FileAssumption
    <3> QED BY <1>1, <1>2, <1>4, <2>4, <2>5, <2>7, <3>1 DEF FreeInv, LengthInv, Begun, BufferInv
  <2>11. ExtendInv'
    <3>1. /\ job.kind # "read" /\ size < NewSize /\ job.at + 1 = Ext(size)
          /\ job.kind = "write" => /\ job.overlap = FittedLen(job.off, job.len)
                                   /\ Written(job.overlap)
      BY <1>1 DEF IInv, ExtendInv
    <3>2. FittedLen(job.off, job.len)' = FittedLen(job.off, job.len)
      BY <1>4, <2>4 DEF FittedLen, FittedOff
    <3>3. Written(job.overlap)' = Written(job.overlap)
      BY <1>4, <2>4 DEF Written, At
    <3> QED BY <1>4, <2>4, <2>8, <3>1, <3>2, <3>3 DEF ExtendInv
  <2> QED BY <2>5, <2>6, <2>9, <2>10, <2>11 DEF IInv, RwInv, ShrinkInv, CommitInv
<1> QED BY <1>3, <1>4 DEF FillCluster

\* The chain is written back as long as the new size needs, with all that the
\* size will be committed for.
LEMMA HookIInv == IInv /\ Hook => IInv'
<1> SUFFICES ASSUME IInv, Hook PROVE IInv'
  OBVIOUS
<1>1. /\ TypeOK /\ Begun /\ got = <<>> /\ pc = "hook"
      /\ Len(blocks) = Ext(size)
      /\ free \in Nat /\ free + Len(blocks) + NewCount <= ClusterCount
  BY DEF IInv, TypeOK, BufferInv, LengthInv, FreeInv, Hook
<1>2. PICK c \in Nat, n \in Nat : c = NewCount /\ n = Len(blocks) /\ Ext(NewSize) = n + c
  BY <1>1, Allocated
<1>3. CASE free' = free + NewCount /\ Fail
  <2>1. free' \in Nat /\ free' + Len(blocks) <= ClusterCount
    BY <1>1, <1>2, <1>3
  <2> QED BY <1>1, <1>3, <2>1, Failed
<1>4. CASE /\ job.at < Len(blocks)
           /\ blocks' = [blocks EXCEPT ![job.at + 1] = HookedBlock(@)] \o fresh
           /\ fresh' = <<>> /\ pc' = "commit"
           /\ UNCHANGED <<size, free, job, got, ret>>
  <2>1. PICK chain : chain = blocks'
    OBVIOUS
  <2>2. /\ chain \in Seq(Block) /\ Len(chain) = Ext(NewSize)
        /\ \A i \in 0 .. NewSize - 1 : Cell(chain, i) =
             IF i < size THEN At(i)
             ELSE IF i < size + Gap THEN 0 ELSE Byte(i - job.off)
    BY <1>1, <1>4, <2>1, HookedChain
  <2>3. \A i : At(i)' = Cell(chain, i)
    BY <2>1 DEF At, Cell
  <2>4. NewSize' = NewSize
    BY <1>4 DEF NewSize
  <2>5. TypeOK'
    BY <1>1, <1>4, <2>1, <2>2 DEF TypeOK
  <2>6. LengthInv' /\ Begun' /\ BufferInv' /\ FreshInv' /\ FreeInv'
    <3>1. free' + Len(blocks)' <= ClusterCount
      <4>1. Len(blocks') = n + c
        BY <1>2, <2>1, <2>2
      <4>2. free + n + c <= ClusterCount
        BY <1>1, <1>2
      <4> QED BY <1>1, <1>4, <4>1, <4>2, FileAssumption
    <3> QED BY <1>1, <1>4, <2>1, <2>2, <2>4, <3>1
          DEF LengthInv, Begun, BufferInv, FreshInv, FreeInv
  <2>7. CommitInv'
    <3>1. PICK s \in Nat, u \in Nat, g \in Nat, d \in Nat, off \in Nat, len \in Nat, m \in Nat :
            /\ s = size /\ u = NewSize /\ g = Gap /\ d = Data /\ off = job.off /\ len = job.len
            /\ m = job.overlap
            /\ s < u /\ s + g + d = u
            /\ job.kind = "write" => /\ off + m = s + g /\ off + len = u
                                     /\ off < s => g = 0
                                     /\ s <= off => m = 0
            /\ job.kind # "write" => d = 0
      <4>1. /\ size \in Nat /\ NewSize \in Nat /\ Gap \in Nat /\ Data \in Nat
            /\ job.off \in Nat /\ job.len \in Nat /\ job.overlap \in Nat
        BY <1>1, Growth
      <4>2. /\ size < NewSize /\ size + Gap + Data = NewSize
            /\ job.kind = "write" => /\ job.off + job.overlap = size + Gap
                                     /\ job.off + job.len = NewSize
                                     /\ job.off < size => Gap = 0
                                     /\ size <= job.off => job.overlap = 0
            /\ job.kind # "write" => Data = 0
        BY <1>1, Growth
      <4> QED BY <4>1, <4>2
    <3>2. \A i \in 0 .. u - 1 : At(i)' = IF i < s THEN At(i)
                                         ELSE IF i < s + g THEN 0 ELSE Byte(i - off)
      BY <2>2, <2>3, <3>1
    <3>3. ASSUME job.kind = "write", NEW i \in off .. off + len - 1
          PROVE  At(i)' = Byte(i - off)
      <4>1. i \in 0 .. u - 1
        BY <3>1, <3>3
      <4>2. CASE i < s
        <5>1. i \in off .. off + m - 1
          BY <3>1, <3>3, <4>2
        <5>2. At(i) = Byte(i - off)
          BY <1>1, <3>1, <3>3, <5>1 DEF IInv, ExtendInv, Written
        <5> QED BY <3>2, <4>1, <4>2, <5>2
      <4>3. CASE ~(i < s)
        <5>1. ~(i < s + g)
          BY <3>1, <3>3, <4>3
        <5> QED BY <3>2, <4>1, <4>3, <5>1
      <4> QED BY <4>2, <4>3
    <3>4. ASSUME NEW i \in s .. u - 1
          PROVE  At(i)' = 0 \/ (job.kind = "write" /\ off <= i)
      <4>1. i \in 0 .. u - 1 /\ ~(i < s)
        BY <3>1
      <4>2. CASE i < s + g
        BY <3>2, <4>1, <4>2
      <4>3. CASE ~(i < s + g)
        <5>1. d # 0
          BY <3>1, <4>3
        <5>2. job.kind = "write"
          BY <3>1, <5>1
        <5>3. off <= s + g
          BY <3>1, <5>2
        <5> QED BY <4>3, <5>2, <5>3
      <4> QED BY <4>2, <4>3
    <3>5. job.kind # "read"
      BY <1>1 DEF IInv, ExtendInv
    <3>6. (job.kind = "write" => Written(job.len))'
      BY <1>4, <3>1, <3>3 DEF Written
    <3>7. (\A i \in size .. NewSize - 1 : At(i) = 0 \/ (job.kind = "write" /\ job.off <= i))'
      BY <1>4, <2>4, <3>1, <3>4
    <3>8. (size < NewSize)'
      BY <1>4, <2>4, <3>1
    <3> QED BY <1>4, <3>5, <3>6, <3>7, <3>8 DEF CommitInv
  <2> QED BY <1>4, <2>5, <2>6, <2>7 DEF IInv, RwInv, ExtendInv, ShrinkInv
<1> QED BY <1>3, <1>4 DEF Hook

\* A chain that is cut has as many clusters as the new size needs.
LEMMA ShrinkIInv == IInv /\ Shrink => IInv'
<1> SUFFICES ASSUME IInv, Shrink PROVE IInv'
  OBVIOUS
<1>1. /\ TypeOK /\ Begun /\ got = <<>> /\ fresh = <<>> /\ pc = "shrink"
      /\ job.kind = "ftruncate" /\ job.off < size /\ job.at + 1 = Ext(job.off)
      /\ Len(blocks) = Ext(size) /\ blocks \in Seq(Block)
      /\ free \in Nat /\ free + Len(blocks) <= ClusterCount
  BY DEF IInv, TypeOK, BufferInv, FreshInv, LengthInv, FreeInv, ShrinkInv, Shrink
<1>2. CASE Fail /\ UNCHANGED free
  BY <1>1, <1>2, Failed
<1>3. CASE /\ job.at < Len(blocks)
           /\ blocks' = SubSeq(blocks, 1, job.at + 1)
           /\ free' = free + Len(blocks) - (job.at + 1)
           /\ pc' = "commit"
           /\ UNCHANGED <<size, job, fresh, got, ret>>
  <2>1. PICK n \in Nat, a \in Nat : n = Len(blocks) /\ a = job.at
    BY <1>1 DEF TypeOK
  <2>2. a + 1 \in 0 .. n
    BY <1>3, <2>1
  <2>3. blocks' \in Seq(Block) /\ Len(blocks') = a + 1
    <3>1. blocks' = SubSeq(blocks, 1, a + 1)
      BY <1>3, <2>1
    <3>2. \A k \in 1 .. a + 1 : k \in 1 .. Len(blocks)
      BY <2>1, <2>2
    <3> QED BY <1>1, <2>1, <2>2, <3>1, <3>2, SubSeqProperties
  <2>4. free' \in 0 .. ClusterCount /\ free' + (a + 1) <= ClusterCount
    <3>1. PICK f \in Nat : f = free /\ f + n <= ClusterCount
      BY <1>1, <2>1
    <3>2. free' = f + n - (a + 1)
      BY <1>3, <2>1, <3>1
    <3> QED BY <2>2, <3>1, <3>2, FileAssumption
  <2>5. NewSize' = job.off
    BY <1>1, <1>3 DEF NewSize
  <2>6. TypeOK'
    BY <1>1, <1>3, <2>3, <2>4 DEF TypeOK
  <2>7. LengthInv' /\ FreeInv'
    <3>1. Len(blocks') = Ext(job.off)
      BY <1>1, <2>1, <2>3
    <3> QED BY <1>3, <2>3, <2>4, <2>5, <3>1 DEF LengthInv, FreeInv
  <2>8. CommitInv'
    <3>1. size \in Nat /\ job.off \in Nat
      BY <1>1 DEF TypeOK
    <3> QED BY <1>1, <1>3, <2>5, <3>1 DEF CommitInv
  <2>9. Begun' /\ BufferInv' /\ FreshInv'
    BY <1>1, <1>3 DEF Begun, BufferInv, FreshInv
  <2> QED BY <1>3, <2>6, <2>7, <2>8, <2>9 DEF IInv, RwInv, ExtendInv, ShrinkInv
<1> QED BY <1>2, <1>3 DEF Shrink

\* A size that is committed fits its entry.
LEMMA SizeFits ==
  ASSUME IInv, pc = "commit"
  PROVE  NewSize \in 0 .. MaxEnd /\ NewSize % SizeWord = NewSize
<1>1. NewSize \in 0 .. MaxEnd
  <2>1. PICK s \in Nat, off \in Nat, len \in Nat :
          s = size /\ off = job.off /\ len = job.len /\ s <= MaxEnd /\ off + len <= MaxEnd
          /\ off <= MaxEnd
    BY DEF IInv, TypeOK, Begun
  <2>2. \/ NewSize = Greater(s, off + len)
        \/ NewSize = off
        \/ NewSize = off + len
    BY <2>1 DEF NewSize
  <2> QED BY <2>1, <2>2, FileAssumption DEF Greater
<1>2. PICK u \in Nat, n \in Nat, f \in Nat :
        /\ u = NewSize /\ n = Len(blocks) /\ f = free /\ n = Ext(u) /\ f + n <= ClusterCount
  <2>1. Len(blocks) \in Nat /\ free \in Nat
    BY DEF IInv, TypeOK
  <2>2. Len(blocks) = Ext(NewSize) /\ free + Len(blocks) <= ClusterCount
    BY DEF IInv, LengthInv, FreeInv
  <2> QED BY <1>1, <2>1, <2>2, FileAssumption
<1>3. u <= DataSize * n
  BY <1>2, InExtent
<1>4. n * DataSize <= ClusterCount * DataSize
  BY <1>2, Monotone, FileAssumption
<1>5. u < SizeWord
  <2>1. PICK x \in Nat, y \in Nat : x = DataSize * n /\ y = DataSize * ClusterCount
    BY ProductType, FileAssumption
  <2>2. x <= y
    BY <1>4, <2>1, FileAssumption
  <2> QED BY <1>3, <2>1, <2>2, FileAssumption
<1>6. u % SizeWord = u
  BY <1>5, FileAssumption
<1> QED BY <1>1, <1>2, <1>6

\* The size is committed for the chain that is there.
LEMMA CommitIInv == IInv /\ Commit => IInv'
<1> SUFFICES ASSUME IInv, Commit PROVE IInv'
  OBVIOUS
<1>1. pc = "commit" /\ Return("ok") /\ UNCHANGED <<blocks, free, got>>
      /\ size' = NewSize % SizeWord
  BY DEF Commit
<1>2. size' \in 0 .. MaxEnd /\ size' = NewSize
  BY <1>1, SizeFits
<1>3. TypeOK /\ Len(blocks) = Ext(size') /\ free' \in Nat /\ free' + Len(blocks) <= ClusterCount
      /\ got' \in Seq(Bytes)
  BY <1>1, <1>2 DEF IInv, TypeOK, LengthInv, FreeInv
<1> QED BY <1>1, <1>2, <1>3, Ended

\* The invariant is inductive.
LEMMA Inductive == Spec => []IInv
<1>1. IInv /\ UNCHANGED vars => IInv'
  <2> SUFFICES ASSUME IInv, UNCHANGED vars PROVE IInv'
    OBVIOUS
  <2>1. /\ size' = size /\ blocks' = blocks /\ free' = free /\ pc' = pc /\ job' = job
        /\ fresh' = fresh /\ got' = got /\ ret' = ret
    BY DEF vars
  <2>2. TypeOK' /\ Begun' /\ BufferInv' /\ LengthInv'
    BY <2>1 DEF IInv, TypeOK, Begun, BufferInv, LengthInv, NewSize
  <2>3. NewCount' = NewCount /\ Room' = Room /\ NewSize' = NewSize
        /\ \A x : FilledBlock(x)' = FilledBlock(x)
    BY <2>1, SameGrowth
  <2>4. FreshInv' /\ FreeInv'
    BY <2>1, <2>3 DEF IInv, FreshInv, FreeInv
  <2>5. /\ \A i : At(i)' = At(i)
        /\ FittedLen(job.off, job.len)' = FittedLen(job.off, job.len)
        /\ \A n : Written(n)' = Written(n)
    BY <2>1 DEF At, Written, FittedLen, FittedOff
  <2>6. Written(job.done)' = Written(job.done) /\ Written(job.overlap)' = Written(job.overlap)
        /\ Written(job.len)' = Written(job.len)
    BY <2>1 DEF Written, At
  <2>7. RwInv' /\ ExtendInv' /\ ShrinkInv'
    BY <2>1, <2>3, <2>5, <2>6 DEF IInv, RwInv, ExtendInv, ShrinkInv
  <2>8. CommitInv'
    BY <2>1, <2>3, <2>5, <2>6 DEF IInv, CommitInv
  <2> QED BY <2>2, <2>4, <2>7, <2>8 DEF IInv
<1>2. IInv /\ Next => IInv'
  BY BeginIInv, GetSizeIInv, RwChunkIInv, AllocIInv, FillIInv, HookIInv, ShrinkIInv, CommitIInv
     DEF Next
<1> QED BY InitIInv, <1>1, <1>2, PTL DEF Spec

\* The offsets, lengths and counts that the operations compute stay within the
\* file and within a cluster, and no byte but those of the file, the caller's
\* and what a buffer held before comes into the chain.
THEOREM TypeCorrect == Spec => []TypeOK
<1>1. IInv => TypeOK
  BY DEF IInv
<1> QED BY Inductive, <1>1, PTL

----------------------------------------------------------------------------
(* The refinement: what the abstract file is at each step *)

\* What the mapping gives for the buffer and the result.
AbsGot == IF pc = "idle" THEN got ELSE <<>>
AbsRet == IF Cutting THEN "ok" ELSE ret
Extent == IF Cutting THEN job.off ELSE size

\* The abstract file holds the bytes up to the size, where find_cluster leads.
LEMMA ContentCells ==
  ASSUME IInv
  PROVE  /\ Extent \in Nat /\ Len(Content) = Extent
         /\ Content = [i \in 1 .. Extent |-> At(i - 1)]
<1>1. Extent \in Nat
  BY DEF IInv, TypeOK, Extent
<1>2. PICK n \in Nat : n = Extent
  BY <1>1
<1>3. Content = [i \in 1 .. n |-> At(i - 1)]
  BY <1>2 DEF Content, Extent, At, Cell
<1>4. Len(Content) = n
  BY <1>3
<1> QED BY <1>2, <1>3, <1>4

\* No operation is under way between two of them, and none has none's kind.
LEMMA AbsOpIs ==
  ASSUME IInv
  PROVE  /\ pc = "idle" \/ Cutting => AbsOp = File!NoOp
         /\ pc # "idle" /\ ~Cutting =>
              /\ AbsOp.kind = job.kind /\ AbsOp.off = job.off /\ AbsOp.len = job.len
              /\ AbsOp # File!NoOp
<1>1. pc = "idle" \/ Cutting => AbsOp = File!NoOp
  BY DEF AbsOp, File!NoOp
<1>2. ASSUME pc # "idle", ~Cutting
      PROVE  /\ AbsOp.kind = job.kind /\ AbsOp.off = job.off /\ AbsOp.len = job.len
             /\ AbsOp # File!NoOp
  <2>1. AbsOp = [kind |-> job.kind, off |-> job.off, len |-> job.len]
    BY <1>2 DEF AbsOp
  <2>2. job.kind # "none"
    BY <1>2 DEF IInv, Begun, Kinds
  <2> QED BY <2>1, <2>2 DEF File!NoOp
<1> QED BY <1>1, <1>2

\* What a write makes of a file.
LEMMA ResultWrite ==
  ASSUME NEW c, NEW n \in Nat, Len(c) = n, NEW off \in Nat, NEW len \in Nat,
         NEW o, o.kind = "write", o.off = off, o.len = len
  PROVE  File!Result(c, o) =
           [i \in 1 .. Greater(n, off + len) |->
              IF off < i /\ i <= off + len THEN Byte(i - 1 - off)
              ELSE IF i <= n THEN c[i] ELSE 0]
<1>1. File!End(o) = off + len
  BY DEF File!End
<1>2. File!Longer(Len(c), File!End(o)) = Greater(n, off + len)
  BY <1>1 DEF File!Longer, Greater
<1>3. PICK u \in Nat : u = Greater(n, off + len)
  BY DEF Greater
<1>4. File!Resized(c, u) = [i \in 1 .. u |-> IF i <= n THEN c[i] ELSE 0]
  BY DEF File!Resized
<1>5. File!Result(c, o) = [i \in 1 .. u |->
         IF off < i /\ i <= off + len THEN Byte(i - 1 - off) ELSE File!Resized(c, u)[i]]
  BY <1>1, <1>2, <1>3 DEF File!Result, File!Byte, Byte
<1> QED BY <1>3, <1>4, <1>5

\* What a change of size makes of a file, and a read.
LEMMA ResultResize ==
  ASSUME NEW c, NEW n \in Nat, Len(c) = n, NEW off \in Nat, NEW len \in Nat,
         NEW o, o.off = off, o.len = len
  PROVE  /\ o.kind = "fallocate" => File!Result(c, o) =
              [i \in 1 .. Greater(n, off + len) |-> IF i <= n THEN c[i] ELSE 0]
         /\ o.kind = "ftruncate" => File!Result(c, o) =
              [i \in 1 .. off |-> IF i <= n THEN c[i] ELSE 0]
         /\ o.kind = "read" => File!Result(c, o) = c
<1>1. File!End(o) = off + len
  BY DEF File!End
<1>2. File!Longer(Len(c), File!End(o)) = Greater(n, off + len)
  BY <1>1 DEF File!Longer, Greater
<1>3. o.kind = "fallocate" => File!Result(c, o) = File!Resized(c, Greater(n, off + len))
  BY <1>2 DEF File!Result
<1>4. o.kind = "ftruncate" => File!Result(c, o) = File!Resized(c, off)
  BY DEF File!Result
<1>5. o.kind = "read" => File!Result(c, o) = c
  BY DEF File!Result
<1> QED BY <1>3, <1>4, <1>5 DEF File!Resized

\* Content that no step touches.
LEMMA SameContent ==
  ASSUME IInv, IInv', ~Cutting, ~Cutting', size' = size,
         \A i \in 0 .. size - 1 : At(i)' = At(i)
  PROVE  Content' = Content
<1>1. PICK n \in Nat : n = size /\ Extent = n /\ Extent' = n
  BY DEF Extent, IInv, TypeOK
<1>2. Content = [i \in 1 .. n |-> At(i - 1)]
  BY <1>1, ContentCells
<1>3. Content' = [i \in 1 .. n |-> At(i - 1)']
  <2>1. (IF Cutting THEN job.off ELSE size)' = n
    BY <1>1 DEF Extent
  <2> QED BY <2>1 DEF Content, At, Cell
<1>4. \A i \in 1 .. n : At(i - 1)' = At(i - 1)
  <2> SUFFICES ASSUME NEW i \in 1 .. n PROVE At(i - 1)' = At(i - 1)
    OBVIOUS
  <2>1. PICK k \in 0 .. n - 1 : k = i - 1
    OBVIOUS
  <2> QED BY <1>1, <2>1
<1> QED BY <1>2, <1>3, <1>4

\* The first step of an operation: it is under way.
LEMMA BeginStep ==
  ASSUME IInv, IInv', NEW kind \in Kinds, NEW off \in 0 .. MaxEnd, NEW len \in 0 .. MaxEnd,
         Begin(kind, off, len)
  PROVE  File!Begin
<1>1. /\ pc = "idle" /\ pc' = "size" /\ got' = <<>> /\ ret' = "none"
      /\ size' = size /\ blocks' = blocks
      /\ job'.kind = kind /\ job'.off = off /\ job'.len = len
  BY DEF Begin, NoJob
<1>2. ~Cutting /\ ~Cutting'
  BY <1>1 DEF Cutting
<1>3. Content' = Content
  BY <1>1, <1>2, SameContent DEF At
<1>4. AbsOp = File!NoOp
  BY <1>1, AbsOpIs
<1>5. AbsOp' = [kind |-> kind, off |-> off, len |-> len]
  BY <1>1, <1>2 DEF AbsOp
<1>6. AbsOp' \in File!Operations
  BY <1>5 DEF File!Operations
<1> QED BY <1>1, <1>2, <1>3, <1>4, <1>6 DEF File!Begin

\* An operation that fails leaves the file as it is.
LEMMA FailStep ==
  ASSUME IInv, IInv', pc \notin {"idle", "commit"}, Fail
  PROVE  File!Fail
<1>1. /\ pc' = "idle" /\ got' = <<>> /\ ret' = "error" /\ size' = size /\ blocks' = blocks
  BY DEF Fail, Return
<1>2. ~Cutting /\ ~Cutting' /\ pc # "idle"
  BY <1>1 DEF Cutting
<1>3. Content' = Content
  BY <1>1, <1>2, SameContent DEF At
<1>4. AbsOp # File!NoOp
  BY <1>2, AbsOpIs
<1>5. AbsOp' = File!NoOp
  BY <1>1 DEF AbsOp, File!NoOp
<1> QED BY <1>1, <1>2, <1>3, <1>4, <1>5 DEF File!Fail

\* A step in the middle of an operation is none of the file's.
LEMMA MiddleStep ==
  ASSUME IInv, IInv', pc # "idle", pc' # "idle", ~Cutting, ~Cutting',
         job'.kind = job.kind, job'.off = job.off, job'.len = job.len,
         size' = size, ret' = ret, \A i \in 0 .. size - 1 : At(i)' = At(i)
  PROVE  UNCHANGED <<Content, AbsOp, AbsGot, AbsRet>>
<1>1. Content' = Content
  BY SameContent
<1>2. AbsOp' = AbsOp
  BY DEF AbsOp
<1>3. AbsGot' = AbsGot /\ AbsRet' = AbsRet
  BY DEF AbsGot, AbsRet
<1> QED BY <1>1, <1>2, <1>3

\* What is left to show of a step with which an operation other than a read
\* takes effect.
LEMMA FinishStep ==
  ASSUME IInv, IInv', pc # "idle", ~Cutting, job.kind # "read",
         pc' = "idle" \/ Cutting', pc' = "idle" => ret' = "ok" /\ got' = <<>>,
         Content' = File!Result(Content, AbsOp)
  PROVE  File!Finish
<1>1. AbsOp.kind = job.kind /\ AbsOp # File!NoOp
  BY AbsOpIs
<1>2. AbsOp' = File!NoOp
  BY DEF AbsOp, File!NoOp
<1>3. AbsRet' = "ok" /\ AbsGot' = <<>>
  BY DEF AbsRet, AbsGot, Cutting
<1>4. AbsOp.kind # "read" /\ Content' = File!Result(Content, AbsOp)
  BY <1>1
<1> QED BY <1>1, <1>2, <1>3, <1>4 DEF File!Finish, AbsRet, AbsGot

\* And of the last step of a read.
LEMMA ReadStep ==
  ASSUME IInv, IInv', pc # "idle", pc' = "idle", job.kind = "read", ret' = "ok",
         size' = size, blocks' = blocks,
         got' = SubSeq(Content, job.off + 1, Lesser(job.off + job.len, size))
  PROVE  File!Finish
<1>1. ~Cutting /\ ~Cutting'
  BY DEF Cutting
<1>2. Content' = Content
  BY <1>1, SameContent DEF At
<1>3. /\ AbsOp.kind = "read" /\ AbsOp.off = job.off /\ AbsOp.len = job.len
      /\ AbsOp # File!NoOp
  BY <1>1, AbsOpIs
<1>4. AbsOp' = File!NoOp
  BY DEF AbsOp, File!NoOp
<1>5. Len(Content) = size /\ size \in Nat /\ job.off \in Nat /\ job.len \in Nat
  BY <1>1, ContentCells DEF Extent, IInv, TypeOK
<1>6. File!Result(Content, AbsOp) = Content
  BY <1>3, <1>5, ResultResize
<1>7. File!Shorter(File!End(AbsOp), Len(Content)) = Lesser(job.off + job.len, size)
  BY <1>3, <1>5 DEF File!Shorter, File!End, Lesser
<1>8. got' = SubSeq(Content, AbsOp.off + 1, File!Shorter(File!End(AbsOp), Len(Content)))
  BY <1>3, <1>7
<1> QED BY <1>1, <1>2, <1>3, <1>4, <1>6, <1>8 DEF File!Finish

----------------------------------------------------------------------------
(* The refinement: the steps of the operations *)

\* What a read or a write does first, and a read past the end at once.
LEMMA RwBeginsStep ==
  ASSUME IInv, IInv', pc = "size", BeginRw, UNCHANGED <<size, blocks, got>>
  PROVE  File!Finish \/ UNCHANGED <<Content, AbsOp, AbsGot, AbsRet>>
<1>1. job.kind \in {"read", "write"} /\ pc # "idle" /\ ~Cutting
  BY DEF BeginRw, Cutting
<1>2. size' = size /\ blocks' = blocks /\ got' = got /\ \A i : At(i)' = At(i)
  BY DEF At
<1>3. CASE /\ FittedLen(job.off, job.len) = 0 /\ job.kind = "read" /\ Return("ok")
  <2>1. pc' = "idle" /\ ret' = "ok" /\ got = <<>>
    BY <1>1, <1>3 DEF Return, IInv, BufferInv
  <2>2. PICK s \in Nat, off \in Nat, len \in Nat : s = size /\ off = job.off /\ len = job.len
    BY Numbers
  <2>3. len # 0
    BY <1>3, <2>2 DEF IInv, Begun
  <2>4. s <= off
    BY <1>1, <1>3, <2>2, <2>3, Fitted
  <2>5. PICK e \in Int : e = Lesser(off + len, s) /\ e < off + 1
    BY <2>4 DEF Lesser
  <2>6. SubSeq(Content, off + 1, e) = <<>>
    BY <2>5, SubSeqEmpty
  <2>7. got' = SubSeq(Content, job.off + 1, Lesser(job.off + job.len, size))
    BY <1>2, <2>1, <2>2, <2>5, <2>6
  <2> QED BY <1>1, <1>2, <1>3, <2>1, <2>7, ReadStep
<1>4. CASE /\ pc' \in {"rw", "extend"} /\ ret' = ret
           /\ job'.kind = job.kind /\ job'.off = job.off /\ job'.len = job.len
  <2>1. pc' # "idle" /\ ~Cutting'
    BY <1>4 DEF Cutting
  <2> QED BY <1>1, <1>2, <1>4, <2>1, MiddleStep
<1>5. \/ /\ FittedLen(job.off, job.len) = 0 /\ job.kind = "read" /\ Return("ok")
      \/ /\ pc' \in {"rw", "extend"} /\ ret' = ret
         /\ job'.kind = job.kind /\ job'.off = job.off /\ job'.len = job.len
  <2>1. job \in [kind : Kinds \cup {"none"}, off : 0 .. MaxEnd, len : 0 .. MaxEnd,
                 overlap : 0 .. MaxEnd, at : Nat, local : Positions, done : 0 .. MaxEnd]
    BY DEF IInv, TypeOK
  <2>2. PICK n, b, a, l : /\ n = FittedLen(job.off, job.len) /\ b = LastByte(size)
                          /\ a = FittedOff(job.off) \div DataSize
                          /\ l = FittedOff(job.off) % DataSize
    OBVIOUS
  <2>3. CASE /\ job' = [job EXCEPT !.overlap = n, !.at = a, !.local = l]
             /\ pc' = "rw" /\ UNCHANGED ret
    BY <2>1, <2>3
  <2>4. CASE FindCluster(b) /\ pc' = "extend" /\ UNCHANGED ret
    <3>1. PICK x, y : x = b \div DataSize /\ y = b % DataSize
      OBVIOUS
    <3>2. job' = [job EXCEPT !.at = x, !.local = y]
      BY <2>4, <3>1 DEF FindCluster
    <3> QED BY <2>1, <2>4, <3>2
  <2>5. \/ /\ job' = [job EXCEPT !.overlap = n, !.at = a, !.local = l]
           /\ pc' = "rw" /\ UNCHANGED ret
        \/ FindCluster(b) /\ pc' = "extend" /\ UNCHANGED ret
        \/ FittedLen(job.off, job.len) = 0 /\ job.kind = "read" /\ Return("ok")
    BY <2>2, Zenon DEF BeginRw
  <2> QED BY <2>3, <2>4, <2>5
<1> QED BY <1>3, <1>4, <1>5

\* A change of size to the size it is, and a truncation that frees nothing.
LEMMA ResizeBeginsStep ==
  ASSUME IInv, IInv', pc = "size", BeginResize, UNCHANGED <<size, blocks, got>>
  PROVE  File!Finish \/ UNCHANGED <<Content, AbsOp, AbsGot, AbsRet>>
<1>1. job.kind \in {"fallocate", "ftruncate"} /\ pc # "idle" /\ ~Cutting /\ got = <<>>
  BY DEF BeginResize, Cutting, IInv, BufferInv
<1>2. size' = size /\ blocks' = blocks /\ got' = got /\ \A i : At(i)' = At(i)
  BY DEF At
<1>3. PICK n \in Nat, off \in Nat, len \in Nat :
        n = size /\ off = job.off /\ len = job.len
  BY Numbers
<1>4. Content = [i \in 1 .. n |-> At(i - 1)] /\ Len(Content) = n
  BY <1>1, <1>3, ContentCells DEF Extent
<1>5. AbsOp.kind = job.kind /\ AbsOp.off = off /\ AbsOp.len = len
  BY <1>1, <1>3, AbsOpIs
<1>6. CASE /\ \/ job.kind = "fallocate" /\ job.off + job.len <= size
              \/ job.kind = "ftruncate" /\ job.off = size
           /\ Return("ok")
  <2>1. pc' = "idle" /\ ret' = "ok" /\ ~Cutting'
    BY <1>6 DEF Return, Cutting
  <2>2. Content' = Content
    BY <1>1, <1>2, <2>1, SameContent
  <2>3. File!Result(Content, AbsOp) =
          [i \in 1 .. n |-> IF i <= n THEN Content[i] ELSE 0]
    <3>1. CASE job.kind = "fallocate"
      <4>1. Greater(n, off + len) = n
        BY <1>3, <1>6, <3>1 DEF Greater
      <4> QED BY <1>4, <1>5, <3>1, <4>1, ResultResize
    <3>2. CASE job.kind = "ftruncate"
      <4>1. off = n
        BY <1>3, <1>6, <3>2
      <4> QED BY <1>4, <1>5, <3>2, <4>1, ResultResize
    <3> QED BY <1>1, <3>1, <3>2
  <2>4. Content = [i \in 1 .. n |-> IF i <= n THEN Content[i] ELSE 0]
    BY <1>4
  <2> QED BY <1>1, <1>2, <2>1, <2>2, <2>3, <2>4, FinishStep
<1>7. CASE /\ job.kind = "ftruncate" /\ job.off < size
           /\ pc' = "commit" /\ UNCHANGED <<job, fresh, ret>>
  <2>1. Cutting'
    BY <1>2, <1>7 DEF Cutting
  <2>2. Content' = [i \in 1 .. off |-> At(i - 1)]
    <3>1. (IF Cutting THEN job.off ELSE size)' = off
      BY <1>3, <1>7, <2>1
    <3> QED BY <1>2, <3>1 DEF Content, At, Cell
  <2>3. File!Result(Content, AbsOp) =
          [i \in 1 .. off |-> IF i <= n THEN Content[i] ELSE 0]
    <3>1. Len(Content) = n
      BY <1>4
    <3>2. AbsOp.kind = "ftruncate" /\ AbsOp.off = off /\ AbsOp.len = len
      BY <1>5, <1>7
    <3> QED BY <3>1, <3>2, ResultResize
  <2>4. \A i \in 1 .. off : (IF i <= n THEN Content[i] ELSE 0) = At(i - 1)
    <3>1. off < n
      BY <1>3, <1>7
    <3> QED BY <1>4, <3>1
  <2>5. pc' # "idle"
    BY <1>7
  <2>6. Content' = File!Result(Content, AbsOp)
    BY <2>2, <2>3, <2>4
  <2> QED BY <1>1, <2>1, <2>5, <2>6, FinishStep
<1>8. CASE /\ pc' \in {"extend", "shrink"} /\ ret' = ret
           /\ job'.kind = job.kind /\ job'.off = job.off /\ job'.len = job.len
  <2>1. pc' # "idle" /\ ~Cutting'
    BY <1>8 DEF Cutting
  <2> QED BY <1>1, <1>2, <1>8, <2>1, MiddleStep
<1>9. ASSUME NEW byte, FindCluster(byte)
      PROVE  job'.kind = job.kind /\ job'.off = job.off /\ job'.len = job.len
  <2>1. PICK a, l : job' = [job EXCEPT !.at = a, !.local = l]
    BY <1>9 DEF FindCluster
  <2> QED BY <2>1 DEF IInv, TypeOK
<1> QED BY <1>6, <1>7, <1>8, <1>9 DEF BeginResize

\* The last round of a read returns what the file holds there, the rounds before
\* it are steps in the middle.
LEMMA ReadChunkStep ==
  ASSUME IInv, IInv', pc = "rw", job.at < Len(blocks), job.kind = "read", ReadChunk,
         size' = size
  PROVE  File!Finish \/ UNCHANGED <<Content, AbsOp, AbsGot, AbsRet>>
<1>1. /\ pc # "idle" /\ ~Cutting /\ blocks' = blocks /\ \A i : At(i)' = At(i)
  BY DEF Cutting, ReadChunk, At
<1>2. CASE job.done + Chunk < job.overlap /\ NextChunk /\ UNCHANGED <<fresh, ret>>
  <2>1. /\ job'.kind = job.kind /\ job'.off = job.off /\ job'.len = job.len /\ pc' = "rw"
    BY <1>2, NextRound
  <2>2. pc' # "idle" /\ ~Cutting' /\ ret' = ret
    BY <1>2, <2>1 DEF Cutting
  <2> QED BY <1>1, <2>1, <2>2, MiddleStep
<1>3. CASE ~(job.done + Chunk < job.overlap) /\ Return("ok")
  <2>1. pc' = "idle" /\ ret' = "ok"
    BY <1>3 DEF Return
  <2>2. PICK s \in Nat, off \in Nat, len \in Nat : s = size /\ off = job.off /\ len = job.len
    BY Numbers
  <2>3. PICK n \in Nat : n = job.overlap /\ job.done + Chunk = n
    <3>1. Chunk \in 1 .. job.overlap - job.done /\ job.done \in Nat /\ job.overlap \in Nat
      BY Round
    <3>2. job.done + Chunk = job.overlap
      BY <1>3, <3>1
    <3> QED BY <3>1, <3>2
  <2>4. Lesser(off + len, s) = off + n /\ off + n <= s
    <3>1. off < s /\ n = FittedLen(off, len)
      BY <2>2, <2>3 DEF IInv, RwInv
    <3>2. n = Lesser(len, s - off)
      BY <1>1, <2>2, <3>1, Fitted
    <3> QED BY <3>1, <3>2 DEF Lesser
  <2>5. /\ got' \in Seq(Bytes) /\ Len(got') = n
        /\ \A k \in 1 .. n : got'[k] = At(off + k - 1)
    BY <2>2, <2>3, ReadCells DEF ReadChunk
  <2>6. Content = [i \in 1 .. s |-> At(i - 1)]
    BY <1>1, <2>2, ContentCells DEF Extent
  <2>7. \A i \in off + 1 .. off + n : Content[i] \in Bytes
    <3> SUFFICES ASSUME NEW i \in off + 1 .. off + n PROVE Content[i] \in Bytes
      OBVIOUS
    <3>1. i \in 1 .. s /\ i - 1 \in 0 .. s - 1
      BY <2>4
    <3>2. TypeOK /\ Len(blocks) = Ext(s)
      BY <2>2 DEF IInv, LengthInv
    <3>3. At(i - 1) \in Bytes
      BY <3>1, <3>2, InChain
    <3> QED BY <2>6, <3>1, <3>3
  <2>8. PICK g : g = SubSeq(Content, off + 1, off + n)
    OBVIOUS
  <2>9. off + 1 \in Int /\ off + n \in Int
    OBVIOUS
  <2>10. /\ g \in Seq(Bytes)
         /\ Len(g) = IF off + 1 <= off + n THEN off + n - (off + 1) + 1 ELSE 0
         /\ \A k \in 1 .. off + n - (off + 1) + 1 : g[k] = Content[off + 1 + k - 1]
    BY <2>7, <2>8, <2>9, SubSeqProperties
  <2>11. Len(g) = n /\ \A k \in 1 .. n : g[k] = Content[off + k]
    BY <2>10
  <2>12. \A k \in 1 .. n : got'[k] = g[k]
    <3> SUFFICES ASSUME NEW k \in 1 .. n PROVE got'[k] = g[k]
      OBVIOUS
    <3>1. off + k \in 1 .. s
      BY <2>4
    <3>2. Content[off + k] = At(off + k - 1)
      BY <2>6, <3>1
    <3> QED BY <2>5, <2>11, <3>2
  <2>13. got' = g
    BY <2>5, <2>10, <2>11, <2>12, SeqEqual
  <2>14. got' = SubSeq(Content, job.off + 1, Lesser(job.off + job.len, size))
    BY <2>2, <2>4, <2>8, <2>13
  <2> QED BY <1>1, <2>1, <2>14, ReadStep
<1> QED BY <1>2, <1>3 DEF ReadChunk

\* A round of a write changes bytes of the file to what the write makes of them.
LEMMA WriteChunkStep ==
  ASSUME IInv, IInv', pc = "rw", job.at < Len(blocks), job.kind = "write", WriteChunk,
         size' = size
  PROVE  File!Progress
<1>1. pc # "idle" /\ ~Cutting /\ got' = got /\ ret' = ret /\ NextChunk
  BY DEF Cutting, WriteChunk
<1>2. /\ job'.kind = job.kind /\ job'.off = job.off /\ job'.len = job.len
      /\ pc' \in {"rw", "commit", "extend"}
  BY <1>1, NextRound
<1>3. pc' # "idle" /\ ~Cutting'
  BY <1>2 DEF Cutting
<1>4. PICK n \in Nat, off \in Nat, len \in Nat : n = size /\ off = job.off /\ len = job.len
  BY Numbers
<1>5. Content = [i \in 1 .. n |-> At(i - 1)] /\ Len(Content) = n
  BY <1>1, <1>4, ContentCells DEF Extent
<1>6. Content' = [i \in 1 .. n |-> At(i - 1)'] /\ Len(Content') = n
  <2>1. (IF Cutting THEN job.off ELSE size)' = n
    BY <1>3, <1>4
  <2>2. Content' = [i \in 1 .. n |-> At(i - 1)']
    BY <2>1 DEF Content, At, Cell
  <2> QED BY <2>2
<1>7. AbsOp.kind = job.kind /\ AbsOp.off = off /\ AbsOp.len = len
  BY <1>1, <1>4, AbsOpIs
<1>8. File!Result(Content, AbsOp) =
        [i \in 1 .. Greater(n, off + len) |->
           IF off < i /\ i <= off + len THEN Byte(i - 1 - off)
           ELSE IF i <= n THEN Content[i] ELSE 0]
  <2>1. Len(Content) = n
    BY <1>5
  <2>2. AbsOp.kind = "write" /\ AbsOp.off = off /\ AbsOp.len = len
    BY <1>7
  <2> QED BY <2>1, <2>2, ResultWrite
<1>9. ASSUME NEW i \in 1 .. n
      PROVE  Content'[i] \in {Content[i], File!Result(Content, AbsOp)[i]}
  <2>1. PICK k \in 0 .. n - 1 : k = i - 1
    OBVIOUS
  <2>2. PICK chain : chain = blocks'
    OBVIOUS
  <2>3. At(k)' = IF job.off + job.done <= k /\ k < job.off + job.done + Chunk
                   THEN Byte(k - job.off) ELSE At(k)
    <3>1. Cell(chain, k) = IF job.off + job.done <= k /\ k < job.off + job.done + Chunk
                             THEN Byte(k - job.off) ELSE At(k)
      BY <1>4, <2>2, WriteCells DEF WriteChunk
    <3> QED BY <2>2, <3>1 DEF At, Cell
  <2>4. CASE At(k)' = At(k)
    BY <1>5, <1>6, <2>1, <2>4
  <2>5. CASE job.off + job.done <= k /\ k < job.off + job.done + Chunk
    <3>1. PICK d \in Nat, c \in Nat : d = job.done /\ c = Chunk /\ d + c <= len
      <4>1. /\ Chunk \in 1 .. job.overlap - job.done /\ job.done \in Nat
            /\ job.overlap \in 0 .. MaxEnd /\ job.overlap <= job.len
        BY Round
      <4>2. PICK d \in Nat, o \in Nat : d = job.done /\ o = job.overlap /\ o <= len
        <5>1. job.overlap \in Nat /\ job.overlap <= len
          BY <1>4, <4>1, FileAssumption
        <5> QED BY <4>1, <5>1
      <4>3. Chunk \in 1 .. o - d
        BY <4>1, <4>2
      <4>4. Chunk \in Nat /\ d + Chunk <= len
        BY <4>2, <4>3
      <4> QED BY <4>2, <4>4
    <3>2. off < i /\ i <= off + len /\ i - 1 - off = k - off
      <4>1. off + d <= k /\ k < off + d + c
        BY <1>4, <2>5, <3>1
      <4>2. d + c <= len
        BY <3>1
      <4> QED BY <2>1, <4>1, <4>2
    <3>3. i \in 1 .. Greater(n, off + len)
      BY <3>2 DEF Greater
    <3>4. File!Result(Content, AbsOp)[i] = Byte(k - off)
      BY <1>8, <3>2, <3>3
    <3>5. Content'[i] = Byte(k - off)
      BY <1>4, <1>6, <2>1, <2>3, <2>5
    <3> QED BY <3>4, <3>5
  <2> QED BY <2>3, <2>4, <2>5
<1>10. AbsOp' = AbsOp /\ AbsGot' = AbsGot /\ AbsRet' = AbsRet
  BY <1>1, <1>2, <1>3 DEF AbsOp, AbsGot, AbsRet
<1>11. \A i \in DOMAIN Content : Content'[i] \in {Content[i], File!Result(Content, AbsOp)[i]}
  BY <1>5, <1>9
<1> QED BY <1>5, <1>6, <1>7, <1>10, <1>11 DEF File!Progress, AbsGot, AbsRet

\* The steps of do_rw_op.
LEMMA RwChunkStep ==
  ASSUME IInv, IInv', RwChunk
  PROVE  File!Next \/ UNCHANGED <<Content, AbsOp, AbsGot, AbsRet>>
<1>1. pc = "rw"
  BY DEF RwChunk
<1> QED BY <1>1, FailStep, ReadChunkStep, WriteChunkStep DEF RwChunk, File!Next

\* The steps of bs_do_write_extend happen behind the end of the file.
LEMMA ExtendStep ==
  ASSUME IInv, IInv', AllocClusters \/ FillCluster \/ Hook
  PROVE  File!Next \/ UNCHANGED <<Content, AbsOp, AbsGot, AbsRet>>
<1>1. pc \in {"extend", "fill", "hook"} /\ pc # "idle" /\ ~Cutting
  BY DEF AllocClusters, FillCluster, Hook, Cutting
<1>2. CASE Fail
  BY <1>1, <1>2, FailStep DEF File!Next
<1>3. CASE /\ pc' \in {"fill", "hook"} /\ blocks' = blocks
           /\ size' = size /\ ret' = ret
           /\ job'.kind = job.kind /\ job'.off = job.off /\ job'.len = job.len
  <2>1. pc' # "idle" /\ ~Cutting' /\ \A i : At(i)' = At(i)
    BY <1>3 DEF Cutting, At
  <2> QED BY <1>1, <1>3, <2>1, MiddleStep
<1>4. CASE /\ pc = "hook" /\ job.at < Len(blocks)
           /\ blocks' = [blocks EXCEPT ![job.at + 1] = HookedBlock(@)] \o fresh
           /\ fresh' = <<>> /\ pc' = "commit"
           /\ UNCHANGED <<size, free, job, got, ret>>
  <2>1. PICK chain : chain = blocks'
    OBVIOUS
  <2>2. \A i \in 0 .. NewSize - 1 : i < size => Cell(chain, i) = At(i)
    BY <1>4, <2>1, HookedChain
  <2>3. \A i \in 0 .. size - 1 : At(i)' = At(i)
    <3>1. PICK s \in Nat, u \in Nat : s = size /\ u = NewSize /\ s < u
      <4>1. size \in Nat /\ NewSize \in 0 .. MaxEnd /\ size < NewSize
        BY <1>1, Growth
      <4> QED BY <4>1
    <3>2. \A i \in 0 .. s - 1 : i \in 0 .. u - 1 /\ i < s
      BY <3>1
    <3>3. \A i \in 0 .. s - 1 : Cell(chain, i) = At(i)
      BY <2>2, <3>1, <3>2
    <3> QED BY <2>1, <3>1, <3>3 DEF At, Cell
  <2>4. ~Cutting'
    <3>1. size < NewSize /\ size \in Nat /\ job.off \in Nat
      BY <1>1, Growth
    <3>2. job.kind = "ftruncate" => NewSize = job.off
      BY DEF NewSize
    <3> QED BY <1>4, <3>1, <3>2 DEF Cutting
  <2>5. pc' # "idle"
    BY <1>4
  <2> QED BY <1>1, <1>4, <2>3, <2>4, <2>5, MiddleStep
<1>5. \/ Fail
      \/ /\ pc' \in {"fill", "hook"} /\ blocks' = blocks
         /\ size' = size /\ ret' = ret
         /\ job'.kind = job.kind /\ job'.off = job.off /\ job'.len = job.len
      \/ /\ pc = "hook" /\ job.at < Len(blocks)
         /\ blocks' = [blocks EXCEPT ![job.at + 1] = HookedBlock(@)] \o fresh
         /\ fresh' = <<>> /\ pc' = "commit"
         /\ UNCHANGED <<size, free, job, got, ret>>
  <2>1. job \in [kind : Kinds \cup {"none"}, off : 0 .. MaxEnd, len : 0 .. MaxEnd,
                 overlap : 0 .. MaxEnd, at : Nat, local : Positions, done : 0 .. MaxEnd]
    BY DEF IInv, TypeOK
  <2>2. ASSUME NEW d, job' = [job EXCEPT !.done = d]
        PROVE  job'.kind = job.kind /\ job'.off = job.off /\ job'.len = job.len
    BY <2>1, <2>2
  <2>3. CASE AllocClusters
    BY <2>2, <2>3 DEF AllocClusters
  <2>4. CASE FillCluster
    <3>1. PICK d : d = job.done + 1
      OBVIOUS
    <3>2. CASE /\ job' = [job EXCEPT !.done = @ + 1]
               /\ pc' = IF job.done + 1 = NewCount THEN "hook" ELSE "fill"
               /\ UNCHANGED <<size, blocks, free, got, ret>>
      <4>1. job' = [job EXCEPT !.done = d]
        BY <3>1, <3>2
      <4> QED BY <2>2, <3>2, <4>1
    <3> QED BY <2>4, <3>2 DEF FillCluster
  <2>5. CASE Hook
    BY <2>5 DEF Hook
  <2> QED BY <2>3, <2>4, <2>5
<1> QED BY <1>2, <1>3, <1>4, <1>5

\* A truncation takes effect when the chain is cut.
LEMMA ShrinkStep ==
  ASSUME IInv, IInv', Shrink
  PROVE  File!Next \/ UNCHANGED <<Content, AbsOp, AbsGot, AbsRet>>
<1>1. /\ pc = "shrink" /\ pc # "idle" /\ ~Cutting
      /\ job.kind = "ftruncate" /\ job.off < size /\ job.at + 1 = Ext(job.off)
  BY DEF Shrink, Cutting, IInv, ShrinkInv
<1>2. CASE Fail
  BY <1>1, <1>2, FailStep DEF File!Next
<1>3. CASE /\ job.at < Len(blocks)
           /\ blocks' = SubSeq(blocks, 1, job.at + 1)
           /\ pc' = "commit"
           /\ UNCHANGED <<size, job, fresh, got, ret>>
  <2>1. PICK n \in Nat, off \in Nat, len \in Nat, a \in Nat :
          n = size /\ off = job.off /\ len = job.len /\ a = job.at
    <3>1. job.at \in Nat
      BY DEF IInv, TypeOK
    <3> QED BY <3>1, Numbers
  <2>2. Cutting' /\ pc' # "idle"
    BY <1>1, <1>3 DEF Cutting
  <2>3. \A i \in 0 .. off - 1 : At(i)' = At(i)
    <3> SUFFICES ASSUME NEW i \in 0 .. off - 1 PROVE At(i)' = At(i)
      OBVIOUS
    <3>1. PICK q \in 0 .. a : q = i \div DataSize
      <4>1. i \div DataSize \in 0 .. Ext(off) - 1
        BY InExtent
      <4>2. Ext(off) - 1 = a
        BY <1>1, <2>1
      <4> QED BY <4>1, <4>2
    <3>2. PICK m \in Nat : m = Len(blocks) /\ a + 1 <= m
      BY <1>3, <2>1 DEF IInv, TypeOK
    <3>3. \A k \in 1 .. a + 1 : k \in 1 .. Len(blocks)
      BY <3>2
    <3>4. \A k \in 1 .. a + 1 : blocks[k] \in Block
      <4>1. blocks \in Seq(Block)
        BY DEF IInv, TypeOK
      <4> QED BY <3>3, <4>1
    <3>5. SubSeq(blocks, 1, a + 1)[1 + q] = blocks[1 + (1 + q) - 1]
      <4>1. 1 + q \in 1 .. a + 1 - 1 + 1
        OBVIOUS
      <4> QED BY <3>4, <4>1, SubSeqProperties
    <3>6. blocks'[1 + q] = blocks[1 + q]
      BY <1>3, <2>1, <3>5
    <3> QED BY <3>1, <3>6 DEF At, Cell
  <2>4. Content = [i \in 1 .. n |-> At(i - 1)] /\ Len(Content) = n
    BY <1>1, <2>1, ContentCells DEF Extent
  <2>5. Content' = [i \in 1 .. off |-> At(i - 1)']
    <3>1. (IF Cutting THEN job.off ELSE size)' = off
      BY <1>3, <2>1, <2>2
    <3> QED BY <3>1 DEF Content, At, Cell
  <2>6. AbsOp.kind = "ftruncate" /\ AbsOp.off = off /\ AbsOp.len = len
    BY <1>1, <2>1, AbsOpIs
  <2>7. File!Result(Content, AbsOp) = [i \in 1 .. off |-> IF i <= n THEN Content[i] ELSE 0]
    BY <2>4, <2>6, ResultResize
  <2>8. \A i \in 1 .. off : (IF i <= n THEN Content[i] ELSE 0) = At(i - 1)'
    <3> SUFFICES ASSUME NEW i \in 1 .. off
                 PROVE  (IF i <= n THEN Content[i] ELSE 0) = At(i - 1)'
      OBVIOUS
    <3>1. i <= n /\ i \in 1 .. n
      BY <1>1, <2>1
    <3>2. PICK k \in 0 .. off - 1 : k = i - 1
      OBVIOUS
    <3> QED BY <2>3, <2>4, <3>1, <3>2
  <2>9. Content' = File!Result(Content, AbsOp)
    BY <2>5, <2>7, <2>8
  <2>10. job.kind # "read"
    BY <1>1
  <2> QED BY <1>1, <2>2, <2>9, <2>10, FinishStep DEF File!Next
<1> QED BY <1>2, <1>3 DEF Shrink

\* What the commit makes visible is all that the operation promises.
LEMMA CommitStep ==
  ASSUME IInv, IInv', Commit
  PROVE  File!Next \/ UNCHANGED <<Content, AbsOp, AbsGot, AbsRet>>
<1>1. /\ pc = "commit" /\ pc # "idle" /\ pc' = "idle" /\ ret' = "ok" /\ got = <<>> /\ got' = got
      /\ size' = NewSize /\ blocks' = blocks /\ ~Cutting' /\ \A i : At(i)' = At(i)
  <2>1. pc = "commit" /\ size' = NewSize % SizeWord /\ Return("ok") /\ UNCHANGED <<blocks, got>>
    BY DEF Commit
  <2>2. pc' = "idle" /\ ret' = "ok"
    BY <2>1 DEF Return
  <2> QED BY <2>1, <2>2, SizeFits DEF Cutting, At, IInv, BufferInv
<1>2. PICK n \in Nat, off \in Nat, len \in Nat, u \in Nat :
        n = size /\ off = job.off /\ len = job.len /\ u = NewSize
  <2>1. NewSize \in Nat
    BY <1>1, SizeFits, FileAssumption
  <2> QED BY <2>1, Numbers
<1>3. Content' = [i \in 1 .. u |-> At(i - 1)]
  <2>1. (IF Cutting THEN job.off ELSE size)' = u
    BY <1>1, <1>2
  <2> QED BY <1>1, <2>1 DEF Content, At, Cell
<1>4. CASE Cutting
  <2>1. u = off
    BY <1>2, <1>4 DEF Cutting, NewSize
  <2>2. Content = [i \in 1 .. off |-> At(i - 1)]
    BY <1>2, <1>4, ContentCells DEF Extent
  <2>3. AbsOp = File!NoOp
    BY <1>4, AbsOpIs
  <2>4. AbsOp' = File!NoOp
    BY <1>1 DEF AbsOp, File!NoOp
  <2>5. AbsGot' = AbsGot /\ AbsRet' = AbsRet
    BY <1>1, <1>4 DEF AbsGot, AbsRet
  <2> QED BY <1>3, <2>1, <2>2, <2>3, <2>4, <2>5
<1>5. CASE ~Cutting
  <2>1. /\ job.kind \in {"write", "ftruncate", "fallocate"}
        /\ job.kind = "write" => \A i \in off .. off + len - 1 : At(i) = Byte(i - off)
        /\ job.kind = "fallocate" => n < u
        /\ \A i \in n .. u - 1 : At(i) = 0 \/ (job.kind = "write" /\ off <= i)
    <3>1. job.kind \in {"write", "ftruncate", "fallocate"}
      BY <1>1 DEF IInv, Begun, CommitInv, Kinds
    <3>2. job.kind = "write" => \A i \in off .. off + len - 1 : At(i) = Byte(i - off)
      BY <1>1, <1>2 DEF IInv, CommitInv, Written
    <3>3. /\ job.kind = "fallocate" => n < u
          /\ \A i \in n .. u - 1 : At(i) = 0 \/ (job.kind = "write" /\ off <= i)
      BY <1>1, <1>2 DEF IInv, CommitInv
    <3> QED BY <3>1, <3>2, <3>3
  <2>2. Content = [i \in 1 .. n |-> At(i - 1)] /\ Len(Content) = n
    BY <1>2, <1>5, ContentCells DEF Extent
  <2>3. AbsOp.kind = job.kind /\ AbsOp.off = off /\ AbsOp.len = len
    BY <1>1, <1>2, <1>5, AbsOpIs
  <2>4. ASSUME job.kind = "write" PROVE Content' = File!Result(Content, AbsOp)
    <3>1. u = Greater(n, off + len)
      BY <1>2, <2>4 DEF NewSize
    <3>2. File!Result(Content, AbsOp) =
            [i \in 1 .. u |->
               IF off < i /\ i <= off + len THEN Byte(i - 1 - off)
               ELSE IF i <= n THEN Content[i] ELSE 0]
      <4>1. Len(Content) = n
        BY <2>2
      <4>2. AbsOp.kind = "write" /\ AbsOp.off = off /\ AbsOp.len = len
        BY <2>3, <2>4
      <4> QED BY <3>1, <4>1, <4>2, ResultWrite
    <3>3. \A i \in 1 .. u : At(i - 1) =
               IF off < i /\ i <= off + len THEN Byte(i - 1 - off)
               ELSE IF i <= n THEN Content[i] ELSE 0
      <4> SUFFICES ASSUME NEW i \in 1 .. u
                   PROVE  At(i - 1) = IF off < i /\ i <= off + len THEN Byte(i - 1 - off)
                                      ELSE IF i <= n THEN Content[i] ELSE 0
        OBVIOUS
      <4>1. PICK k \in 0 .. u - 1 : k = i - 1
        OBVIOUS
      <4>2. CASE off < i /\ i <= off + len
        <5>1. k \in off .. off + len - 1
          BY <4>1, <4>2
        <5> QED BY <2>1, <2>4, <4>1, <4>2, <5>1
      <4>3. CASE ~(off < i /\ i <= off + len) /\ i <= n
        BY <2>2, <4>3
      <4>4. CASE ~(off < i /\ i <= off + len) /\ ~(i <= n)
        <5>1. k \in n .. u - 1
          BY <4>1, <4>4
        <5>2. i <= off + len
          BY <3>1, <4>4 DEF Greater
        <5>3. ~(off <= k)
          BY <4>1, <4>4, <5>2
        <5> QED BY <2>1, <4>1, <4>4, <5>1, <5>3
      <4> QED BY <4>2, <4>3, <4>4
    <3> QED BY <1>3, <3>2, <3>3
  <2>5. ASSUME job.kind \in {"ftruncate", "fallocate"}
        PROVE  Content' = File!Result(Content, AbsOp)
    <3>1. n <= u
      <4>1. CASE job.kind = "ftruncate"
        <5>1. u = off
          BY <1>2, <4>1 DEF NewSize
        <5>2. ~(off < n)
          BY <1>1, <1>2, <1>5, <4>1 DEF Cutting
        <5> QED BY <5>1, <5>2
      <4>2. CASE job.kind = "fallocate"
        BY <2>1, <4>2
      <4> QED BY <2>5, <4>1, <4>2
    <3>2. File!Result(Content, AbsOp) = [i \in 1 .. u |-> IF i <= n THEN Content[i] ELSE 0]
      <4>1. CASE job.kind = "ftruncate"
        <5>1. u = off
          BY <1>2, <4>1 DEF NewSize
        <5> QED BY <2>2, <2>3, <4>1, <5>1, ResultResize
      <4>2. CASE job.kind = "fallocate"
        <5>1. u = off + len
          BY <1>2, <4>2 DEF NewSize
        <5>2. Greater(n, off + len) = u
          BY <3>1, <5>1 DEF Greater
        <5> QED BY <2>2, <2>3, <4>2, <5>2, ResultResize
      <4> QED BY <2>5, <4>1, <4>2
    <3>3. \A i \in 1 .. u : At(i - 1) = IF i <= n THEN Content[i] ELSE 0
      <4> SUFFICES ASSUME NEW i \in 1 .. u
                   PROVE  At(i - 1) = IF i <= n THEN Content[i] ELSE 0
        OBVIOUS
      <4>1. PICK k \in 0 .. u - 1 : k = i - 1
        OBVIOUS
      <4>2. CASE i <= n
        BY <2>2, <4>2
      <4>3. CASE ~(i <= n)
        <5>1. k \in n .. u - 1
          BY <4>1, <4>3
        <5>2. At(k) = 0
          BY <2>1, <2>5, <5>1
        <5> QED BY <4>1, <4>3, <5>2
      <4> QED BY <4>2, <4>3
    <3> QED BY <1>3, <3>2, <3>3
  <2>6. Content' = File!Result(Content, AbsOp)
    BY <2>1, <2>4, <2>5
  <2>7. job.kind # "read"
    BY <2>1
  <2> QED BY <1>1, <1>5, <2>6, <2>7, FinishStep DEF File!Next
<1> QED BY <1>4, <1>5

\* A file is an array of bytes, whatever the size of a cluster: over partial
\* clusters, cluster boundaries, holes and the end of the file, an operation that
\* reports success did all it promises, a read returns what was written and zeros
\* where nothing was, never what a cluster held before, and an operation that
\* fails leaves the rest of the file and its size alone.
THEOREM FileIsArray == Spec => ImplementsFile
<1>1. Init => File!Init
  <2> SUFFICES ASSUME Init PROVE File!Init
    OBVIOUS
  <2>1. pc = "idle" /\ ~Cutting /\ size = 0 /\ got = <<>> /\ ret = "none"
    BY DEF Init, Cutting
  <2>2. Content = <<>>
    BY <2>1 DEF Content
  <2> QED BY <2>1, <2>2 DEF File!Init, AbsOp, File!NoOp
<1>2. IInv /\ IInv' /\ [Next]_vars => [File!Next]_<<Content, AbsOp, AbsGot, AbsRet>>
  <2> SUFFICES ASSUME IInv, IInv', [Next]_vars
               PROVE  File!Next \/ UNCHANGED <<Content, AbsOp, AbsGot, AbsRet>>
    OBVIOUS
  <2>1. CASE UNCHANGED vars
    <3>1. Content' = Content
      BY <2>1 DEF vars, Content, Cutting
    <3>2. AbsOp' = AbsOp /\ AbsGot' = AbsGot /\ AbsRet' = AbsRet
      BY <2>1 DEF vars, AbsOp, AbsGot, AbsRet, Cutting
    <3> QED BY <3>1, <3>2
  <2>2. CASE \E kind \in Kinds, off, len \in 0 .. MaxEnd : Begin(kind, off, len)
    BY <2>2, BeginStep DEF File!Next
  <2>3. CASE GetSize
    <3>1. pc = "size"
      BY <2>3 DEF GetSize
    <3>2. CASE Fail
      BY <3>1, <3>2, FailStep DEF File!Next
    <3>3. CASE (BeginRw \/ BeginResize) /\ UNCHANGED <<size, blocks, got>>
      BY <3>1, <3>3, RwBeginsStep, ResizeBeginsStep DEF File!Next
    <3> QED BY <2>3, <3>2, <3>3 DEF GetSize
  <2> QED BY <2>1, <2>2, <2>3, RwChunkStep, ExtendStep, ShrinkStep, CommitStep DEF Next
<1>3. IInv /\ IInv' /\ [Next]_vars => [File!Next]_<<Content, AbsOp, IF pc = "idle" THEN got ELSE <<>>,
                                                  IF Cutting THEN "ok" ELSE ret>>
  BY <1>2 DEF AbsGot, AbsRet
<1> QED BY <1>1, <1>3, Inductive, PTL DEF Spec, ImplementsFile, File!Spec
=============================================================================
