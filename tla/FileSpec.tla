------------------------------ MODULE FileSpec ------------------------------
(***************************************************************************)
(* What a file promises to whoever has it open (bsfs_read, bsfs_write,     *)
(* bsfs_ftruncate and bsfs_fallocate of src/src/bsfs.c): an array of bytes *)
(* that starts empty and reads as zero where it was never written.         *)
(***************************************************************************)
EXTENDS Integers, Sequences

CONSTANTS Kinds, MaxEnd   \* the operations, and the largest off + len

VARIABLES content,        \* the bytes of the file
          op,             \* the operation under way
          got,            \* what the last read returned
          ret             \* how the last operation ended

NoOp == [kind |-> "none", off |-> 0, len |-> 0]

\* The caller's buffer: neighbouring bytes differ, so that data that ends up
\* one place off shows.
Byte(i) == 1 + (i % 2)

End(o) == o.off + o.len

\* File c grown by zeros to n bytes, or cut to n bytes.
Resized(c, n) == [i \in 1 .. n |-> IF i <= Len(c) THEN c[i] ELSE 0]

Longer(a, b) == IF a > b THEN a ELSE b
Shorter(a, b) == IF a < b THEN a ELSE b

\* The file after operation o; off is the new size of a truncation.
Result(c, o) ==
  CASE o.kind = "write" ->
         [i \in 1 .. Longer(Len(c), End(o)) |->
            IF o.off < i /\ i <= End(o) THEN Byte(i - 1 - o.off)
            ELSE Resized(c, Longer(Len(c), End(o)))[i]]
    [] o.kind = "ftruncate" -> Resized(c, o.off)
    [] o.kind = "fallocate" -> Resized(c, Longer(Len(c), End(o)))
    [] OTHER -> c

Init == /\ content = <<>> /\ op = NoOp
        /\ got = <<>> /\ ret = "none"

Operations == [kind : Kinds, off : 0 .. MaxEnd, len : 0 .. MaxEnd]

Begin == /\ op = NoOp
         /\ op' \in Operations /\ got' = <<>> /\ ret' = "none"
         /\ UNCHANGED content

\* A write changes the bytes that exist already a few at a time.
Progress == /\ op.kind = "write"
            /\ Len(content') = Len(content)
            /\ \A i \in DOMAIN content :
                 content'[i] \in {content[i], Result(content, op)[i]}
            /\ UNCHANGED <<op, got, ret>>

\* The operation reports success: all of it was done.
Finish == /\ op # NoOp
          /\ content' = Result(content, op)
          /\ got' = IF op.kind # "read" THEN <<>>
                    ELSE SubSeq(content, op.off + 1, Shorter(End(op), Len(content)))
          /\ op' = NoOp /\ ret' = "ok"

\* It reports an error, and what it has not done yet it does not do.
Fail == /\ op # NoOp
        /\ op' = NoOp /\ ret' = "error"
        /\ UNCHANGED <<content, got>>

Next == Begin \/ Progress \/ Finish \/ Fail

Spec == Init /\ [][Next]_<<content, op, got, ret>>
=============================================================================
