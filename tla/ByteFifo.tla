------------------------------ MODULE ByteFifo ------------------------------
(***************************************************************************)
(* What the ring buffer promises (spec.md 4.5 and 8.1): a bounded FIFO of  *)
(* bytes.  write appends as many bytes as fit and returns that count (0    *)
(* when full); read removes and returns up to len of the oldest bytes;     *)
(* consume drops them without copying; read_offset returns bytes without   *)
(* removing them.  `out' is what the last call returned: a count and the   *)
(* bytes copied out (none for write and consume).                          *)
(***************************************************************************)
EXTENDS Naturals, Sequences

CONSTANTS Capacity, Bytes, MaxLen

VARIABLES queue, out

LOCAL Lesser(a, b) == IF a <= b THEN a ELSE b

Returned(n, bytes) == [count |-> n, bytes |-> bytes]

Init == queue = <<>> /\ out = Returned(0, <<>>)

Write ==
  \E data \in UNION {[1 .. n -> Bytes] : n \in 0 .. MaxLen} :
    LET n == Lesser(Len(data), Capacity - Len(queue))
    IN  /\ queue' = queue \o SubSeq(data, 1, n)
        /\ out' = Returned(n, <<>>)

Read ==
  \E len \in 0 .. MaxLen :
    LET n == Lesser(len, Len(queue))
    IN  /\ out' = Returned(n, SubSeq(queue, 1, n))
        /\ queue' = SubSeq(queue, n + 1, Len(queue))

Consume ==
  \E len \in 0 .. MaxLen :
    LET n == Lesser(len, Len(queue))
    IN  /\ out' = Returned(n, <<>>)
        /\ queue' = SubSeq(queue, n + 1, Len(queue))

ReadOffset ==
  \E offset \in 0 .. Len(queue), len \in 0 .. MaxLen :
    LET bytes == SubSeq(queue, offset + 1, Lesser(offset + len, Len(queue)))
    IN  /\ out' = Returned(Len(bytes), bytes)
        /\ UNCHANGED queue

Next == Write \/ Read \/ Consume \/ ReadOffset

Spec == Init /\ [][Next]_<<queue, out>>

=============================================================================
