----------------------------- MODULE RingBuffer -----------------------------
(***************************************************************************)
(* Class RingBuffer (src/base/ring_buffer.cpp) driven by a single caller   *)
(* that issues write, read, read_offset and consume calls with small       *)
(* arguments.  `ring' is the object, `out' what the last call returned:    *)
(* the count, and the bytes copied out by read and read_offset.            *)
(***************************************************************************)
EXTENDS RingBufferOps

CONSTANTS
  Size,    \* the capacity passed to the constructor
  Bytes,   \* byte values the caller writes
  MaxLen,  \* longest argument of one call
  Blank    \* content of a slot never written (new char[size] is uninitialized)

ASSUME Size \in Nat \ {0} /\ MaxLen \in Nat /\ SizeSpace > 2 * Size

VARIABLES ring, out

vars == <<ring, out>>

Returned(n, bytes) == [count |-> n, bytes |-> bytes]

Init == ring = NewRing(Size, Blank) /\ out = Returned(0, <<>>)

\* Every state change of one call is applied at once: the caller is single
\* threaded (the session owns its buffers, spec.md 5).
DoWrite ==
  \E data \in UNION {[1 .. n -> Bytes] : n \in 0 .. MaxLen} :
    LET res == Write(ring, data)
    IN  ring' = res.ring /\ out' = Returned(res.ret, <<>>)
DoRead ==
  \E len \in 0 .. MaxLen :
    LET res == Read(ring, len)
    IN  ring' = res.ring /\ out' = Returned(Len(res.ret), res.ret)
DoConsume ==
  \E len \in 0 .. MaxLen :
    LET res == Consume(ring, len)
    IN  ring' = res.ring /\ out' = Returned(res.ret, <<>>)
\* Callers (SendBuffer::transmit, the tests) pass offset <= remaining().
DoReadOffset ==
  \E offset \in 0 .. Remaining(ring), len \in 0 .. MaxLen :
    LET bytes == ReadOffset(ring, offset, len)
    IN  out' = Returned(Len(bytes), bytes) /\ UNCHANGED ring

Next == DoWrite \/ DoRead \/ DoConsume \/ DoReadOffset

Spec == Init /\ [][Next]_vars

-----------------------------------------------------------------------------
TypeOK ==
  /\ ring.size = Size
  /\ ring.begin \in 0 .. Size - 1
  /\ ring.end \in 0 .. 2 * Size
  /\ ring.slots \in [0 .. Size - 1 -> Bytes \cup {Blank}]
  /\ out.count \in 0 .. MaxLen
  /\ out.bytes \in Seq(Bytes \cup {Blank, Garbage})

\* The cursor discipline every branch of read, write and consume relies on:
\* begin_ stays below size_ (each memcpy starts inside the array) and the
\* occupied count end_ - begin_ stays within 0 .. size_.
CursorsInRange ==
  /\ ring.begin < Size
  /\ ring.begin <= ring.end
  /\ ring.end <= ring.begin + Size

\* RingBuffer refines the bounded FIFO of spec.md 4.5: what is read back is
\* what was written, in order, and write reports the bytes it stored.
Fifo == INSTANCE ByteFifo WITH Capacity <- Size, queue <- Contents(ring)
FifoRefinement == Fifo!Spec

=============================================================================
