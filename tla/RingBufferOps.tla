--------------------------- MODULE RingBufferOps ---------------------------
(***************************************************************************)
(* The operations of class RingBuffer (src/base/ring_buffer.cpp) as pure   *)
(* operators on a record                                                   *)
(*   [size |-> size_, begin |-> begin_, end |-> end_, slots |-> buffer_]   *)
(* where begin_ and end_ are the size_t cursors of the code and slots maps *)
(* 0 .. size_-1 to the stored bytes.  Every operation returns the new ring *)
(* together with the value the C++ call returns.  The memcpy calls are     *)
(* modelled by what they do: logical byte k after a cursor c lives in slot *)
(* (c + k) % size_, which is what the one- or two-piece copies compute.    *)
(***************************************************************************)
EXTENDS Naturals, Sequences

CONSTANTS
  SizeSpace,  \* 2^64 for size_t: the modulus of size_t arithmetic
  Garbage     \* a byte read from outside the buffered data

MinOf(a, b) == IF a <= b THEN a ELSE b

\* RingBuffer::RingBuffer(size): both cursors at 0.
NewRing(size, blank) ==
  [size |-> size, begin |-> 0, end |-> 0, slots |-> [i \in 0 .. size - 1 |-> blank]]

IsEmpty(r)   == r.begin = r.end
IsFull(r)    == r.begin + r.size = r.end
Remaining(r) == r.end - r.begin
FreeSpace(r) == r.size - Remaining(r)

\* The bytes held by the ring, oldest first.
Contents(r) == [k \in 1 .. Remaining(r) |-> r.slots[(r.begin + k - 1) % r.size]]

\* RingBuffer::write.  The copy lands at end_ (mod size_) in every branch,
\* but end_ only advances in the branch where end_ < size_.
Write(r, data) ==
  IF IsFull(r) THEN [ring |-> r, ret |-> 0]
  ELSE
    LET n     == MinOf(Len(data), FreeSpace(r))
        slots == [i \in 0 .. r.size - 1 |->
                    LET k == (i - r.end) % r.size
                    IN  IF k < n THEN data[k + 1] ELSE r.slots[i]]
    IN [ring |-> [r EXCEPT !.slots = slots,
                           !.end   = IF r.end >= r.size THEN r.end
                                                        ELSE r.end + n],
        ret  |-> n]

\* Mutant: the wrap test is off by one (> instead of >=).
AdvanceMut(r, n) ==
  IF r.begin + n > r.size
  THEN [r EXCEPT !.begin = r.begin + n - r.size, !.end = r.end - r.size]
  ELSE [r EXCEPT !.begin = r.begin + n]

\* Advance the read cursor by n bytes (shared tail of read and consume).
Advance(r, n) ==
  IF r.begin + n >= r.size
  THEN [r EXCEPT !.begin = r.begin + n - r.size, !.end = r.end - r.size]
  ELSE [r EXCEPT !.begin = r.begin + n]

\* RingBuffer::read: destructive read of up to len bytes.
Read(r, len) ==
  IF IsEmpty(r) THEN [ring |-> r, ret |-> <<>>]
  ELSE LET n == MinOf(len, Remaining(r))
       IN  [ring |-> Advance(r, n), ret |-> SubSeq(Contents(r), 1, n)]

\* Mutant: consume trusts its argument and drops the clamp to remaining().
ConsumeMut(r, len) == [ring |-> Advance(r, len), ret |-> len]

\* RingBuffer::consume: advance without copying; returns the bytes dropped.
Consume(r, len) ==
  LET n == MinOf(len, Remaining(r))
  IN  [ring |-> Advance(r, n), ret |-> n]

\* RingBuffer::read_offset: non-destructive read of up to len bytes starting
\* offset bytes after begin_.  end_ - begin_off is size_t arithmetic, so an
\* offset past end_ wraps to a huge count and the copy reads stale bytes.
ReadOffset(r, offset, len) ==
  LET beginOff == r.begin + offset
      n        == MinOf(len, (r.end - beginOff) % SizeSpace)
  IN  [k \in 1 .. n |->
         IF beginOff + k - 1 < r.end
         THEN r.slots[(beginOff + k - 1) % r.size]
         ELSE Garbage]

=============================================================================
