----------------------------- MODULE SendBuffer -----------------------------
(***************************************************************************)
(* Class SendBuffer (src/tcp/send_buffer.cpp) with the send half of its    *)
(* ControlBlock (src/tcp/control_block.h).  The object is one record:      *)
(*   unack, next, initial   tcb_->send.unack / next / initial              *)
(*   SYN_received           tcb_->receive.SYN_received                     *)
(*   SYN, FIN               SYN_, FIN_ \in {"None", "Sent", "Acked"}       *)
(*   bif                    bytes_in_flight_                               *)
(*   buffer                 buffer_, a RingBuffer (RingBufferOps)          *)
(*   armed                  retransmission_alarm_->isSet()                 *)
(* Each public method is an operator from the object (and its arguments)   *)
(* to [sb |-> new object, segs |-> segments handed to the IP layer in      *)
(* order, ret |-> return value, failed |-> a send of the call failed].     *)
(* A segment is [seq, data, syn, fin]; data is the sequence of payload     *)
(* bytes.                                                                  *)
(*                                                                         *)
(* sendSegment may fail (the IP layer returns false); `failAt' names the   *)
(* index of the first send of this call that fails, 0 for none.  A failed  *)
(* segment is not in `segs'.                                               *)
(***************************************************************************)
EXTENDS Integers, Sequences, RingBufferOps

CONSTANTS
  SeqSpace,          \* 2^32: SequenceNumber is uint32_t
  MSS,               \* kMaxSegmentSize
  MaxBytesInFlight,  \* kMaxBytesInFlight = kMaxSegmentSize * 10
  BufferSize,        \* capacity of buffer_ (256 KB in the constructor)
  Blank              \* an uninitialized byte of the ring

ASSUME /\ MSS \in Nat \ {0}
       /\ MaxBytesInFlight \in Nat /\ MaxBytesInFlight % MSS = 0
       /\ BufferSize \in Nat \ {0}
       /\ SizeSpace > SeqSpace

States == {"None", "Sent", "Acked"}

\* Mutant: sequence numbers held in a type wider than 32 bits.
SeqAddWideMut(a, b) == a + b

\* uint32_t addition.
SeqAdd(a, b) == (a + b) % SeqSpace

\* ControlBlock's MODULO_COMPARISIONS: both operands are taken relative to
\* send.initial with wrapping uint32_t subtraction before comparing.
Rel(s, a)               == (a - s.initial) % SeqSpace
SeqEqual(s, a, b)       == Rel(s, a) = Rel(s, b)
SeqLessOrEqual(s, a, b) == Rel(s, a) <= Rel(s, b)
SeqGreater(s, a, b)     == Rel(s, a) > Rel(s, b)

\* The object right after the constructor: tcb_ zero-initialized, the
\* retransmission alarm set one second ahead.
InitSendBuffer ==
  [unack |-> 0, next |-> 0, initial |-> 0, SYN_received |-> FALSE,
   SYN |-> "None", FIN |-> "None", bif |-> 0,
   buffer |-> NewRing(BufferSize, Blank), armed |-> TRUE]

Result(s, segs, ret) == [sb |-> s, segs |-> segs, ret |-> ret, failed |-> FALSE]
Failed(r) == [r EXCEPT !.failed = TRUE]

Segment(seq, data, syn, fin) ==
  [seq |-> seq, data |-> data, syn |-> syn, fin |-> fin]

\* SendBuffer::transmit_SYN: one SYN (SYN|ACK once the peer's SYN is known);
\* the result of sendSegment is ignored.
TransmitSYN(s, failAt) ==
  IF failAt = 1 THEN Failed(Result(s, <<>>, 0))
  ELSE Result(s, <<Segment(s.initial, <<>>, TRUE, FALSE)>>, 0)

\* The while loop of SendBuffer::transmit, from bytes_in_flight_ = b with the
\* segments segs already sent.  Returns the final bytes_in_flight_, the
\* segments sent and whether the loop ended on a failed send.
RECURSIVE TransmitLoop(_, _, _, _)
TransmitLoop(s, b, segs, failAt) ==
  IF b >= MaxBytesInFlight THEN [bif |-> b, segs |-> segs, failed |-> FALSE]
  ELSE
    LET data   == ReadOffset(s.buffer, b, MSS)
        length == Len(data)
        seq    == SeqAdd(s.unack, b)
        b2     == (b + length) % SizeSpace
        fin    == s.FIN = "Sent" /\ SeqEqual(s, SeqAdd(seq, length + 1), s.next)
        sent   == Append(segs, Segment(seq, data, FALSE, fin))
    IN  CASE ~fin /\ length = 0      -> [bif |-> b2, segs |-> segs, failed |-> FALSE]
          [] Len(segs) + 1 = failAt -> [bif |-> b2, segs |-> segs, failed |-> TRUE]
          [] length = 0             -> [bif |-> b2, segs |-> sent, failed |-> FALSE]
          [] OTHER                  -> TransmitLoop(s, b2, sent, failAt)

\* SendBuffer::transmit.
Transmit(s, failAt) ==
  CASE s.SYN = "None" -> Result(s, <<>>, 0)
    [] s.SYN = "Sent" -> TransmitSYN(s, failAt)
    [] OTHER ->
         LET loop == TransmitLoop(s, s.bif, <<>>, failAt)
         IN  [Result([s EXCEPT !.bif = loop.bif], loop.segs, 0)
                EXCEPT !.failed = loop.failed]

\* SendBuffer::sendSYN(initial).
SendSYN(s, isn, failAt) ==
  Transmit([s EXCEPT !.initial = isn, !.next = SeqAdd(isn, 1),
                     !.unack = isn, !.SYN = "Sent"], failAt)

\* SendBuffer::sendData(data, length).
SendData(s, data, failAt) ==
  IF IsFull(s.buffer) THEN Result(s, <<>>, 0)
  ELSE
    LET w  == Write(s.buffer, data)
        s1 == [s EXCEPT !.buffer = w.ring, !.next = SeqAdd(s.next, w.ret)]
        t  == IF s1.SYN = "Acked" THEN Transmit(s1, failAt) ELSE Result(s1, <<>>, 0)
    IN  [t EXCEPT !.ret = w.ret]

\* SendBuffer::sendFIN().
SendFIN(s, failAt) ==
  LET s1 == [s EXCEPT !.FIN = "Sent", !.next = SeqAdd(s.next, 1)]
  IN  IF IsEmpty(s1.buffer) THEN Transmit(s1, failAt) ELSE Result(s1, <<>>, 0)

\* The four steps of SendBuffer::acknowledge(ack).  The first ACK after
\* sendSYN consumes the SYN's sequence number.
AckSYN(s) ==
  IF s.SYN = "Sent" THEN [s EXCEPT !.SYN = "Acked", !.unack = SeqAdd(s.initial, 1)]
  ELSE s

\* consumed is uint32_t ack - unack widened to size_t; unack advances by what
\* the ring really drops, bytes_in_flight_ by consumed in size_t arithmetic.
AckConsumed(s, ack) == (ack - s.unack) % SeqSpace

\* Mutant: unack advances by consumed rather than by what consume() dropped.
AckDataUnclampedMut(s, ack) ==
  LET c == Consume(s.buffer, AckConsumed(s, ack))
  IN  [s EXCEPT !.buffer = c.ring, !.unack = SeqAdd(s.unack, AckConsumed(s, ack)),
                !.bif = (s.bif - AckConsumed(s, ack)) % SizeSpace]

AckData(s, ack) ==
  LET c == Consume(s.buffer, AckConsumed(s, ack))
  IN  [s EXCEPT !.buffer = c.ring, !.unack = SeqAdd(s.unack, c.ret),
                !.bif = (s.bif - AckConsumed(s, ack)) % SizeSpace]

\* Mutant: the alarm is disarmed when nothing is in flight (as spec.md 4.5
\* describes) instead of being pushed one second ahead.
AckAlarmMut(s) == IF s.bif = 0 THEN [s EXCEPT !.armed = FALSE] ELSE s

\* update(now + 1s) re-arms the alarm whether or not it was set.
AckAlarm(s) == IF s.bif = 0 THEN [s EXCEPT !.armed = TRUE] ELSE s

\* The FIN is acknowledged by ack = next; the alarm is cancelled.
AckFIN(s, ack) ==
  IF s.FIN = "Sent" /\ SeqEqual(s, ack, s.next)
  THEN [s EXCEPT !.FIN = "Acked", !.armed = FALSE, !.unack = SeqAdd(s.unack, 1)]
  ELSE s

Acknowledge(s, ack, failAt) ==
  LET s1 == AckSYN(s)
      s4 == AckFIN(AckAlarm(AckData(s1, ack)), ack)
  IN  IF AckConsumed(s1, ack) > 0 THEN Transmit(s4, failAt) ELSE Result(s4, <<>>, 0)

\* Mutant: the timer callback re-arms without retransmitting.
RetransmitSilentMut(s, failAt) == Result([s EXCEPT !.armed = TRUE], <<>>, 0)

\* Mutant: retransmit keeps bytes_in_flight_, so transmit resumes after the
\* lost bytes instead of resending them.
RetransmitNoResetMut(s, failAt) ==
  LET t == Transmit([s EXCEPT !.armed = FALSE], failAt)
  IN  [t EXCEPT !.sb.armed = TRUE]

\* SendBuffer::retransmit, run by Alarm::fire, which clears the deadline
\* before calling it; it re-sets the alarm after transmitting.
Retransmit(s, failAt) ==
  LET t == Transmit([s EXCEPT !.bif = 0, !.armed = FALSE], failAt)
  IN  [t EXCEPT !.sb.armed = TRUE]

=============================================================================
