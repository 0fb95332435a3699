------------------------------ MODULE TcpSender ------------------------------
(***************************************************************************)
(* One SendBuffer (SendBuffer.tla) in its system: the application calls    *)
(* sendSYN, sendData and sendFIN through its SocketSession, the event loop  *)
(* fires the retransmission alarm, the IP layer carries segments to a peer *)
(* and the peer's cumulative ACKs back, losing, reordering (within a      *)
(* window) and delaying them.  The segment-arrival handlers that would call acknowledge are     *)
(* stubs in src/tcp/socket_session.cpp, so the ACKs reach acknowledge      *)
(* through the filter its DCHECKs assume (AckAcceptable).                  *)
(*                                                                         *)
(* Byte k of the application's stream (k = 0, 1, ...) is the value k, so   *)
(* the peer can tell whether what it assembles is the stream sent.         *)
(***************************************************************************)
EXTENDS SendBuffer, SequencesExt

CONSTANTS
  ISNs,       \* initial sequence numbers the session may pick
  OpenModes,  \* subset of BOOLEAN: TRUE = passive open (a SYN was received)
  MaxStream,  \* bytes the application writes in total
  MaxChunk,   \* longest sendData call
  MaxLoss,    \* segments lost in the network or refused by the IP layer
  Window      \* a packet may overtake at most Window - 1 older ones

VARIABLES
  sb,        \* the SendBuffer with its ControlBlock send half
  written,   \* bytes of the stream accepted by sendData so far
  toPeer,    \* segments in the network, oldest first
  toSender,  \* ACK numbers in the network, oldest first
  peer,      \* [synSeen, rcvNxt, finSeen, received]: the remote receiver
  losses     \* segments lost so far

vars == <<sb, written, toPeer, toSender, peer, losses>>

\* Sending what is already in flight adds no new packet to the model: an
\* identical copy is indistinguishable from the first one.
Enqueue(q, msgs) ==
  q \o SelectSeq(msgs, LAMBDA m : ~\E i \in 1 .. Len(q) : q[i] = m)

RECURSIVE Dedup(_)
Dedup(msgs) ==
  IF msgs = <<>> THEN <<>>
  ELSE LET rest == Dedup(Tail(msgs))
       IN  IF \E i \in 1 .. Len(rest) : rest[i] = Head(msgs) THEN rest
           ELSE <<Head(msgs)>> \o rest

\* Apply the result of a SendBuffer call: the segments go to the network, a
\* failed sendPacket is a loss.  Callers bind the result with
\* \E res \in {...} so that TLC evaluates the recursive handler once.
Apply(res) ==
  /\ sb' = res.sb
  /\ toPeer' = Enqueue(toPeer, Dedup(res.segs))
  /\ losses' = IF res.failed THEN losses + 1 ELSE losses

\* failAt choices allowed while the loss budget lasts.
FailChoices == IF losses < MaxLoss THEN 0 .. 2 ELSE {0}

Init ==
  /\ sb = InitSendBuffer
  /\ written = 0
  /\ toPeer = <<>>
  /\ toSender = <<>>
  /\ peer = [synSeen |-> FALSE, rcvNxt |-> 0, finSeen |-> FALSE,
             received |-> <<>>]
  /\ losses = 0

\* SocketSession::open() (active) or the LISTEN handler on a SYN (passive,
\* which first records SYN_received): both end in sendSYN(rand()).
Open ==
  /\ sb.SYN = "None"
  /\ \E isn \in ISNs, passive \in OpenModes, f \in FailChoices :
     \E res \in {SendSYN([sb EXCEPT !.SYN_received = passive], isn, f)} : Apply(res)
  /\ UNCHANGED <<written, toSender, peer>>

\* The application's write() reaching sendData with the next bytes of its
\* stream.
AppSend ==
  /\ sb.SYN # "None" /\ sb.FIN = "None"
  /\ written < MaxStream
  /\ \E n \in 1 .. MaxChunk, f \in FailChoices :
       \E res \in {SendData(sb, [i \in 1 .. MinOf(n, MaxStream - written) |->
                                    written + i - 1], f)} :
         Apply(res) /\ written' = written + res.ret
  /\ UNCHANGED <<toSender, peer>>

\* SocketSession::close() from SYN_RECEIVED or ESTABLISHED calls sendFIN.
Close ==
  /\ sb.FIN = "None"
  /\ sb.SYN = "Acked" \/ sb.SYN_received
  /\ \E f \in FailChoices : \E res \in {SendFIN(sb, f)} : Apply(res)
  /\ UNCHANGED <<written, toSender, peer>>

\* The event loop fires the due retransmission alarm.
Fire ==
  /\ sb.armed
  /\ \E f \in FailChoices : \E res \in {Retransmit(sb, f)} : Apply(res)
  /\ UNCHANGED <<written, toSender, peer>>

\* An ACK acknowledge's DCHECKs accept: past the ISN while the SYN is
\* outstanding, otherwise not below unack, and never beyond next.
AckAcceptable(s, ack) ==
  /\ s.SYN # "None"
  /\ s.SYN = "Sent" => SeqGreater(s, ack, s.initial)
  /\ SeqLessOrEqual(s, IF s.SYN = "Sent" THEN SeqAdd(s.initial, 1) ELSE s.unack, ack)
  /\ SeqLessOrEqual(s, ack, s.next)

\* An ACK arrives; an acceptable one is passed to acknowledge, others are
\* dropped.
AckArrives(i) ==
  LET ack == toSender[i]
  IN  /\ toSender' = RemoveAt(toSender, i)
      /\ IF AckAcceptable(sb, ack)
         THEN \E f \in FailChoices : \E res \in {Acknowledge(sb, ack, f)} : Apply(res)
         ELSE UNCHANGED <<sb, toPeer, losses>>
      /\ UNCHANGED <<written, peer>>

\* The peer's receiver: it takes the SYN, then in-order bytes and the FIN,
\* and answers every segment with a cumulative ACK of rcvNxt.
PeerAccept(p, seg) ==
  IF seg.syn
  THEN IF p.synSeen THEN p
       ELSE [p EXCEPT !.synSeen = TRUE, !.rcvNxt = SeqAdd(seg.seq, 1)]
  ELSE LET skip == (p.rcvNxt - seg.seq) % SeqSpace
           new  == SubSeq(seg.data, skip + 1, Len(seg.data))
           p1   == [p EXCEPT !.rcvNxt = SeqAdd(p.rcvNxt, Len(new)),
                             !.received = p.received \o new]
       IN  CASE ~p.synSeen \/ p.finSeen \/ skip > Len(seg.data) -> p
             [] seg.fin -> [p1 EXCEPT !.finSeen = TRUE, !.rcvNxt = SeqAdd(p1.rcvNxt, 1)]
             [] OTHER   -> p1

PeerReceive(i) ==
  LET p1 == PeerAccept(peer, toPeer[i])
  IN  /\ toPeer' = RemoveAt(toPeer, i)
      /\ peer' = p1
      /\ toSender' = IF p1.synSeen THEN Enqueue(toSender, <<p1.rcvNxt>>)
                     ELSE toSender
      /\ UNCHANGED <<sb, written, losses>>

Lose ==
  /\ losses < MaxLoss
  /\ \/ \E i \in 1 .. Len(toPeer) :
          toPeer' = RemoveAt(toPeer, i) /\ UNCHANGED toSender
     \/ \E i \in 1 .. Len(toSender) :
          toSender' = RemoveAt(toSender, i) /\ UNCHANGED toPeer
  /\ losses' = losses + 1
  /\ UNCHANGED <<sb, written, peer>>

\* Nothing is left to do once the FIN is acknowledged and the network is
\* quiet: the alarm is cancelled and the application is done.
Terminated ==
  /\ sb.FIN = "Acked" /\ toPeer = <<>> /\ toSender = <<>>
  /\ UNCHANGED vars

Next ==
  \/ Open \/ AppSend \/ Close \/ Fire \/ Lose
  \/ \E i \in 1 .. MinOf(Window, Len(toSender)) : AckArrives(i)
  \/ \E i \in 1 .. MinOf(Window, Len(toPeer)) : PeerReceive(i)
  \/ Terminated

\* The epoll loop fires every due alarm, and the network eventually delivers
\* the oldest packet in each direction.  The application is not assumed to
\* make any call.  Each conjunct is WF_vars(A) written out as
\* <>[](ENABLED <<A>>_vars) => []<><<A>>_vars with ENABLED <<A>>_vars given
\* as a state predicate: a delivery always removes the packet it takes, and
\* a firing changes the state unless retransmit sends nothing new.
FireChanges ==
  /\ sb.armed
  /\ \E f \in FailChoices :
       LET res == Retransmit(sb, f)
       IN  res.sb # sb \/ res.failed \/ Enqueue(toPeer, Dedup(res.segs)) # toPeer

Fairness ==
  /\ <>[]FireChanges => []<><<Fire>>_vars
  /\ <>[](Len(toPeer) > 0) => []<><<Len(toPeer) > 0 /\ PeerReceive(1)>>_vars
  /\ <>[](Len(toSender) > 0) => []<><<Len(toSender) > 0 /\ AckArrives(1)>>_vars

Spec == Init /\ [][Next]_vars /\ Fairness

-----------------------------------------------------------------------------
Segments == [seq : 0 .. SeqSpace - 1, data : Seq(Nat \cup {Blank, Garbage}),
             syn : BOOLEAN, fin : BOOLEAN]

TypeOK ==
  /\ sb.SYN \in States /\ sb.FIN \in States
  /\ {sb.unack, sb.next, sb.initial} \subseteq 0 .. SeqSpace - 1
  /\ sb.bif \in 0 .. SizeSpace - 1
  /\ sb.armed \in BOOLEAN /\ sb.SYN_received \in BOOLEAN
  /\ written \in 0 .. MaxStream
  /\ toPeer \in Seq(Segments) /\ toSender \in Seq(0 .. SeqSpace - 1)
  /\ peer.rcvNxt \in 0 .. SeqSpace - 1
  /\ losses \in 0 .. MaxLoss

\* While the SYN or any sent sequence number is unacknowledged, the
\* retransmission alarm is set: acknowledge, retransmit and the alarm's
\* fire/set/update calls never leave outstanding data without a timer.
AlarmArmedWhileOutstanding ==
  (sb.SYN = "Sent" \/ sb.unack # sb.next) => sb.armed

\* The peer's next expected sequence number lies between the sender's
\* unack and next: acknowledge never advances send.unack past what the peer
\* has acknowledged, and the peer never acknowledges what was not sent.
SenderAndReceiverAgree ==
  peer.synSeen =>
    /\ SeqLessOrEqual(sb, sb.unack, peer.rcvNxt)
    /\ SeqLessOrEqual(sb, peer.rcvNxt, sb.next)

\* Whenever bytes_in_flight_ is a real count of buffered bytes (it has not
\* wrapped below zero, as acknowledge's size_t subtraction can), it is within
\* kMaxBytesInFlight (spec.md 3: at most 10 x MSS bytes in flight): the
\* while loop of transmit never reads past the cap.
BytesInFlightWithinCap ==
  sb.bif <= Remaining(sb.buffer) => sb.bif <= MaxBytesInFlight

\* Under the alarm and the network being fair, a SYN that was sent is
\* eventually acknowledged (retransmit resends it until acknowledge runs).
HandshakeCompletes == sb.SYN = "Sent" ~> sb.SYN = "Acked"

\* Whatever the ring holds is eventually acknowledged and consumed: bytes
\* counted in flight by a send that failed, or buffered before the SYN's
\* ACK (which consumes nothing), are resent by retransmit and acknowledge
\* frees them.  It speaks of the bytes the ring holds: a byte that
\* RingBuffer::write reports written but never stores (ring_buffer.cpp:44)
\* is not among them, and is the subject of ring_fifo, not of this property.
BufferDrains == Remaining(sb.buffer) > 0 ~> Remaining(sb.buffer) = 0

=============================================================================
