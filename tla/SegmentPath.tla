---------------------------- MODULE SegmentPath -----------------------------
(***************************************************************************)
(* The path of a segment from a SendBuffer to the tests' mock IP layer:    *)
(* SegmentFactory::createSegment builds it, SendBuffer::sendSegment writes *)
(* it into its stack buffer `buf' (kMaxTCPPacketLength bytes) and calls    *)
(* MockIPLayer::sendPacket, which parses the bytes back, copies the        *)
(* payload and queues the segment; the test pops segments off the front.   *)
(*                                                                         *)
(*   frame   the bytes of sendSegment's `buf'.  It is a local array, and   *)
(*           each call reuses the same stack slot, so a view into it sees  *)
(*           what the latest call wrote there.                             *)
(*   queue   MockIPLayer::queue_, the parsed segments (SegmentCodec)       *)
(*   sent    for each queued segment, the segment built and its bytes as   *)
(*           written (history, for the properties)                         *)
(***************************************************************************)
EXTENDS SegmentCodec

SA == INSTANCE SocketAddress

CONSTANTS
  Local, Remote,  \* the SocketAddress pair of the factory: [ip, port]
  Seqs, Acks,     \* sequence and acknowledgment numbers sent
  Payloads,       \* payloads transmit() reads (at most kMaxSegmentSize)
  FrameLen,       \* kMaxTCPPacketLength
  QueueMax,       \* MockIPLayer::kMaxQueueLength
  Garbage         \* what an uninitialized uint32_t on the stack may hold

VARIABLES frame, queue, sent

vars == <<frame, queue, sent>>

Byte == 0..255

\* SegmentFactory::createSegment: the bound address pair and window 65535.
CreateSegment(seq, ack, ctl, data) ==
  [src |-> Local, dst |-> Remote, seq |-> seq, ack |-> ack,
   flags |-> ctl, window |-> 65535, data |-> data]

\* The segments a SendBuffer creates: transmit_SYN's SYN (the two-argument
\* overload, ack 0) or SYN|ACK, and transmit's ACK with data or with the FIN.
Created ==
  { CreateSegment(s, 0, FlagSYN, <<>>) : s \in Seqs } \cup
  { CreateSegment(s, a, FlagSYN + FlagACK, <<>>) : s \in Seqs, a \in Acks } \cup
  { CreateSegment(s, a, FlagACK, d) : s \in Seqs, a \in Acks, d \in Payloads \ {<<>>} } \cup
  { CreateSegment(s, a, FlagACK + FlagFIN, d) : s \in Seqs, a \in Acks, d \in Payloads }

\* What addIPAddress's `buffer' holds: the address written inside
\* DCHECK(ip_address.writeTo(&writer)), or, when NDEBUG drops that write,
\* whatever the stack held.
AddressMemory(ip) == IF DebugBuild THEN {ip} ELSE Garbage

\* SendBuffer's source_ and destination_, the addresses sendSegment hands
\* to sendPacket: default-constructed IPAddress() members, which only
\* setSource and setDestination (called by no code) would replace.
BufferSource == SA!NoIP
BufferDestination == SA!NoIP

Init ==
  /\ frame = [i \in 1..FrameLen |-> 0]
  /\ queue = <<>>
  /\ sent = <<>>

\* SendBuffer::sendSegment(seg) with MockIPLayer::sendPacket: the segment is
\* written into buf; a full queue refuses it (sendPacket returns false),
\* otherwise the first bytesWritten() bytes are parsed with the addresses
\* sendPacket was given (source_, destination_), copyData is called and the
\* segment queued.
SendSegment(seg) ==
  \E m1 \in AddressMemory(Local.ip), m2 \in AddressMemory(Remote.ip) :
    LET w   == WriteSegmentTo(seg, NewWriter(FrameLen), m1, m2)
        n   == Len(w.bytes)
        buf == w.bytes \o SubSeq(frame, n + 1, FrameLen)
    IN  /\ frame' = buf
        /\ IF Len(queue) >= QueueMax
           THEN UNCHANGED <<queue, sent>>
           ELSE /\ queue' = Append(queue,
                              CopyData(Parse(BufferSource, BufferDestination, SubSeq(buf, 1, n)), buf))
                /\ sent' = Append(sent, [seg |-> seg, wire |-> w.bytes])

\* The test's popSegment: front() then pop_front().
PopSegment ==
  /\ queue # <<>>
  /\ queue' = Tail(queue)
  /\ sent' = Tail(sent)
  /\ UNCHANGED frame

\* The test's segmentDropAll: queue().clear().
SegmentDropAll ==
  /\ queue # <<>>
  /\ queue' = <<>>
  /\ sent' = <<>>
  /\ UNCHANGED frame

Next ==
  \/ \E seg \in Created : SendSegment(seg)
  \/ PopSegment
  \/ SegmentDropAll

Spec == Init /\ [][Next]_vars

-----------------------------------------------------------------------------
\* A queued segment is a parsed segment whose payload view lies within the
\* kMaxTCPPacketLength bytes of sendSegment's buffer.
TypeOK ==
  /\ frame \in [1..FrameLen -> Byte]
  /\ Len(queue) = Len(sent) /\ Len(queue) <= QueueMax
  /\ \A i \in 1..Len(queue) :
       /\ queue[i].own \in BOOLEAN
       /\ queue[i].off \in 0..FrameLen /\ queue[i].len \in 0..FrameLen
       /\ queue[i].off + queue[i].len <= FrameLen
       /\ queue[i].copy \in Seq(Byte)

\* The fields a segment carries on the wire: the ports, the sequence and
\* acknowledgment numbers, the flags and the window.
WireFields(x) ==
  [sport |-> x.src.port, dport |-> x.dst.port, seq |-> x.seq, ack |-> x.ack,
   flags |-> x.flags, window |-> x.window]

\* What the test pops carries what the SendBuffer built: Segment::parse
\* inverts writeSegmentTo for every field the bytes hold, and copyData
\* keeps the payload although later sendSegment calls overwrite the buffer
\* it was parsed from.  The IP addresses are not in the bytes: the parsed
\* segment has the IP_UNSPEC source_ and destination_ of the SendBuffer.
RoundTrip ==
  \A i \in 1..Len(queue) :
    /\ WireFields(queue[i]) = WireFields(sent[i].seg)
    /\ Payload(queue[i], frame) = sent[i].seg.data

\* Every segment sendSegment hands to the IP layer carries a checksum that
\* a receiver accepts: RFC 793's test over the pseudo-header and the bytes
\* writeSegmentTo produced (spec.md, segment codec).
ChecksumVerifies ==
  \A i \in 1..Len(sent) : ChecksumValid(Local.ip, Remote.ip, sent[i].wire)
=============================================================================
