---------------------------- MODULE SegmentCodec ----------------------------
(***************************************************************************)
(* The wire format of a TCP segment: DataWriter and DataReader             *)
(* (src/base/data_*.cpp), the Internet checksum (src/base/checksum.cpp),   *)
(* IPAddress's byte form (src/ip/ip_address.cpp) and Segment's             *)
(* writeSegmentTo, parse and copyData (src/tcp/segment.cpp).               *)
(*                                                                         *)
(* A byte is 0..255 and a buffer a sequence of bytes.  An IP address is    *)
(* its four bytes in network order.  The host is little-endian (x86), so   *)
(* ntohs swaps the two bytes of a uint16_t.                                *)
(*                                                                         *)
(* glog's DCHECK(e) does not evaluate e when NDEBUG is defined.  Two       *)
(* statements of this code have their effect inside a DCHECK, so the      *)
(* build matters: DebugBuild says whether DCHECK evaluates its argument.   *)
(***************************************************************************)
EXTENDS Integers, Sequences, SequencesExt

CONSTANTS
  DebugBuild,   \* NDEBUG undefined: DCHECK evaluates its argument
  SizeSpace     \* 2^64: size_t

HeaderLength == 20   \* kTcpHeaderLength
ProtoTCP     == 6    \* ServiceProtocol::TCP
\* Segment's flag bits FIN, SYN and ACK.
FlagFIN == 1
FlagSYN == 2
FlagACK == 16

\* Mutant: the shifted value stored without keeping only its low byte.
BENoTruncMut(v, n) == [i \in 1..n |-> v \div 256^(n - i)]

\* The n bytes of a uintN_t value in network order (htons / htonl); only
\* the low n bytes of v are kept, as the conversion to uintN_t does.
BE(v, n) == [i \in 1..n |-> (v \div 256^(n - i)) % 256]

\* The value of bytes in network order (ntohs / ntohl).
BEValue(b) == FoldLeft(LAMBDA acc, x : acc * 256 + x, 0, b)

(***************************************************************************)
(* DataWriter: [bytes |-> written so far, cap |-> capacity_].              *)
(***************************************************************************)
NewWriter(cap) == [bytes |-> <<>>, cap |-> cap]

\* writeBytes: refused (nothing written) when it does not fit.
WriteBytes(w, data) ==
  IF Len(w.bytes) + Len(data) > w.cap THEN w
  ELSE [w EXCEPT !.bytes = @ \o data]

\* writeUInt8 / writeUInt16 / writeUInt32.
WriteUInt(w, v, n) == WriteBytes(w, BE(v, n))

(***************************************************************************)
(* DataReader: [bytes |-> buffer_ up to capacity_, pos |-> pos_].  A read  *)
(* returns the reader after it, whether it succeeded and the value.        *)
(***************************************************************************)
NewReader(buf) == [bytes |-> buf, pos |-> 0]

\* readBytes: refused (pos_ unchanged) past capacity_.
ReadBytes(r, n) ==
  IF r.pos + n > Len(r.bytes)
  THEN [r |-> r, ok |-> FALSE, val |-> <<>>]
  ELSE [r |-> [r EXCEPT !.pos = @ + n], ok |-> TRUE,
        val |-> SubSeq(r.bytes, r.pos + 1, r.pos + n)]

\* readUInt8 / readUInt16 / readUInt32.
ReadUInt(r, n) ==
  LET rb == ReadBytes(r, n) IN [rb EXCEPT !.val = BEValue(rb.val)]

(***************************************************************************)
(* Checksum.  sum_ is a uint16_t; every addition folds the carry back in  *)
(* once, which keeps the sum within 16 bits.                               *)
(***************************************************************************)
\* Mutant: the carry out of bit 15 dropped instead of folded back.
FoldNoCarryMut(s) == s % 65536

\* sum = (sum & 0xffffu) + (sum >> 16u)
Fold(s) == (s % 65536) + (s \div 65536)

\* The while loop of the constructor over the 16-bit words of b from byte i.
RECURSIVE ChecksumLoop(_, _, _)
ChecksumLoop(b, i, sum) ==
  IF i > Len(b) THEN sum
  ELSE ChecksumLoop(b, i + 2, Fold(sum + b[i] * 256 + b[i + 1]))

\* Checksum(begin, end): an odd last byte is taken first, as the high byte.
ChecksumOf(b) ==
  IF Len(b) % 2 = 1
  THEN ChecksumLoop(SubSeq(b, 1, Len(b) - 1), 1, b[Len(b)] * 256)
  ELSE ChecksumLoop(b, 1, 0)

AddHostUInt16(sum, v) == Fold(sum + v)

\* ntohs on a little-endian host.
Swap16(v) == (v % 256) * 256 + (v \div 256)

AddNetworkUint16(sum, v) == AddHostUInt16(sum, Swap16(v))

\* addIPAddress, given m, the four bytes the uint32_t `buffer' holds in
\* memory.  On a little-endian host (uint16_t)(buffer >> 16) is
\* m[3] + m[4] * 256 and (uint16_t)buffer is m[1] + m[2] * 256.
AddIPAddress(sum, m) ==
  AddNetworkUint16(AddNetworkUint16(sum, m[3] + m[4] * 256), m[1] + m[2] * 256)

\* writeTo(buffer): ~sum_ as two bytes, high byte first, at offset `at'.
ChecksumWriteTo(b, sum, at) ==
  LET cs == 65535 - sum
  IN  [b EXCEPT ![at + 1] = cs \div 256, ![at + 2] = cs % 256]

(***************************************************************************)
(* Segment.  A built segment (SegmentFactory::createSegment) is           *)
(*   [src, dst |-> [ip, port], seq, ack, flags, window, data]              *)
(* with data the payload bytes it borrows.  A parsed segment has, instead  *)
(* of data, the view [own, off, len, copy]: borrowed, it is the bytes at   *)
(* off .. off + len of the buffer it was parsed from; owned, it is copy.   *)
(***************************************************************************)

\* writeSegmentTo(writer) with m1, m2 the memory addIPAddress reads for the
\* source and destination address; returns the writer (the code returns
\* false, and no caller reads it).
WriteSegmentTo(seg, w, m1, m2) ==
  LET w1 == WriteUInt(WriteUInt(w, seg.src.port, 2), seg.dst.port, 2)
      w2 == WriteUInt(WriteUInt(w1, seg.seq, 4), seg.ack, 4)
      w3 == WriteUInt(WriteUInt(w2, 80, 1), seg.flags, 1)
      w4 == WriteUInt(WriteUInt(WriteUInt(w3, seg.window, 2), 0, 2), 0, 2)
      w5 == WriteBytes(w4, seg.data)
      tcpLength == (Len(seg.data) + HeaderLength) % 65536
      sum == AddHostUInt16(AddHostUInt16(
               AddIPAddress(AddIPAddress(ChecksumOf(w5.bytes), m1), m2),
               ProtoTCP), tcpLength)
  IN  [w5 EXCEPT !.bytes = ChecksumWriteTo(@, sum, 16)]

\* offset = offset >> 2u: the data-offset nibble in 32-bit words, as bytes.
DataOffset(byte) == byte \div 4

\* Segment::parse(source, destination, buf, len).  The window is read
\* inside DCHECK; without it the field keeps the 0 of make_unique<Segment>()
\* (value-initialized).
Parse(source, destination, buf) ==
  LET sp == ReadUInt(NewReader(buf), 2)
      dp == ReadUInt(sp.r, 2)
      sq == ReadUInt(dp.r, 4)
      ak == ReadUInt(sq.r, 4)
      of == ReadUInt(ak.r, 1)
      fl == ReadUInt(of.r, 1)
      wn == ReadUInt(fl.r, 2)
      offset == DataOffset(of.val)
  IN  [src |-> [ip |-> source, port |-> sp.val],
       dst |-> [ip |-> destination, port |-> dp.val],
       seq |-> sq.val, ack |-> ak.val, flags |-> fl.val,
       window |-> IF DebugBuild THEN wn.val ELSE 0,
       own |-> FALSE, off |-> offset,
       len |-> (Len(buf) - offset) % SizeSpace, copy |-> <<>>]

\* Mutant: copyData returns without copying.
CopyDataNoCopyMut(seg, buf) == seg

\* copyData, with buf the buffer a borrowed view points into.
CopyData(seg, buf) ==
  IF seg.own \/ seg.len = 0 THEN seg
  ELSE [seg EXCEPT !.own = TRUE, !.copy = SubSeq(buf, seg.off + 1, seg.off + seg.len)]

\* The payload of a parsed segment, read through its view with `buf' the
\* current contents of the buffer it was parsed from.
Payload(seg, buf) ==
  IF seg.own THEN seg.copy ELSE SubSeq(buf, seg.off + 1, seg.off + seg.len)

(***************************************************************************)
(* The reference: RFC 793's checksum test.  The 16-bit words of the        *)
(* pseudo-header (source, destination, zero and protocol, TCP length) and  *)
(* of the segment, padded with a zero byte, add up in one's complement     *)
(* arithmetic to 0xFFFF, i.e. to 0 modulo 65535.                           *)
(***************************************************************************)
Words(b) ==
  LET p == IF Len(b) % 2 = 1 THEN b \o <<0>> ELSE b
  IN  [i \in 1..(Len(p) \div 2) |-> p[2 * i - 1] * 256 + p[2 * i]]

ChecksumValid(src, dst, wire) ==
  LET pseudo == Words(src) \o Words(dst) \o <<ProtoTCP, Len(wire)>>
  IN  FoldLeft(LAMBDA acc, x : (acc + x) % 65535, 0, pseudo \o Words(wire)) = 0
=============================================================================
