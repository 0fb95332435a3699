---------------------------- MODULE FrameReceive ----------------------------
(***************************************************************************)
(* The inbound path of a frame: Device::decodeFrame (src/ether/device.cpp) *)
(* unpacks the Ethernet II header, filters on the destination MAC, learns  *)
(* the peer's MAC and hands an IPv4 payload to its callback, which the     *)
(* ProtocolStack constructor sets to the IPLayer before the event loop     *)
(* thread starts; IPLayer::onReceive (src/ip/ip_layer.cpp) reads the IP    *)
(* header and subtractTTL decrements the TTL in place, in the frame's own  *)
(* buffer.  What onReceive does next (the TESTING0 branch, forwarding, the *)
(* protocol switch) is empty in this code, so a packet that passes the TTL *)
(* test is "dispatched" to nothing.                                        *)
(*                                                                         *)
(* A MAC address is its six bytes; an IP address its four bytes in        *)
(* network order, as IPAddress's DataReader constructor copies them.     *)
(*                                                                         *)
(*   peer   Device::peer_address_; NoPeer while it is not isSpecified()   *)
(*   last   the frame the latest decodeFrame call was given, what became  *)
(*          of it, the header fields onReceive decoded and the frame's     *)
(*          bytes after the call (history, for the property)               *)
(***************************************************************************)
EXTENDS SegmentCodec

CONSTANTS
  OwnMac,        \* Device::mac_address_
  Dsts, Srcs,    \* destination and source MACs of frames on the link
  EtherTypes,    \* the frames' type field
  VersionBytes,  \* the first byte of the IP header: version and IHL
  TTLs, Protos,  \* time to live and protocol of the IP header
  IpSrc, IpDst,  \* the datagram's addresses
  IpIdent        \* the identification and flags/fragment words (4 bytes)

VARIABLES peer, last

rxVars == <<peer, last>>

MacLength == 6          \* kMacAddressLength
TypeARP   == 2054       \* 0x0806
TypeIPv4  == 2048       \* 0x0800
TTLOffset == 8          \* kTTLHeaderOffset
Broadcast == [i \in 1..MacLength |-> 255]
NoPeer    == <<>>
NoHeader  == [protocol |-> 0, src |-> <<>>, dst |-> <<>>]

(***************************************************************************)
(* The frames a station on the link sends: an Ethernet II header and a     *)
(* 20-byte IP header whose checksum the sender's kernel computed.          *)
(***************************************************************************)
IpHeader(verIhl, ttl, proto) ==
  LET h == <<verIhl, 0>> \o BE(20, 2) \o IpIdent \o <<ttl, proto, 0, 0>>
           \o IpSrc \o IpDst
  IN  ChecksumWriteTo(h, ChecksumOf(h), 10)

Frames ==
  { d \o s \o BE(t, 2) \o IpHeader(v, ttl, p) :
      d \in Dsts, s \in Srcs, t \in EtherTypes, v \in VersionBytes,
      ttl \in TTLs, p \in Protos }

(***************************************************************************)
(* DataReader, MacAddress and IPAddress as decodeFrame and onReceive use   *)
(* them.                                                                   *)
(***************************************************************************)
\* DataReader::skip: refused (pos_ unchanged) past capacity_.
Skip(r, n) == IF r.pos + n > Len(r.bytes) THEN r ELSE [r EXCEPT !.pos = @ + n]

\* reader.buffer() and reader.length(): the bytes from pos_ on.
Rest(r) == SubSeq(r.bytes, r.pos + 1, Len(r.bytes))

\* IPAddress(DataReader *): readBytes into the value-initialized address_,
\* which stays zero when the read is refused.
ReadAddress(r, n) ==
  LET rb == ReadBytes(r, n)
  IN  [r |-> rb.r, val |-> IF rb.ok THEN rb.val ELSE [i \in 1..n |-> 0]]

\* MacAddress(DataReader *): the same, for the six octets.
ReadMac(r) == ReadAddress(r, MacLength)

\* operator==(MacAddress, MacAddress): memcmp of the octets.
MacEquals(lhs, rhs) == lhs = rhs

\* Mutant: no address counts as broadcast.
IsBroadcastNeverMut(m) == FALSE

\* MacAddress::isBroadcast: every octet is 0xff.
IsBroadcast(m) == \A i \in 1..MacLength : m[i] = 255

\* Mutant: kTTLHeaderOffset one byte too far (the protocol byte).
SubtractTTLOffByOneMut(buf) ==
  IF buf[TTLOffset + 2] = 0 THEN [ok |-> FALSE, buf |-> buf]
  ELSE [ok |-> TRUE, buf |-> [buf EXCEPT ![TTLOffset + 2] = @ - 1]]

\* IPLayer::subtractTTL: false on TTL 0, otherwise the byte at
\* buf + kTTLHeaderOffset is decremented in place.
SubtractTTL(buf) ==
  IF buf[TTLOffset + 1] = 0 THEN [ok |-> FALSE, buf |-> buf]
  ELSE [ok |-> TRUE, buf |-> [buf EXCEPT ![TTLOffset + 1] = @ - 1]]

\* IPLayer::onReceive(device, buf, len): the version test, the header
\* reads (total_length inside DCHECK, so skipped with NDEBUG; a refused
\* protocol read leaves rv holding the version byte), then subtractTTL.
\* header_length is computed and never used.
OnReceive(buf) ==
  LET vr == ReadUInt(NewReader(buf), 1)
      r1 == Skip(vr.r, 1)
      r2 == IF DebugBuild THEN ReadUInt(r1, 2).r ELSE r1
      pr == ReadUInt(Skip(r2, 5), 1)
      sa == ReadAddress(Skip(pr.r, 2), 4)
      da == ReadAddress(sa.r, 4)
      tt == SubtractTTL(buf)
      hdr == [protocol |-> IF pr.ok THEN pr.val ELSE vr.val,
              src |-> sa.val, dst |-> da.val]
      Drop(why) == [out |-> why, hdr |-> NoHeader, buf |-> buf]
  IN  CASE vr.val \div 16 # 4 -> Drop("bad_version")
        [] ~tt.ok             -> Drop("ttl_expired")
        [] OTHER              -> [out |-> "dispatched", hdr |-> hdr, buf |-> tt.buf]

\* Device::decodeFrame(data, length): the destination filter, the peer
\* learnt from the first accepted frame with a unicast source, the type
\* dispatch, and cb_->onReceive on the bytes after the type field.
DecodeFrame(pr, data) ==
  LET d  == ReadMac(NewReader(data))
      s  == ReadMac(d.r)
      pr1 == IF pr = NoPeer /\ ~IsBroadcast(s.val) THEN s.val ELSE pr
      t  == ReadUInt(s.r, 2)
      ip == OnReceive(Rest(t.r))
      Drop(p, why) == [peer |-> p, out |-> why, hdr |-> NoHeader, buf |-> data]
  IN  CASE ~IsBroadcast(d.val) /\ ~MacEquals(d.val, OwnMac) -> Drop(pr, "not_for_us")
        [] ~t.ok             -> Drop(pr1, "short")
        [] t.val = TypeARP   -> Drop(pr1, "arp")
        [] t.val # TypeIPv4  -> Drop(pr1, "unknown_type")
        [] OTHER ->
             [peer |-> pr1, out |-> ip.out, hdr |-> ip.hdr,
              buf |-> SubSeq(data, 1, t.r.pos) \o ip.buf]

\* peer_address_ starts unspecified; DeviceManager::setCallback has given
\* every device its callback before the event loop runs.
RxInit ==
  /\ peer = NoPeer
  /\ last = [frame |-> <<>>, out |-> "none", hdr |-> NoHeader, buf |-> <<>>]

\* A frame of the link handed to decodeFrame (the caller, onReadable's
\* pcap_next_ex loop, is a stub in this code).
ReceiveFrame(f) ==
  LET res == DecodeFrame(peer, f)
  IN  /\ peer' = res.peer
      /\ last' = [frame |-> f, out |-> res.out, hdr |-> res.hdr, buf |-> res.buf]

RxNext == \E f \in Frames : ReceiveFrame(f)

RxSpec == RxInit /\ [][RxNext]_rxVars

-----------------------------------------------------------------------------
\* The learnt peer is a station's unicast address: decodeFrame never takes
\* the broadcast address (or a value not seen on the link) as peer_address_.
RxTypeOK ==
  /\ peer \in {NoPeer} \cup (Srcs \ {Broadcast})
  /\ last.out \in {"none", "not_for_us", "short", "arp", "unknown_type",
                   "bad_version", "ttl_expired", "dispatched"}

\* The reference: what RFC 894's destination and type fields and RFC 791's
\* version and TTL fields make of a frame, read at the fields' fixed
\* offsets (Ethernet header 14 bytes, then the IP header).
RFCOutcome(f) ==
  LET type == f[13] * 256 + f[14]
  IN  CASE SubSeq(f, 1, 6) \notin {OwnMac, Broadcast} -> "not_for_us"
        [] type = TypeARP     -> "arp"
        [] type # TypeIPv4    -> "unknown_type"
        [] f[15] \div 16 # 4  -> "bad_version"
        [] f[23] = 0          -> "ttl_expired"
        [] OTHER              -> "dispatched"

RFCHeader(f) ==
  [protocol |-> f[24], src |-> SubSeq(f, 27, 30), dst |-> SubSeq(f, 31, 34)]

\* decodeFrame and onReceive filter every frame as the reference does: it
\* is dropped at the layer and for the reason RFCOutcome gives, and a
\* dispatched packet's protocol and addresses are its header's fields.  Of
\* the buffer handed on, subtractTTL changes the TTL, by one, and nothing
\* else outside the header checksum.  The reference leaves out RFC 791's
\* header checksum test, and the property says nothing of the checksum
\* bytes: onReceive neither verifies the checksum nor updates it after
\* subtractTTL, which is not what RFC 791 asks and is a hazard of its own.
ReceiveFilter ==
  last.out # "none" =>
    /\ last.out = RFCOutcome(last.frame)
    /\ last.out = "dispatched" =>
         /\ last.hdr = RFCHeader(last.frame)
         /\ Len(last.buf) = Len(last.frame)
         /\ last.buf[23] = last.frame[23] - 1
         /\ \A i \in DOMAIN last.frame \ {23, 25, 26} : last.buf[i] = last.frame[i]
    /\ last.out # "dispatched" => last.buf = last.frame
=============================================================================
