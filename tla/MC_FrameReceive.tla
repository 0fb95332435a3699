--------------------------- MODULE MC_FrameReceive ---------------------------
(* One device and the stations of its link: the device's own MAC, a peer  *)
(* and a third station, and the broadcast address (also as a faulty       *)
(* source).  IPv4 and IPv6 version bytes, TTL 0, 1 and 64, and the TCP    *)
(* and TESTING0 protocols.  The identification and fragment words differ  *)
(* from the fields onReceive reads, so a read at the wrong offset shows.  *)
EXTENDS FrameReceive

MCOwnMac   == <<2, 0, 0, 0, 0, 1>>
MCPeerMac  == <<2, 0, 0, 0, 0, 2>>
MCOtherMac == <<2, 0, 0, 0, 0, 3>>
MCDsts == {MCOwnMac, Broadcast, MCOtherMac}
MCSrcs == {MCPeerMac, MCOtherMac, Broadcast}
MCEtherTypes == {TypeIPv4, TypeARP, 34525}   \* 0x86DD: IPv6
MCVersionBytes == {69, 101}                  \* 0x45, 0x65
MCTTLs == {0, 1, 64}
MCProtos == {ProtoTCP, 253}
MCIpSrc == <<10, 0, 0, 1>>
MCIpDst == <<10, 100, 1, 2>>
MCIpIdent == <<18, 52, 64, 0>>
MCSizeSpace == 65536

=============================================================================
