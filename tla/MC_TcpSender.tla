---------------------------- MODULE MC_TcpSender ----------------------------
(* TcpSender with sequence numbers modulo 16 and size_t modulo 64: small   *)
(* enough for TLC, large enough that a stream of a few bytes starting at   *)
(* ISN 14 wraps the sequence space.                                        *)
EXTENDS TcpSender

MCSeqSpace  == 16
MCSizeSpace == 64

=============================================================================
