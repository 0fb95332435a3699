--------------------------- MODULE MC_SocketSession ---------------------------
(* SocketSession with sequence numbers modulo 16 and size_t modulo 64.     *)
EXTENDS SocketSession

MCSeqSpace  == 16
MCSizeSpace == 64

=============================================================================
