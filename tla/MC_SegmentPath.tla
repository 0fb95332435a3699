---------------------------- MODULE MC_SegmentPath --------------------------
EXTENDS SegmentPath

\* size_t scaled to 16 bits: only the wrap of len - offset is of interest.
MCSizeSpace == 65536

\* A local address and port (RandGenerator picks ports above 32768) and a
\* remote server; their words carry out of bit 15 when summed.
MCLocal  == [ip |-> <<192, 168, 1, 1>>, port |-> 49152]
MCRemote == [ip |-> <<172, 16, 0, 2>>, port |-> 80]

\* uint32_t values TLC's 32-bit integers hold: zero and 2^31 - 1.
MCSeqs == {0, 2147483647}
MCAcks == {305419896}
\* kMaxSegmentSize scaled to 2: payloads of odd and even length.
MCPayloads == {<<>>, <<255>>, <<1, 255>>}
MCFrameLen == 22
\* A buffer that held zeros: one of the values uninitialized stack can hold.
MCGarbage == {<<0, 0, 0, 0>>}
=============================================================================
