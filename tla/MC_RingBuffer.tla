---------------------------- MODULE MC_RingBuffer ----------------------------
(* Model-checking instance of RingBuffer: a 3-byte ring, calls of length    *)
(* up to 4 (one more than the capacity, as ring_buffer_test.cpp reads 6     *)
(* from a 5-byte ring), two byte values.                                    *)
EXTENDS RingBuffer

MCSizeSpace == 16   \* stands for 2^64; larger than any count the ring forms
=============================================================================
