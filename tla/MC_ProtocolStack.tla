--------------------------- MODULE MC_ProtocolStack ---------------------------
(* Model-checking instance of ProtocolStack: two application threads, two  *)
(* descriptors left in the process, two peers, and as the one port bind()  *)
(* is given and segments are sent to, the port the first socket() draws.   *)
EXTENDS ProtocolStack

MCFDs == {3, 4}
MCBacklogs == {0, 2}
MCKinds == {"SYN"}

\* The first draw of rand_generator_(19260817): 2025961903, port 56045.
MCPorts == {PortDraw(Rand(19260817))}

\* bind()'s sockaddr_in: INADDR_ANY and that port, as echo_server binds.
MCBindAddrs == {SockAddrIn(AnyBytes, PortDraw(Rand(19260817)))}

MCDefaultIP == <<10, 0, 0, 1>>
MCPeerPort == 10086

\* rand_ values at the edges of the split: the 15-bit low part full or
\* empty, the 16-bit high part full, and the largest state below 2^31 - 1.
MCRandInputs == {1, 32767, 32768, 65535, 1073741824, 2147450879, 2147483646}

\* Threads are interchangeable, and so are peers.
MCSymmetry == Permutations(Threads) \cup Permutations(Remotes)
=============================================================================
