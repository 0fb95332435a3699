---------------------------- MODULE SocketAddress ----------------------------
(***************************************************************************)
(* The address values of the stack: IPAddress (src/ip/ip_address.cpp) and *)
(* SocketAddress (src/tcp/socket_address.cpp), and the conversion of the   *)
(* sockaddr an application passes to bind() and connect().                 *)
(*                                                                         *)
(* An IPAddress is [family, bytes]: its family_ and the four bytes of      *)
(* address_.v4 in network order (a model value may stand for the four     *)
(* bytes of a peer).  No constructor of the code makes an IP_V6 address.   *)
(* A sockaddr is what the application wrote into it: [family, len, addr,   *)
(* port], with sin_port the two bytes htons() left in memory.              *)
(***************************************************************************)
EXTENDS Integers, Sequences

AnyBytes == <<0, 0, 0, 0>>          \* INADDR_ANY

\* IPAddress(): value-initialized address_, family IP_UNSPEC.
NoIP == [family |-> "UNSPEC", bytes |-> AnyBytes]

\* IPAddress(const in_addr &): family IP_V4 and the given s_addr.
IPv4(b) == [family |-> "V4", bytes |-> b]

\* operator==(IPAddress, IPAddress): different families differ; two V4
\* addresses compare their bytes; any two IP_UNSPEC addresses are equal.
IPEqual(lhs, rhs) ==
  /\ lhs.family = rhs.family
  /\ lhs.family = "V4" => lhs.bytes = rhs.bytes

\* IPAddress::isInaddrAny: a V4 address whose s_addr is INADDR_ANY.
IsInaddrAny(a) == a.family = "V4" /\ a.bytes = AnyBytes

\* SocketAddress() = default: host_ IPAddress(), port_ = 0.
NoSocketAddress == [host |-> NoIP, port |-> 0]

\* SocketAddress(IPAddress, SocketPort).
SockAddr(ip, port) == [host |-> ip, port |-> port]

\* operator==(SocketAddress, SocketAddress): the ports and the hosts.
SockAddrEqual(lhs, rhs) == lhs.port = rhs.port /\ IPEqual(lhs.host, rhs.host)

SizeofSockaddr    == 16
SizeofSockaddrIn  == 16
SizeofSockaddrIn6 == 28
SizeofStorage     == 128

\* ntohs of sin_port: the two bytes read as a big-endian number.
Ntohs(b) == b[1] * 256 + b[2]

\* SocketAddress(const sockaddr_storage &): AF_INET gives the address and
\* the port; any other family only logs, leaving the default members.
FromStorage(sa) ==
  IF sa.family = "AF_INET" THEN SockAddr(IPv4(sa.addr), Ntohs(sa.port))
  ELSE NoSocketAddress

\* SocketAddress(const sockaddr *, socklen_t): a length too short for the
\* family (or longer than sockaddr_storage) only logs and returns, leaving
\* the default members; otherwise the bytes are copied into a
\* sockaddr_storage and converted.
FromSockAddr(sa) ==
  IF \/ sa.len < SizeofSockaddr
     \/ sa.family = "AF_INET" /\ sa.len < SizeofSockaddrIn
     \/ sa.family = "AF_INET6" /\ sa.len < SizeofSockaddrIn6
     \/ sa.len > SizeofStorage
  THEN NoSocketAddress
  ELSE FromStorage(sa)

\* A sockaddr_in as an application fills it: sin_addr and htons(port).
SockAddrIn(addr, port) ==
  [family |-> "AF_INET", len |-> SizeofSockaddrIn, addr |-> addr,
   port |-> <<port \div 256, port % 256>>]
=============================================================================
