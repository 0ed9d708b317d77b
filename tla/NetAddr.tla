-------------------------------- MODULE NetAddr --------------------------------
(***************************************************************************)
(* The forms of an address (protocol.h): CNetAddr, 16 bytes that hold an   *)
(* IPv6 address or, behind a prefix, an IPv4 one; CService, with the port; *)
(* and the sockaddr of the system's calls, with the port as it is on the   *)
(* wire.                                                                   *)
(***************************************************************************)
EXTENDS Primitives

CNetAddr == Word(16)
CService == [ip : CNetAddr, port : Word(2)]

\* Those there are room for in a struct sockaddr, and one of no family.
NoAddr == [family |-> "AF_UNSPEC"]
SockAddr ==
  [family : {"AF_INET"}, addr : Word(4), port : Word(2)]
    \cup [family : {"AF_INET6"}, addr : Word(16), port : Word(2)]
    \cup {NoAddr}

pchIPv4 == Zeros(10) \o <<255, 255>>

\* SetRaw.
FromIn(addr) == pchIPv4 \o addr
FromIn6(addr) == addr

IsIPv4(ip) == SubSeq(ip, 1, 12) = pchIPv4

\* GetInAddr, of an IPv4 address.
GetInAddr(ip) == SubSeq(ip, 13, 16)

\* CService::GetSockAddr, where it returns true.
GetSockAddr(service) ==
  [family |-> "AF_INET", addr |-> GetInAddr(service.ip), port |-> bswap(service.port)]

\* CService(const sockaddr *): of another family SetSockAddr does nothing, and the
\* port is left as it was found in memory.
FromSockAddr(sa, garbage) ==
  CASE sa.family = "AF_INET"  -> [ip |-> FromIn(sa.addr), port |-> bswap(sa.port)]
    [] sa.family = "AF_INET6" -> [ip |-> FromIn6(sa.addr), port |-> bswap(sa.port)]
    [] OTHER                  -> [ip |-> Zeros(16), port |-> garbage]
===============================================================================
