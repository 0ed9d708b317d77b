---------------------------- MODULE MCConnection ----------------------------
(* Sizes of the commands for TLC: a version is longer than a pong, and both
   can be written in part.  An IPv4 and an IPv6 address are tried; what the
   sockaddr holds otherwise is the address tried before, or zeros. *)
EXTENDS Connection

MCSizes == [version |-> 3, verack |-> 1, pong |-> 2]

Port == <<141, 32>>
MCSeeds ==
  {[ip |-> FromIn(<<10, 0, 0, 1>>), port |-> Port],
   [ip |-> FromIn6(<<32, 1>> \o Zeros(13) \o <<1>>), port |-> Port]}
MCLeftovers ==
  {[family |-> "AF_INET", addr |-> <<10, 0, 0, 2>>, port |-> bswap(Port)], NoAddr}
MCGarbage == {<<0, 0>>}
===============================================================================
