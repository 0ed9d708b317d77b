---------------------------- MODULE MCNetworkEngine ----------------------------
(* Constants of NetworkEngine for TLC. *)
EXTENDS NetworkEngine, TLC

IpSymmetry == Permutations(Ips)
===============================================================================
