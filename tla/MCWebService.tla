---------------------------- MODULE MCWebService ----------------------------
(* Two ips in one country, in two regions. *)
EXTENDS WebService

CONSTANTS i1, i2

MCIps == {i1, i2}
MCCountry == [ip \in MCIps |-> "c"]
MCRegion == [ip \in MCIps |-> IF ip = i1 THEN "r" ELSE "s"]
===============================================================================
