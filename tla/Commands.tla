------------------------------- MODULE Commands -------------------------------
(***************************************************************************)
(* The commands two peers exchange, as far as Connection tells them apart: *)
(* the requests that make it answer, its answers, and the bytes of each.   *)
(***************************************************************************)
EXTENDS Naturals, Sequences, SequencesExt

CONSTANTS Versions,  \* the protocol versions a peer may claim
          Nonces,    \* the nonces of its pings
          Sizes      \* bytes of each command we send, header included

\* No command is empty: each has at least its header, and a verack no more.
ASSUME CommandsAssumption ==
  /\ Versions \subseteq Nat \ {0}
  /\ Sizes \in [{"version", "verack", "pong"} -> Nat \ {0}]
  /\ \A name \in DOMAIN Sizes : Sizes["verack"] <= Sizes[name]

\* What a peer sends that is answered.
Request == [cmd : {"version"}, version : Versions] \cup [cmd : {"ping"}, nonce : Nonces]

\* What we send.
Command == [cmd : {"version", "verack"}] \cup [cmd : {"pong"}, nonce : Nonces]

Version == [cmd |-> "version"]

Reply(req) ==
  IF req.cmd = "version" THEN [cmd |-> "verack"]
  ELSE [cmd |-> "pong", nonce |-> req.nonce]

\* A command on the wire: its bytes, each known by its place.
Bytes(c) == [i \in 1 .. Sizes[c.cmd] |-> <<c, i>>]

\* A sequence of commands on the wire.
Stream(cmds) == FlattenSeq([i \in DOMAIN cmds |-> Bytes(cmds[i])])
===============================================================================
