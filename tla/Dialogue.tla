------------------------------- MODULE Dialogue -------------------------------
(***************************************************************************)
(* What a peer may expect of us, whatever buffers lie in between: our      *)
(* version message first, then one reply for each of its requests, in the  *)
(* order of the requests, each whole and none twice.  This is what         *)
(* Connection implements.                                                  *)
(***************************************************************************)
EXTENDS Commands

VARIABLES asked,  \* the requests of the peer we have received
          said    \* the bytes we have sent

Init == asked = <<>> /\ said = <<>>

\* Everything there is to say by now.
Script == Stream(<<Version>> \o [i \in DOMAIN asked |-> Reply(asked[i])])

Ask(req) ==
  /\ asked' = Append(asked, req)
  /\ UNCHANGED said

\* Some more bytes of the script.
Say ==
  /\ \E n \in Len(said) + 1 .. Len(Script) : said' = SubSeq(Script, 1, n)
  /\ UNCHANGED asked

Next == Say \/ \E req \in Request : Ask(req)

Spec == Init /\ [][Next]_<<asked, said>>
===============================================================================
