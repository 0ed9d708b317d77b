------------------------------ MODULE PeerStream ------------------------------
(***************************************************************************)
(* The bytes a peer sends, as a sequence of frames: each a header of       *)
(* HeaderSize bytes, with the right magic or not (good), and as many bytes *)
(* of payload as the header declares (len).  Any sequence of bytes is one, *)
(* as the last frames need never arrive in full.  start[k] is the number of*)
(* bytes before frame k.                                                   *)
(***************************************************************************)
EXTENDS Naturals

CONSTANTS HeaderSize,  \* MESSAGE_HEADER_SIZE
          Streams      \* the streams a peer may send

ASSUME HeaderAssumption == HeaderSize \in Nat \ {0}

ASSUME StreamsAssumption ==
  \A s \in Streams :
    /\ s.n \in Nat
    /\ s.good \in [1 .. s.n -> BOOLEAN]
    /\ s.len \in [1 .. s.n -> Nat]
    /\ s.start \in [1 .. s.n + 1 -> Nat]
    /\ s.start[1] = 0
    /\ \A k \in 1 .. s.n : s.start[k + 1] = s.start[k] + HeaderSize + s.len[k]
===============================================================================
