--------------------------- MODULE MCMessageFraming ---------------------------
(* Streams of a few frames for TLC. *)
EXTENDS MessageFraming

CONSTANTS MaxFrames,  \* bound: frames in a stream
          Lens        \* the payload lengths

StreamOf(n, good, len) ==
  LET start[k \in 1 .. n + 1] ==
        IF k = 1 THEN 0 ELSE start[k - 1] + HeaderSize + len[k - 1]
  IN [n |-> n, good |-> good, len |-> len, start |-> start]

MCStreams ==
  UNION {{StreamOf(n, good, len) :
            good \in [1 .. n -> BOOLEAN], len \in [1 .. n -> Lens]} :
         n \in 0 .. MaxFrames}
===============================================================================
