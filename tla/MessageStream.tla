----------------------------- MODULE MessageStream -----------------------------
(***************************************************************************)
(* What a connection promises of the bytes its peer sends, however read()  *)
(* cuts them into pieces: the messages are handled in order, each as soon  *)
(* as its last byte is there and before anything more is read, until the   *)
(* first header with a wrong magic, which closes the connection.           *)
(***************************************************************************)
EXTENDS PeerStream

VARIABLES stream,     \* what the peer is going to send
          arrived,    \* how many bytes of it read() has returned
          delivered,  \* how many messages were handled
          closed      \* the connection is to be closed

streamVars == <<stream, arrived, delivered, closed>>

\* The next message is there in full.
Deliverable ==
  /\ delivered < stream.n
  /\ stream.good[delivered + 1]
  /\ stream.start[delivered + 2] <= arrived

\* The next header is there and is not one of a message.
Rejectable ==
  /\ delivered < stream.n
  /\ ~stream.good[delivered + 1]
  /\ stream.start[delivered + 1] + HeaderSize <= arrived

Init ==
  /\ stream \in Streams
  /\ arrived = 0
  /\ delivered = 0
  /\ closed = FALSE

Arrive ==
  /\ ~closed /\ ~Deliverable /\ ~Rejectable
  /\ \E total \in arrived + 1 .. stream.start[stream.n + 1] : arrived' = total
  /\ UNCHANGED <<stream, delivered, closed>>

Deliver ==
  /\ ~closed /\ Deliverable
  /\ delivered' = delivered + 1
  /\ UNCHANGED <<stream, arrived, closed>>

Reject ==
  /\ ~closed /\ Rejectable
  /\ closed' = TRUE
  /\ UNCHANGED <<stream, arrived, delivered>>

\* The peer closes the connection, or it breaks.
Hangup ==
  /\ ~closed /\ ~Deliverable /\ ~Rejectable
  /\ closed' = TRUE
  /\ UNCHANGED <<stream, arrived, delivered>>

Next == Arrive \/ Deliver \/ Reject \/ Hangup

Spec == Init /\ [][Next]_streamVars
===============================================================================
