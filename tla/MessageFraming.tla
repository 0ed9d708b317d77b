---------------------------- MODULE MessageFraming ----------------------------
(***************************************************************************)
(* Connection::readBuffer (network.cpp:95): the bytes that read() returns  *)
(* are appended to vReadBuffer, a loop takes the messages out of it, and   *)
(* what is left is moved to the front.  Two cursors run through the buffer,*)
(* offset and the reader's readPos, and a header that was decoded while its*)
(* payload was incomplete is kept in the connection (headerValid, header)  *)
(* over the calls.                                                         *)
(*                                                                         *)
(* A byte is the number of its place in the stream the peer sends (see     *)
(* MessageStream), from 1: the buffer shows which bytes it holds and in    *)
(* which order.  handled is a history variable, the bytes of each message  *)
(* that went to processMessage.  A header is decoded to what its frame     *)
(* declares if the bytes are those of a header, and to anything otherwise. *)
(***************************************************************************)
EXTENDS PeerStream, Integers, Sequences, FiniteSets

CONSTANTS ReadSize,        \* the size of tmpBuffer
          UIntMod,         \* 2^32: the sum of payloadLength and the header size wraps
          CopiesBackward   \* TRUE: memcpy may copy from the end to the front

VARIABLES stream,       \* what the peer is going to send
          arrived,      \* how many bytes of it read() has returned
          vReadBuffer,
          headerValid,
          header,       \* its magic is right, and payloadLength
          offset,       \* start of the message at hand in vReadBuffer
          readPos,      \* the CVectorReader's position
          handled,      \* the messages given to processMessage
          pc

vars == <<stream, arrived, vReadBuffer, headerValid, header, offset, readPos,
          handled, pc>>

MS == INSTANCE MessageStream
        WITH delivered <- Len(handled), closed <- pc = "closed"

ASSUME ReadAssumption ==
  /\ ReadSize \in Nat \ {0}
  /\ UIntMod \in Nat /\ HeaderSize < UIntMod
  /\ CopiesBackward \in BOOLEAN
  /\ \A s \in Streams : \A k \in 1 .. s.n : s.len[k] < UIntMod

Headers == [good : BOOLEAN, len : 0 .. UIntMod - 1]

TypeOK ==
  /\ stream \in Streams
  /\ arrived \in Nat
  /\ vReadBuffer \in Seq(Nat)
  /\ headerValid \in BOOLEAN
  /\ header \in Headers
  /\ offset \in Nat
  /\ readPos \in Nat
  /\ handled \in Seq(Seq(Nat))
  /\ pc \in {"idle", "parse", "check", "shift", "closed", "aborted"}

Init ==
  /\ stream \in Streams
  /\ arrived = 0
  /\ vReadBuffer = <<>>
  /\ headerValid = FALSE
  /\ header = [good |-> FALSE, len |-> 0]
  /\ offset = 0
  /\ readPos = 0
  /\ handled = <<>>
  /\ pc = "idle"

-------------------------------------------------------------------------------
(* The call of read(). *)

Read ==
  /\ pc = "idle"
  /\ \E n \in 1 .. ReadSize :
       /\ arrived + n <= stream.start[stream.n + 1]
       /\ arrived' = arrived + n
       /\ vReadBuffer' = vReadBuffer \o [i \in 1 .. n |-> arrived + i]
  /\ offset' = 0
  /\ readPos' = 0
  /\ pc' = "parse"
  /\ UNCHANGED <<stream, headerValid, header, handled>>

\* 0, or any error: the connection is closed with what the buffer holds.
ReadFails ==
  /\ pc = "idle"
  /\ pc' = "closed"
  /\ UNCHANGED <<stream, arrived, vReadBuffer, headerValid, header, offset,
                 readPos, handled>>

-------------------------------------------------------------------------------
(* The loop over the messages in the buffer. *)

\* Mutant of HeaderThere: a header at the very end of the buffer is overlooked.
HeaderThere_Strict == Len(vReadBuffer) > offset + HeaderSize

HeaderThere == Len(vReadBuffer) >= offset + HeaderSize

\* The frames whose header the reader finds at its position.
FramesAt(pos) ==
  {k \in 1 .. stream.n :
     /\ pos + HeaderSize <= Len(vReadBuffer)
     /\ \A j \in 1 .. HeaderSize : vReadBuffer[pos + j] = stream.start[k] + j}

HeadersAt(pos) ==
  IF FramesAt(pos) = {} THEN Headers
  ELSE {[good |-> stream.good[k], len |-> stream.len[k]] : k \in FramesAt(pos)}

ReadHeader ==
  /\ pc = "parse"
  /\ HeaderThere
  /\ ~headerValid
  /\ headerValid' = TRUE
  /\ header' \in HeadersAt(readPos)
  /\ readPos' = readPos + HeaderSize
  /\ pc' = IF header'.good THEN "check" ELSE "closed"
  /\ UNCHANGED <<stream, arrived, vReadBuffer, offset, handled>>

\* CVectorReader::skip asserts that it stays within the buffer.
Skipped(span) == readPos + span <= Len(vReadBuffer)

\* Mutant of SkipHeader: the reader stays in front of a header already decoded.
SkipHeader_Forgotten ==
  /\ pc = "parse"
  /\ HeaderThere
  /\ headerValid
  /\ pc' = "check"
  /\ UNCHANGED <<stream, arrived, vReadBuffer, headerValid, header, offset,
                 readPos, handled>>

\* The header was decoded by an earlier call.
SkipHeader ==
  /\ pc = "parse"
  /\ HeaderThere
  /\ headerValid
  /\ readPos' = readPos + HeaderSize
  /\ pc' = IF Skipped(HeaderSize) THEN "check" ELSE "aborted"
  /\ UNCHANGED <<stream, arrived, vReadBuffer, headerValid, header, offset,
                 handled>>

\* Mutant of MessageSize: the sum is taken for a signed number.
MessageSize_Signed ==
  LET size == header.len + HeaderSize
  IN IF 2 * size >= UIntMod THEN size - UIntMod ELSE size

\* header.payloadLength + MESSAGE_HEADER_SIZE, in 32 bits.
MessageSize ==
  LET size == header.len + HeaderSize
  IN IF size >= UIntMod THEN size - UIntMod ELSE size

\* Mutant of Incomplete: a message that ends the buffer waits for more.
Incomplete_OffByOne ==
  /\ pc = "check"
  /\ Len(vReadBuffer) <= MessageSize + offset
  /\ pc' = "shift"
  /\ UNCHANGED <<stream, arrived, vReadBuffer, headerValid, header, offset,
                 readPos, handled>>

Incomplete ==
  /\ pc = "check"
  /\ Len(vReadBuffer) < MessageSize + offset
  /\ pc' = "shift"
  /\ UNCHANGED <<stream, arrived, vReadBuffer, headerValid, header, offset,
                 readPos, handled>>

ProcessMessage ==
  /\ pc = "check"
  /\ Len(vReadBuffer) >= MessageSize + offset
  /\ handled' =
       Append(handled, SubSeq(vReadBuffer, offset + 1, offset + MessageSize))
  /\ headerValid' = FALSE
  /\ offset' = offset + MessageSize
  /\ readPos' = readPos + header.len
  /\ pc' = IF Skipped(header.len) THEN "parse" ELSE "aborted"
  /\ UNCHANGED <<stream, arrived, vReadBuffer, header>>

NoHeader ==
  /\ pc = "parse"
  /\ ~HeaderThere
  /\ pc' = "shift"
  /\ UNCHANGED <<stream, arrived, vReadBuffer, headerValid, header, offset,
                 readPos, handled>>

-------------------------------------------------------------------------------
(* What is left is moved to the front. *)

\* memcpy from the end to the front, when source and target overlap: a byte that
\* is copied late was overwritten by then.
LeftBackward ==
  LET left == Len(vReadBuffer) - offset
      copy[i \in 1 .. left] ==
        IF i + offset > left THEN vReadBuffer[i + offset] ELSE copy[i + offset]
  IN [i \in 1 .. left |-> copy[i]]

\* memcpy from the front, and memmove.  LeftBackward is its mutant as well.
Left == SubSeq(vReadBuffer, offset + 1, Len(vReadBuffer))

Shift ==
  /\ pc = "shift"
  /\ \/ offset = 0 /\ UNCHANGED vReadBuffer
     \/ offset > 0 /\ vReadBuffer' = Left
     \/ offset > 0 /\ CopiesBackward /\ vReadBuffer' = LeftBackward
  /\ pc' = "idle"
  /\ UNCHANGED <<stream, arrived, headerValid, header, offset, readPos, handled>>

-------------------------------------------------------------------------------
Parse == ReadHeader \/ SkipHeader \/ Incomplete \/ ProcessMessage \/ NoHeader \/ Shift

Next == Read \/ ReadFails \/ Parse

Spec == Init /\ [][Next]_vars

\* readBuffer runs to its end; nothing obliges the peer to send more.
LiveSpec == Spec /\ WF_vars(Parse)
-------------------------------------------------------------------------------
(* Properties *)

\* Every message that was handled is a frame of the stream, each byte of it in
\* its place, and they came in order with none missing: however the stream was
\* cut, and although a header may be decoded in one call of readBuffer and its
\* payload completed several calls later.
Frame(k) == [j \in 1 .. HeaderSize + stream.len[k] |-> stream.start[k] + j]
FramesIntact ==
  /\ Len(handled) <= stream.n
  /\ \A k \in 1 .. Len(handled) : stream.good[k] /\ handled[k] = Frame(k)

\* The cursors, which advance by different sums, agree at the head of the loop,
\* and the assertion of CVectorReader::skip holds.
CursorsAgree ==
  /\ pc = "parse" => readPos = offset
  /\ pc # "aborted"

\* No message waits for bytes that are already there: whatever arrived in full is
\* handled before the next read().
StreamRefined == MS!Spec

\* A message that arrived in full, behind no wrong header, is handled even if
\* nothing more is ever read.
AllHandled == MS!Deliverable ~> ~MS!Deliverable
===============================================================================
