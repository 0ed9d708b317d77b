------------------------- MODULE MessageFramingProofs -------------------------
(***************************************************************************)
(* Proofs about MessageFraming for every stream of frames, every way of    *)
(* cutting it into reads and every size of header and of read.  Two        *)
(* assumptions stand for what the code relies on: no sum of a payload      *)
(* length and the header's size wraps, and memcpy copies to the front.     *)
(*                                                                         *)
(* The invariant behind all of them locates the message at hand: Here in   *)
(* the stream, At in the buffer, and ties the bytes of the buffer, the two *)
(* cursors and the header kept over the calls to that place.               *)
(***************************************************************************)
EXTENDS MessageFraming, SequenceLemmas

NoWrap ==
  \A s \in Streams : \A k \in 1 .. s.n : s.len[k] + HeaderSize < UIntMod

Here == stream.start[Len(handled) + 1]
At == IF pc = "idle" THEN 0 ELSE offset

\* The buffer holds the bytes of the stream up to the last one that arrived, and
\* the message at hand begins in it at At.
BufferAligned ==
  /\ At <= Len(vReadBuffer)
  /\ At <= Here
  /\ arrived = Here - At + Len(vReadBuffer)
  /\ \A i \in 1 .. Len(vReadBuffer) : vReadBuffer[i] = Here - At + i

\* The reader's cursor and the header that was decoded belong to that message.
CursorAligned ==
  /\ pc = "parse" => readPos = offset
  /\ pc = "check" => readPos = offset + HeaderSize /\ headerValid /\ HeaderThere
  /\ pc # "aborted"

HeaderAligned ==
  headerValid =>
    /\ Len(handled) < stream.n
    /\ stream.good[Len(handled) + 1]
    /\ header.len = stream.len[Len(handled) + 1]

\* When the loop is left, the message at hand is not complete.
NothingThere ==
  pc \in {"shift", "idle"} =>
    \/ arrived - Here < HeaderSize
    \/ headerValid /\ arrived - Here < HeaderSize + header.len

Sound ==
  /\ TypeOK
  /\ FramesIntact
  /\ arrived <= stream.start[stream.n + 1]
  /\ pc # "closed" =>
       BufferAligned /\ CursorAligned /\ HeaderAligned /\ NothingThere

Rely == ~CopiesBackward /\ NoWrap

-------------------------------------------------------------------------------
LEMMA Slice ==
  ASSUME NEW s \in Seq(Nat), NEW m \in Nat, NEW n \in Nat, m + n <= Len(s)
  PROVE  /\ SubSeq(s, m + 1, m + n) \in Seq(Nat)
         /\ Len(SubSeq(s, m + 1, m + n)) = n
         /\ \A j \in 1 .. n : SubSeq(s, m + 1, m + n)[j] = s[m + j]
<1>1. Len(s) \in Nat
  BY LenProperties
<1>2. \A i \in m + 1 .. m + n : s[i] \in Nat
  BY <1>1, ElementOfSeq
<1>3. /\ SubSeq(s, m + 1, m + n) \in Seq(Nat)
      /\ Len(SubSeq(s, m + 1, m + n))
           = IF m + 1 <= m + n THEN (m + n) - (m + 1) + 1 ELSE 0
      /\ \A j \in 1 .. (m + n) - (m + 1) + 1 :
           SubSeq(s, m + 1, m + n)[j] = s[m + 1 + j - 1]
  BY <1>2, SubSeqProperties
<1>4. ASSUME NEW j \in 1 .. n
      PROVE  SubSeq(s, m + 1, m + n)[j] = s[m + j]
  <2>1. j \in 1 .. (m + n) - (m + 1) + 1 /\ m + 1 + j - 1 = m + j
    OBVIOUS
  <2>2. QED BY <1>3, <2>1
<1>5. QED BY <1>3, <1>4

-------------------------------------------------------------------------------
(* Facts about the stream and the place of the message at hand. *)

LEMMA Place ==
  ASSUME Sound
  PROVE  /\ stream \in Streams /\ stream.n \in Nat
         /\ HeaderSize \in Nat \ {0}
         /\ Len(handled) \in Nat /\ Len(handled) <= stream.n
         /\ Here \in Nat /\ arrived \in Nat
         /\ arrived <= stream.start[stream.n + 1]
         /\ stream.start[stream.n + 1] \in Nat
<1>1. stream \in Streams /\ handled \in Seq(Seq(Nat)) /\ arrived \in Nat
  BY DEF Sound, TypeOK
<1>2. Len(handled) \in Nat /\ Len(handled) <= stream.n
  BY <1>1, LenProperties DEF Sound, FramesIntact
<1>3. stream.n \in Nat /\ stream.start \in [1 .. stream.n + 1 -> Nat]
  BY <1>1, StreamsAssumption
<1>4. Len(handled) + 1 \in 1 .. stream.n + 1 /\ stream.n + 1 \in 1 .. stream.n + 1
  BY <1>2, <1>3
<1>5. QED
  BY <1>1, <1>2, <1>3, <1>4, HeaderAssumption DEF Here, Sound

\* A frame begins behind all the frames before it.
LEMMA StartsGrow ==
  ASSUME NEW s \in Streams, NEW k \in 1 .. s.n + 1
  PROVE  \A m \in 1 .. s.n + 1 : k < m => s.start[k] < s.start[m]
<1> DEFINE S == {d \in Nat : k + d + 1 <= s.n + 1 => s.start[k] < s.start[k + d + 1]}
<1>1. /\ s.n \in Nat /\ s.start \in [1 .. s.n + 1 -> Nat]
      /\ k \in Nat /\ k >= 1
      /\ HeaderSize \in Nat /\ HeaderSize >= 1
  BY StreamsAssumption, HeaderAssumption
<1>2. ASSUME NEW i \in 1 .. s.n PROVE s.start[i] \in Nat /\ s.start[i] < s.start[i + 1]
  <2>1. s.start[i + 1] = s.start[i] + HeaderSize + s.len[i] /\ s.len[i] \in Nat
    BY StreamsAssumption
  <2>2. s.start[i] \in Nat
    BY <1>1
  <2>3. QED BY <1>1, <2>1, <2>2
<1>3. 0 \in S
  <2>1. SUFFICES ASSUME k + 1 <= s.n + 1 PROVE s.start[k] < s.start[k + 1]
    BY <1>1
  <2>2. k \in 1 .. s.n
    BY <1>1, <2>1
  <2>3. QED BY <1>2, <2>2
<1>4. ASSUME NEW d \in Nat, d \in S PROVE d + 1 \in S
  <2> DEFINE i == k + d + 1
  <2>1. SUFFICES ASSUME i + 1 <= s.n + 1 PROVE s.start[k] < s.start[i + 1]
    <3>1. k + (d + 1) + 1 = i + 1
      BY <1>1
    <3>2. QED BY <2>1, <3>1
  <2>2. i \in 1 .. s.n /\ i <= s.n + 1
    BY <1>1, <2>1
  <2>3. s.start[k] < s.start[i]
    BY <1>4, <2>2
  <2> HIDE DEF i
  <2>4. /\ s.start[k] \in Nat /\ s.start[i] \in Nat /\ s.start[i + 1] \in Nat
        /\ s.start[i] < s.start[i + 1]
    <3>1. i + 1 \in 1 .. s.n + 1
      BY <1>1, <2>2
    <3>2. s.start[k] \in Nat /\ s.start[i + 1] \in Nat
      BY <1>1, <3>1
    <3>3. QED BY <1>2, <2>2, <3>2
  <2>5. QED BY <2>3, <2>4
<1> HIDE DEF S
<1>5. \A d \in Nat : d \in S
  BY <1>3, <1>4, Induction
<1>6. ASSUME NEW m \in 1 .. s.n + 1, k < m PROVE s.start[k] < s.start[m]
  <2> DEFINE d == m - k - 1
  <2>1. d \in Nat /\ k + d + 1 = m /\ m <= s.n + 1
    BY <1>1, <1>6
  <2> HIDE DEF d
  <2>2. d \in S
    BY <1>5, <2>1
  <2>3. QED BY <2>1, <2>2 DEF S
<1>7. QED BY <1>6

LEMMA StartsDiffer ==
  \A s \in Streams : \A k \in 1 .. s.n + 1 : \A m \in 1 .. s.n + 1 :
    s.start[k] = s.start[m] => k = m
<1> SUFFICES ASSUME NEW s \in Streams,
                    NEW k \in 1 .. s.n + 1, NEW m \in 1 .. s.n + 1,
                    s.start[k] = s.start[m]
             PROVE  k = m
  OBVIOUS
<1>1. s.n \in Nat /\ s.start \in [1 .. s.n + 1 -> Nat]
  BY StreamsAssumption
<1>2. k < m => s.start[k] < s.start[m]
  BY StartsGrow
<1>3. m < k => s.start[m] < s.start[k]
  BY StartsGrow
<1>4. k \in Int /\ m \in Int /\ s.start[k] \in Int
  BY <1>1
<1>5. QED BY <1>2, <1>3, <1>4

\* As long as bytes of the message at hand may come, it is one of the stream.
LEMMA MessageAtHand ==
  ASSUME Sound, Len(handled) < stream.n \/ arrived > Here
  PROVE  /\ Len(handled) < stream.n
         /\ Len(handled) + 1 \in 1 .. stream.n
         /\ stream.good[Len(handled) + 1] \in BOOLEAN
         /\ stream.len[Len(handled) + 1] \in Nat
         /\ stream.len[Len(handled) + 1] < UIntMod
         /\ stream.start[Len(handled) + 2]
              = Here + HeaderSize + stream.len[Len(handled) + 1]
<1>1. Len(handled) < stream.n
  <2>1. CASE Len(handled) = stream.n
    BY <2>1, Place DEF Here
  <2>2. QED BY <2>1, Place
<1>2. Len(handled) + 1 \in 1 .. stream.n /\ Len(handled) + 1 + 1 = Len(handled) + 2
  BY <1>1, Place
<1>3. /\ stream.good \in [1 .. stream.n -> BOOLEAN]
      /\ stream.len \in [1 .. stream.n -> Nat]
      /\ stream.start[Len(handled) + 1 + 1]
           = stream.start[Len(handled) + 1] + HeaderSize
               + stream.len[Len(handled) + 1]
      /\ stream.len[Len(handled) + 1] < UIntMod
  BY <1>2, Place, StreamsAssumption, ReadAssumption
<1>4. QED BY <1>1, <1>2, <1>3 DEF Here

\* With the whole header in the buffer, the reader finds the frame at hand there
\* and no other.
LEMMA FrameFound ==
  ASSUME Sound, pc = "parse", HeaderThere
  PROVE  /\ Len(handled) < stream.n
         /\ HeadersAt(readPos) = {[good |-> stream.good[Len(handled) + 1],
                                   len |-> stream.len[Len(handled) + 1]]}
<1> DEFINE k == Len(handled) + 1
<1>1. /\ offset \in Nat /\ readPos = offset /\ Len(vReadBuffer) \in Nat
      /\ offset + HeaderSize <= Len(vReadBuffer)
      /\ offset <= Here
      /\ arrived = Here - offset + Len(vReadBuffer)
      /\ \A i \in 1 .. Len(vReadBuffer) : vReadBuffer[i] = Here - offset + i
  BY LenProperties
     DEF Sound, TypeOK, BufferAligned, CursorAligned, At, HeaderThere
<1>2. Len(handled) < stream.n /\ k \in 1 .. stream.n
  BY <1>1, Place, MessageAtHand
<1>3. \A j \in 1 .. HeaderSize : vReadBuffer[offset + j] = Here + j
  <2>1. SUFFICES ASSUME NEW j \in 1 .. HeaderSize
                 PROVE  vReadBuffer[offset + j] = Here + j
    OBVIOUS
  <2>2. offset + j \in 1 .. Len(vReadBuffer)
    BY <1>1, Place
  <2>3. vReadBuffer[offset + j] = Here - offset + (offset + j)
    BY <1>1, <2>2
  <2>4. QED BY <1>1, <2>3, Place
<1>4. k \in FramesAt(readPos)
  BY <1>1, <1>2, <1>3 DEF FramesAt, Here
<1>5. ASSUME NEW m \in FramesAt(readPos) PROVE m = k
  <2>1. m \in 1 .. stream.n /\ vReadBuffer[offset + 1] = stream.start[m] + 1
    BY <1>1, Place DEF FramesAt
  <2>2. vReadBuffer[offset + 1] = Here + 1
    BY <1>3, Place
  <2>3. /\ m \in 1 .. stream.n + 1 /\ k \in 1 .. stream.n + 1
        /\ stream.start[m] \in Nat
    <3>1. m \in 1 .. stream.n + 1 /\ k \in 1 .. stream.n + 1
      BY <1>2, <2>1, Place
    <3>2. stream.start \in [1 .. stream.n + 1 -> Nat]
      BY Place, StreamsAssumption
    <3>3. QED BY <3>1, <3>2
  <2>4. stream.start[m] = stream.start[k]
    <3>1. stream.start[m] + 1 = Here + 1 /\ Here \in Nat
      BY <2>1, <2>2, Place
    <3>2. stream.start[m] = Here
      BY <3>1, <2>3
    <3>3. QED BY <3>2 DEF Here
  <2>5. stream \in Streams
    BY Place
  <2>6. \A i \in 1 .. stream.n + 1 : \A j \in 1 .. stream.n + 1 :
          stream.start[i] = stream.start[j] => i = j
    BY <2>5, StartsDiffer
  <2>7. QED BY <2>3, <2>4, <2>6
<1>6. FramesAt(readPos) = {k}
  BY <1>4, <1>5
<1>7. QED BY <1>2, <1>6 DEF HeadersAt

-------------------------------------------------------------------------------
(* The invariant. *)

\* The bytes that read() returned are put behind those in the buffer.
LEMMA ReadSound ==
  ASSUME Rely, Sound, Read
  PROVE  Sound'
<1>1. PICK n \in 1 .. ReadSize :
        /\ arrived + n <= stream.start[stream.n + 1]
        /\ arrived' = arrived + n
        /\ vReadBuffer' = vReadBuffer \o [i \in 1 .. n |-> arrived + i]
  BY DEF Read
<1>2. n \in Nat \ {0}
  BY ReadAssumption
<1> DEFINE new == [i \in 1 .. n |-> arrived + i]
<1>3. /\ new \in Seq(Nat) /\ Len(new) = n
      /\ \A j \in 1 .. n : new[j] = arrived + j
      /\ vReadBuffer' = vReadBuffer \o new
  <2>1. arrived \in Nat
    BY Place
  <2>2. new \in [1 .. n -> Nat] /\ \A j \in 1 .. n : new[j] = arrived + j
    BY <1>2, <2>1
  <2> HIDE DEF new
  <2>3. new \in Seq(Nat)
    BY <1>2, <2>2, SeqDef
  <2>4. Len(new) = n
    BY <1>2, <2>2, <2>3, LenProperties
  <2>5. vReadBuffer' = vReadBuffer \o new
    BY <1>1 DEF new
  <2>6. QED BY <2>2, <2>3, <2>4, <2>5
<1> HIDE DEF new
<1>4. /\ vReadBuffer \in Seq(Nat) /\ Len(vReadBuffer) \in Nat
      /\ arrived = Here + Len(vReadBuffer)
      /\ \A i \in 1 .. Len(vReadBuffer) : vReadBuffer[i] = Here + i
  BY LenProperties, Place DEF Sound, TypeOK, BufferAligned, At, Read
<1>5. /\ vReadBuffer' \in Seq(Nat)
      /\ Len(vReadBuffer') = Len(vReadBuffer) + n
      /\ \A i \in 1 .. Len(vReadBuffer) + n : vReadBuffer'[i] =
           IF i <= Len(vReadBuffer) THEN vReadBuffer[i]
           ELSE new[i - Len(vReadBuffer)]
  BY <1>3, <1>4, ConcatProperties
<1> DEFINE old == Len(vReadBuffer)
<1>6. ASSUME NEW i \in 1 .. old + n
      PROVE  vReadBuffer'[i] = Here + i
  <2>1. CASE i <= Len(vReadBuffer)
    BY <2>1, <1>2, <1>4, <1>5
  <2>2. CASE i > Len(vReadBuffer)
    <3>1. i - old \in 1 .. n
      BY <2>2, <1>2, <1>4
    <3>2. vReadBuffer'[i] = new[i - old]
      BY <2>2, <1>2, <1>4, <1>5
    <3>3. new[i - old] = arrived + (i - old)
      BY <3>1, <1>3
    <3>4. QED BY <3>2, <3>3, <1>2, <1>4, Place
  <2>3. QED BY <2>1, <2>2, <1>2, <1>4, <1>5
<1>7. Here' = Here /\ At' = 0 /\ offset' = 0 /\ readPos' = 0 /\ pc' = "parse"
  BY DEF Read, Here, At
<1>8. TypeOK' /\ FramesIntact'
  BY <1>1, <1>2, <1>5, <1>7 DEF Sound, TypeOK, FramesIntact, Frame, Read
<1>9. BufferAligned'
  <2>1. \A i \in 1 .. Len(vReadBuffer') : vReadBuffer'[i] = Here - 0 + i
    BY <1>5, <1>6, Place
  <2>2. 0 <= Len(vReadBuffer') /\ 0 <= Here
    BY <1>2, <1>4, <1>5, Place
  <2>3. arrived' = Here - 0 + Len(vReadBuffer')
    BY <1>1, <1>2, <1>4, <1>5, Place
  <2>4. QED BY <2>1, <2>2, <2>3, <1>7 DEF BufferAligned
<1>10. CursorAligned' /\ HeaderAligned' /\ NothingThere'
  BY <1>7 DEF Sound, CursorAligned, HeaderAligned, NothingThere, Read
<1>11. QED BY <1>1, <1>8, <1>9, <1>10 DEF Sound, Read

\* The frame at hand is decoded; a wrong magic ends the connection.
LEMMA ReadHeaderSound ==
  ASSUME Rely, Sound, ReadHeader
  PROVE  Sound'
<1>1. /\ Len(handled) < stream.n
      /\ header' = [good |-> stream.good[Len(handled) + 1],
                    len |-> stream.len[Len(handled) + 1]]
  BY FrameFound DEF ReadHeader
<1>2. /\ stream.good[Len(handled) + 1] \in BOOLEAN
      /\ stream.len[Len(handled) + 1] \in 0 .. UIntMod - 1
  BY <1>1, MessageAtHand, ReadAssumption
<1>3. readPos = offset /\ readPos' = offset + HeaderSize
  BY DEF Sound, CursorAligned, ReadHeader
<1>4. TypeOK'
  <2>1. header' \in Headers
    BY <1>1, <1>2 DEF Headers
  <2>2. readPos' \in Nat
    BY Place DEF ReadHeader, Sound, TypeOK
  <2>3. QED BY <2>1, <2>2 DEF Sound, TypeOK, ReadHeader
<1>5. FramesIntact' /\ arrived' <= stream'.start[stream'.n + 1]
  BY DEF Sound, FramesIntact, Frame, ReadHeader
<1>6. CASE header'.good
  <2>1. BufferAligned'
    BY <1>6 DEF Sound, BufferAligned, At, Here, ReadHeader
  <2>2. CursorAligned'
    BY <1>3, <1>6 DEF CursorAligned, HeaderThere, ReadHeader
  <2>3. HeaderAligned'
    BY <1>1, <1>2, <1>6 DEF HeaderAligned, ReadHeader
  <2>4. NothingThere'
    BY <1>6 DEF NothingThere, ReadHeader
  <2>5. QED BY <1>4, <1>5, <2>1, <2>2, <2>3, <2>4 DEF Sound
<1>7. CASE ~header'.good
  BY <1>4, <1>5, <1>7 DEF Sound, ReadHeader
<1>8. QED BY <1>6, <1>7

\* A header decoded by an earlier call is skipped, and the skip stays within the
\* buffer.
LEMMA SkipHeaderSound ==
  ASSUME Rely, Sound, SkipHeader
  PROVE  Sound'
<1>1. readPos = offset /\ HeaderThere /\ headerValid
  BY DEF Sound, CursorAligned, SkipHeader
<1>2. Skipped(HeaderSize)
  BY <1>1 DEF Skipped, HeaderThere
<1>3. pc' = "check" /\ readPos' = offset + HeaderSize /\ headerValid'
  BY <1>1, <1>2 DEF SkipHeader
<1>4. TypeOK' /\ FramesIntact' /\ arrived' <= stream'.start[stream'.n + 1]
  <2>1. readPos' \in Nat
    BY <1>3, Place DEF Sound, TypeOK
  <2>2. TypeOK'
    BY <1>3, <2>1 DEF Sound, TypeOK, SkipHeader
  <2>3. QED BY <2>2 DEF Sound, FramesIntact, Frame, SkipHeader
<1>5. BufferAligned' /\ HeaderAligned'
  BY <1>3 DEF Sound, BufferAligned, HeaderAligned, At, Here, SkipHeader
<1>6. CursorAligned' /\ NothingThere'
  BY <1>1, <1>3 DEF CursorAligned, HeaderThere, NothingThere, SkipHeader
<1>7. QED BY <1>4, <1>5, <1>6 DEF Sound

\* At the test of network.cpp:127 the size is that of the frame at hand.
LEMMA SizeOfFrame ==
  ASSUME Rely, Sound, pc = "check"
  PROVE  /\ Len(handled) < stream.n
         /\ stream.good[Len(handled) + 1]
         /\ header.len = stream.len[Len(handled) + 1]
         /\ header.len \in Nat
         /\ MessageSize = HeaderSize + header.len
         /\ stream.start[Len(handled) + 2] = Here + MessageSize
<1>1. /\ Len(handled) < stream.n
      /\ stream.good[Len(handled) + 1]
      /\ header.len = stream.len[Len(handled) + 1]
  BY DEF Sound, CursorAligned, HeaderAligned
<1>2. /\ header.len \in Nat
      /\ Len(handled) + 1 \in 1 .. stream.n
      /\ stream.start[Len(handled) + 2] = Here + HeaderSize + header.len
  BY <1>1, MessageAtHand
<1>3. header.len + HeaderSize < UIntMod
  BY <1>1, <1>2, Place DEF Rely, NoWrap
<1>4. MessageSize = HeaderSize + header.len
  BY <1>2, <1>3, Place, ReadAssumption DEF MessageSize
<1>5. QED BY <1>1, <1>2, <1>4, Place

LEMMA IncompleteSound ==
  ASSUME Rely, Sound, Incomplete
  PROVE  Sound'
<1>1. pc = "check" /\ headerValid /\ Len(vReadBuffer) < MessageSize + offset
  BY DEF Sound, CursorAligned, Incomplete
<1>2. arrived - Here < HeaderSize + header.len
  <2>1. arrived = Here - offset + Len(vReadBuffer) /\ Len(vReadBuffer) \in Nat
    BY <1>1, LenProperties DEF Sound, TypeOK, BufferAligned, At
  <2>2. MessageSize = HeaderSize + header.len /\ header.len \in Nat
    BY <1>1, SizeOfFrame
  <2>3. QED BY <1>1, <2>1, <2>2, Place DEF Sound, TypeOK
<1>3. TypeOK' /\ FramesIntact' /\ arrived' <= stream'.start[stream'.n + 1]
  BY DEF Sound, TypeOK, FramesIntact, Frame, Incomplete
<1>4. BufferAligned' /\ HeaderAligned' /\ CursorAligned'
  BY DEF Sound, BufferAligned, HeaderAligned, CursorAligned, At, Here, Incomplete
<1>5. NothingThere'
  BY <1>1, <1>2 DEF NothingThere, Here, Incomplete
<1>6. QED BY <1>3, <1>4, <1>5 DEF Sound

LEMMA NoHeaderSound ==
  ASSUME Rely, Sound, NoHeader
  PROVE  Sound'
<1>1. arrived - Here < HeaderSize
  <2>1. arrived = Here - offset + Len(vReadBuffer) /\ Len(vReadBuffer) \in Nat
    BY LenProperties DEF Sound, TypeOK, BufferAligned, At, NoHeader
  <2>2. Len(vReadBuffer) < offset + HeaderSize
    BY <2>1, Place DEF NoHeader, HeaderThere, Sound, TypeOK
  <2>3. QED BY <2>1, <2>2, Place DEF Sound, TypeOK
<1>2. TypeOK' /\ FramesIntact' /\ arrived' <= stream'.start[stream'.n + 1]
  BY DEF Sound, TypeOK, FramesIntact, Frame, NoHeader
<1>3. BufferAligned' /\ HeaderAligned' /\ CursorAligned'
  BY DEF Sound, BufferAligned, HeaderAligned, CursorAligned, At, Here, NoHeader
<1>4. NothingThere'
  BY <1>1 DEF NothingThere, Here, NoHeader
<1>5. QED BY <1>2, <1>3, <1>4 DEF Sound

\* The frame at hand is handled whole, and the next one is then at hand.
LEMMA ProcessSound ==
  ASSUME Rely, Sound, ProcessMessage
  PROVE  Sound' /\ Len(handled') = Len(handled) + 1
<1> DEFINE k == Len(handled) + 1
           bytes == SubSeq(vReadBuffer, offset + 1, offset + MessageSize)
<1>1. /\ Len(handled) < stream.n /\ k \in 1 .. stream.n /\ k \in Nat
      /\ stream.good[k] /\ header.len = stream.len[k]
      /\ header.len \in Nat /\ MessageSize = HeaderSize + header.len
      /\ MessageSize \in Nat
      /\ stream.start[k + 1] = Here + MessageSize
  <2>1. /\ Len(handled) < stream.n
        /\ stream.good[k] /\ header.len = stream.len[k]
        /\ header.len \in Nat /\ MessageSize = HeaderSize + header.len
        /\ stream.start[Len(handled) + 2] = Here + MessageSize
    BY SizeOfFrame DEF ProcessMessage
  <2>2. k \in 1 .. stream.n /\ k \in Nat /\ k + 1 = Len(handled) + 2
    BY <2>1, Place
  <2>3. HeaderSize + header.len \in Nat
    BY <2>1, Place
  <2>4. QED BY <2>1, <2>2, <2>3
<1>2. /\ vReadBuffer \in Seq(Nat) /\ Len(vReadBuffer) \in Nat
      /\ offset \in Nat /\ offset <= Here
      /\ offset + MessageSize <= Len(vReadBuffer)
      /\ arrived = Here - offset + Len(vReadBuffer)
      /\ \A i \in 1 .. Len(vReadBuffer) : vReadBuffer[i] = Here - offset + i
  BY <1>1, LenProperties DEF Sound, TypeOK, BufferAligned, At, ProcessMessage
<1>3. /\ bytes \in Seq(Nat) /\ Len(bytes) = MessageSize
      /\ \A j \in 1 .. MessageSize : bytes[j] = Here + j
  <2>1. /\ bytes \in Seq(Nat) /\ Len(bytes) = MessageSize
        /\ \A j \in 1 .. MessageSize : bytes[j] = vReadBuffer[offset + j]
    <3>1. MessageSize \in Nat
      BY <1>1
    <3>2. /\ vReadBuffer \in Seq(Nat) /\ offset \in Nat
          /\ offset + MessageSize <= Len(vReadBuffer)
      BY <1>2
    <3>3. QED BY <3>1, <3>2, Slice
  <2>2. ASSUME NEW j \in 1 .. MessageSize PROVE bytes[j] = Here + j
    <3>1. bytes[j] = vReadBuffer[offset + j]
      BY <2>1
    <3>2. MessageSize \in Nat
      BY <1>1
    <3>3. offset + j \in 1 .. Len(vReadBuffer)
      BY <1>2, <3>2
    <3>4. vReadBuffer[offset + j] = Here - offset + (offset + j)
      BY <1>2, <3>3
    <3>5. Here \in Nat /\ offset \in Nat
      BY Place, <1>2
    <3>6. Here - offset + (offset + j) = Here + j
      BY <3>2, <3>5
    <3>7. QED BY <3>1, <3>4, <3>6
  <2>3. QED BY <2>1, <2>2
<1>4. bytes = Frame(k)
  <2>1. DOMAIN bytes = 1 .. MessageSize /\ bytes \in [1 .. MessageSize -> Nat]
    BY <1>3, LenProperties
  <2>2. Frame(k) = [j \in 1 .. MessageSize |-> Here + j]
    BY <1>1 DEF Frame, Here
  <2>3. QED BY <1>3, <2>1, <2>2
<1>5. /\ handled' = Append(handled, bytes)
      /\ handled' \in Seq(Seq(Nat)) /\ Len(handled') = k
      /\ \A m \in 1 .. Len(handled) : handled'[m] = handled[m]
      /\ handled'[k] = bytes
  <2>1. handled \in Seq(Seq(Nat)) /\ handled' = Append(handled, bytes)
    BY DEF Sound, TypeOK, ProcessMessage
  <2>2. bytes \in Seq(Nat)
    BY <1>3
  <2> HIDE DEF bytes
  <2>3. QED BY <2>1, <2>2, AppendProperties
<1> HIDE DEF bytes
<1>6. FramesIntact'
  <2>1. stream' = stream
    BY DEF ProcessMessage
  <2>2. ASSUME NEW m \in 1 .. k
        PROVE  stream.good[m] /\ handled'[m] = Frame(m)
    <3>1. CASE m = k
      BY <3>1, <1>1, <1>4, <1>5
    <3>2. CASE m \in 1 .. Len(handled)
      BY <3>2, <1>5 DEF Sound, FramesIntact
    <3>3. QED BY <3>1, <3>2, Place
  <2>3. QED BY <1>1, <1>5, <2>1, <2>2 DEF FramesIntact, Frame
<1>7. /\ Here' = Here + MessageSize
      /\ offset' = offset + MessageSize
      /\ readPos = offset + HeaderSize
      /\ readPos' = offset'
      /\ pc' = "parse"
  <2>1. Here' = stream.start[k + 1]
    BY <1>5 DEF Here, ProcessMessage
  <2>2. readPos = offset + HeaderSize
    BY DEF Sound, CursorAligned, ProcessMessage
  <2>3. readPos' = offset + MessageSize /\ Skipped(header.len)
    <3>1. readPos' = readPos + header.len /\ offset + MessageSize <= Len(vReadBuffer)
      BY <1>2 DEF ProcessMessage
    <3>2. readPos + header.len = offset + MessageSize
      <4>1. MessageSize = HeaderSize + header.len /\ header.len \in Int
        BY <1>1
      <4>2. HeaderSize \in Int /\ offset \in Int
        BY Place, <1>2
      <4>3. QED BY <2>2, <4>1, <4>2
    <3>3. QED BY <3>1, <3>2 DEF Skipped
  <2>4. QED BY <1>1, <2>1, <2>2, <2>3 DEF ProcessMessage
<1>8. TypeOK'
  <2>1. offset' \in Nat /\ readPos' \in Nat
    <3>1. MessageSize \in Nat
      BY <1>1
    <3>2. offset \in Nat
      BY <1>2
    <3>3. offset' = offset + MessageSize /\ readPos' = offset'
      BY <1>7
    <3>4. QED BY <3>1, <3>2, <3>3
  <2>2. QED BY <1>5, <1>7, <2>1 DEF Sound, TypeOK, ProcessMessage
<1>9. BufferAligned'
  <2>1. At' = offset + MessageSize
    BY <1>7 DEF At
  <2>2. /\ Here' - At' = Here - offset
        /\ At' <= Len(vReadBuffer) /\ At' <= Here'
    <3>1. MessageSize \in Nat /\ offset \in Nat /\ Here \in Nat
      BY <1>1, <1>2, Place
    <3>2. Here' = Here + MessageSize
      BY <1>7
    <3>3. offset <= Here /\ offset + MessageSize <= Len(vReadBuffer)
      BY <1>2
    <3>4. QED BY <2>1, <3>1, <3>2, <3>3
  <2>3. vReadBuffer' = vReadBuffer /\ arrived' = arrived
    BY DEF ProcessMessage
  <2>4. QED BY <1>2, <2>2, <2>3 DEF BufferAligned
<1>10. CursorAligned' /\ NothingThere' /\ HeaderAligned'
  BY <1>7 DEF CursorAligned, NothingThere, HeaderAligned, ProcessMessage
<1>11. QED BY <1>5, <1>6, <1>8, <1>9, <1>10 DEF Sound, ProcessMessage

\* What is left of the buffer begins with the message at hand.
LEMMA ShiftSound ==
  ASSUME Rely, Sound, Shift
  PROVE  Sound'
<1> DEFINE left == Len(vReadBuffer) - offset
<1>1. /\ vReadBuffer \in Seq(Nat) /\ Len(vReadBuffer) \in Nat
      /\ offset \in Nat /\ offset <= Here /\ offset <= Len(vReadBuffer)
      /\ arrived = Here - offset + Len(vReadBuffer)
      /\ \A i \in 1 .. Len(vReadBuffer) : vReadBuffer[i] = Here - offset + i
  BY LenProperties DEF Sound, TypeOK, BufferAligned, At, Shift
<1>2. /\ vReadBuffer' \in Seq(Nat)
      /\ Len(vReadBuffer') = left
      /\ \A i \in 1 .. left : vReadBuffer'[i] = Here + i
  <2>1. CASE offset = 0 /\ vReadBuffer' = vReadBuffer
    BY <1>1, <2>1, Place
  <2>2. CASE vReadBuffer' = Left
    <3>1. left \in Nat /\ offset + left = Len(vReadBuffer)
      BY <1>1
    <3>2. Left = SubSeq(vReadBuffer, offset + 1, offset + left)
      BY <3>1 DEF Left
    <3>3. /\ Left \in Seq(Nat) /\ Len(Left) = left
          /\ \A i \in 1 .. left : Left[i] = vReadBuffer[offset + i]
      <4>1. offset + left <= Len(vReadBuffer)
        BY <1>1
      <4> HIDE DEF left
      <4>2. QED BY <1>1, <3>1, <3>2, <4>1, Slice
    <3>4. ASSUME NEW i \in 1 .. left PROVE Left[i] = Here + i
      <4>1. offset + i \in 1 .. Len(vReadBuffer)
        BY <1>1
      <4>2. vReadBuffer[offset + i] = Here - offset + (offset + i)
        BY <1>1, <4>1
      <4>3. Here - offset + (offset + i) = Here + i
        BY <1>1, Place
      <4>4. QED BY <3>3, <4>2, <4>3
    <3>5. QED BY <2>2, <3>3, <3>4
  <2>3. QED BY <2>1, <2>2 DEF Rely, Shift
<1>3. At' = 0 /\ Here' = Here /\ arrived' = arrived
  BY DEF At, Here, Shift
<1>4. BufferAligned'
  <2>1. left \in Nat /\ arrived = Here - 0 + left
    BY <1>1, Place
  <2>2. \A i \in 1 .. left : vReadBuffer'[i] = Here - 0 + i
    BY <1>2, Place
  <2>3. 0 <= left /\ 0 <= Here
    BY <2>1, Place
  <2> HIDE DEF left
  <2>4. QED BY <1>2, <1>3, <2>1, <2>2, <2>3 DEF BufferAligned
<1>5. TypeOK' /\ FramesIntact' /\ arrived' <= stream'.start[stream'.n + 1]
  BY <1>2 DEF Sound, TypeOK, FramesIntact, Frame, Shift
<1>6. HeaderAligned' /\ CursorAligned' /\ NothingThere'
  BY <1>3
     DEF Sound, HeaderAligned, CursorAligned, NothingThere, Shift
<1>7. QED BY <1>4, <1>5, <1>6 DEF Sound

LEMMA InitSound ==
  ASSUME Init
  PROVE  Sound
<1>1. stream \in Streams /\ handled = <<>> /\ arrived = 0
  BY DEF Init
<1>2. /\ stream.n \in Nat /\ stream.start[1] = 0
      /\ stream.start \in [1 .. stream.n + 1 -> Nat]
  BY <1>1, StreamsAssumption
<1>3. Len(handled) = 0 /\ Here = 0 /\ At = 0
  BY <1>1, <1>2 DEF Here, At, Init
<1>4. TypeOK
  <2>1. 0 \in 0 .. UIntMod - 1
    BY ReadAssumption, HeaderAssumption
  <2>2. header \in Headers
    BY <2>1 DEF Init, Headers
  <2>3. vReadBuffer \in Seq(Nat) /\ handled \in Seq(Seq(Nat))
    BY DEF Init
  <2>4. QED BY <2>2, <2>3 DEF Init, TypeOK
<1>5. FramesIntact
  BY <1>2, <1>3 DEF FramesIntact
<1>6. arrived <= stream.start[stream.n + 1]
  BY <1>1, <1>2
<1>7. BufferAligned
  BY <1>3 DEF Init, BufferAligned
<1>8. CursorAligned /\ HeaderAligned /\ NothingThere
  BY <1>3, HeaderAssumption
     DEF Init, CursorAligned, HeaderAligned, NothingThere
<1>9. QED BY <1>4, <1>5, <1>6, <1>7, <1>8 DEF Sound

LEMMA NextSound ==
  ASSUME Rely, Sound, [Next]_vars
  PROVE  Sound'
<1>1. CASE ReadFails
  BY <1>1
     DEF Sound, TypeOK, FramesIntact, Frame, ReadFails
<1>2. CASE UNCHANGED vars
  BY <1>2
     DEF vars, Sound, TypeOK, FramesIntact, Frame, BufferAligned, CursorAligned,
         HeaderAligned, NothingThere, HeaderThere, At, Here
<1>3. QED
  BY <1>1, <1>2, ReadSound, ReadHeaderSound, SkipHeaderSound, IncompleteSound,
     ProcessSound, NoHeaderSound, ShiftSound
     DEF Next, Parse

-------------------------------------------------------------------------------
(* Theorems. *)

\* The type invariant.
THEOREM TypeCorrect == ASSUME Rely PROVE Spec => []TypeOK
<1>1. Sound => TypeOK
  BY DEF Sound
<1>2. QED BY <1>1, InitSound, NextSound, PTL DEF Spec

\* The messages are handled whole and in order, however the stream was cut.
THEOREM FramesStayIntact == ASSUME Rely PROVE Spec => []FramesIntact
<1>1. Sound => FramesIntact
  BY DEF Sound
<1>2. QED BY <1>1, InitSound, NextSound, PTL DEF Spec

\* readPos and offset agree, and skip never leaves the buffer.
THEOREM CursorsStayAgreed == ASSUME Rely PROVE Spec => []CursorsAgree
<1>1. Sound => CursorsAgree
  BY DEF Sound, CursorAligned, CursorsAgree
<1>2. QED BY <1>1, InitSound, NextSound, PTL DEF Spec

\* What the abstract specification takes for the next message and for a wrong
\* header, in terms of the invariant.
LEMMA NothingToDeliver ==
  ASSUME Sound, pc = "idle"
  PROVE  ~MS!Deliverable /\ ~MS!Rejectable
<1>1. \/ arrived - Here < HeaderSize
      \/ headerValid /\ arrived - Here < HeaderSize + header.len
  BY DEF Sound, NothingThere
<1>2. SUFFICES ASSUME Len(handled) < stream.n
               PROVE  ~MS!Deliverable /\ ~MS!Rejectable
  BY DEF MS!Deliverable, MS!Rejectable
<1> DEFINE k == Len(handled) + 1
<1>3. /\ stream.len[k] \in Nat
      /\ stream.start[Len(handled) + 2] = Here + HeaderSize + stream.len[k]
      /\ stream.good[k] \in BOOLEAN
  BY <1>2, MessageAtHand
<1>4. /\ Here \in Nat /\ arrived \in Nat /\ HeaderSize \in Nat
      /\ stream.start[k] = Here
  BY Place DEF Here
<1>5. CASE arrived - Here < HeaderSize
  BY <1>3, <1>4, <1>5 DEF MS!Deliverable, MS!Rejectable
<1>6. CASE headerValid /\ arrived - Here < HeaderSize + header.len
  <2>1. stream.good[k] /\ header.len = stream.len[k]
    BY <1>6 DEF Sound, HeaderAligned
  <2>2. QED BY <1>3, <1>4, <1>6, <2>1 DEF MS!Deliverable, MS!Rejectable
<1>7. QED BY <1>1, <1>5, <1>6

\* readBuffer keeps the promise of MessageStream: whatever arrived in full is
\* handled, in order and before the next read, and a wrong header ends it.
THEOREM FramingImplementsStream == ASSUME Rely PROVE Spec => StreamRefined
<1>1. Init => MS!Init
  BY DEF Init, MS!Init
<1>2. Sound /\ [Next]_vars => [MS!Next]_(MS!streamVars)
  <2> SUFFICES ASSUME Sound, [Next]_vars
               PROVE  [MS!Next]_(MS!streamVars)
    OBVIOUS
  <2> USE DEF MS!streamVars
  <2>1. CASE Read
    <3>1. /\ pc # "closed" /\ pc' # "closed"
          /\ stream' = stream /\ handled' = handled
      BY <2>1 DEF Read
    <3>2. arrived' \in arrived + 1 .. stream.start[stream.n + 1]
      <4>1. PICK n \in 1 .. ReadSize :
              arrived' = arrived + n /\ arrived + n <= stream.start[stream.n + 1]
        BY <2>1 DEF Read
      <4>2. QED BY <4>1, Place, ReadAssumption
    <3>3. ~MS!Deliverable /\ ~MS!Rejectable
      BY <2>1, NothingToDeliver DEF Read
    <3>4. MS!Arrive
      BY <3>1, <3>2, <3>3 DEF MS!Arrive
    <3>5. QED BY <3>4 DEF MS!Next
  <2>2. CASE ReadFails
    <3>1. ~MS!Deliverable /\ ~MS!Rejectable
      BY <2>2, NothingToDeliver DEF ReadFails
    <3>2. MS!Hangup
      BY <2>2, <3>1 DEF ReadFails, MS!Hangup
    <3>3. QED BY <3>2 DEF MS!Next
  <2>3. CASE ReadHeader
    <3>1. /\ Len(handled) < stream.n
          /\ header' = [good |-> stream.good[Len(handled) + 1],
                        len |-> stream.len[Len(handled) + 1]]
      BY <2>3, FrameFound DEF ReadHeader
    <3>2. CASE header'.good
      BY <2>3, <3>2 DEF ReadHeader
    <3>3. CASE ~header'.good
      <4>1. stream.start[Len(handled) + 1] + HeaderSize <= arrived
        <5>1. /\ arrived = Here - offset + Len(vReadBuffer)
              /\ Len(vReadBuffer) \in Nat /\ offset \in Nat
              /\ Len(vReadBuffer) >= offset + HeaderSize
          BY <2>3, LenProperties
             DEF Sound, TypeOK, BufferAligned, At, ReadHeader, HeaderThere
        <5>2. Here + HeaderSize <= arrived
          BY <5>1, Place
        <5>3. QED BY <5>2 DEF Here
      <4>2. ~stream.good[Len(handled) + 1]
        BY <3>1, <3>3
      <4>3. MS!Rejectable
        BY <3>1, <4>1, <4>2 DEF MS!Rejectable
      <4>4. MS!Reject
        BY <2>3, <3>3, <4>3 DEF ReadHeader, MS!Reject
      <4>5. QED BY <4>4 DEF MS!Next
    <3>4. QED BY <3>2, <3>3
  <2>4. CASE ProcessMessage
    <3>1. Len(handled') = Len(handled) + 1 /\ CursorAligned'
      BY <2>4, ProcessSound DEF Sound, ProcessMessage
    <3>2. /\ Len(handled) < stream.n /\ stream.good[Len(handled) + 1]
          /\ MessageSize = HeaderSize + header.len /\ header.len \in Nat
          /\ stream.start[Len(handled) + 2] = Here + MessageSize
      BY <2>4, SizeOfFrame DEF ProcessMessage
    <3>3. Here + MessageSize <= arrived
      <4>1. /\ arrived = Here - offset + Len(vReadBuffer)
            /\ Len(vReadBuffer) \in Nat /\ offset \in Nat
            /\ Len(vReadBuffer) >= MessageSize + offset
        BY <2>4, LenProperties
           DEF Sound, TypeOK, BufferAligned, At, ProcessMessage
      <4>2. QED BY <3>2, <4>1, Place
    <3>4. MS!Deliverable
      BY <3>2, <3>3 DEF MS!Deliverable
    <3>5. MS!Deliver
      BY <2>4, <3>1, <3>4 DEF ProcessMessage, MS!Deliver
    <3>6. QED BY <3>5 DEF MS!Next
  <2>5. CASE SkipHeader \/ Incomplete \/ NoHeader \/ Shift
    BY <2>5 DEF SkipHeader, Incomplete, NoHeader, Shift
  <2>6. CASE UNCHANGED vars
    BY <2>6 DEF vars
  <2>7. QED
    BY <2>1, <2>2, <2>3, <2>4, <2>5, <2>6 DEF Next, Parse
<1>3. QED
  BY <1>1, <1>2, InitSound, NextSound, PTL DEF Spec, StreamRefined, MS!Spec

===============================================================================
