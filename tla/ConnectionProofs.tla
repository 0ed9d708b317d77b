--------------------------- MODULE ConnectionProofs ---------------------------
(***************************************************************************)
(* Proofs about Connection, for every choice of versions, nonces, sizes of *)
(* commands, addresses and number of requests.                             *)
(***************************************************************************)
EXTENDS Connection, SequenceLemmas

-------------------------------------------------------------------------------
(* Addresses. *)

LEMMA WordSeq ==
  ASSUME NEW n \in Nat
  PROVE  /\ \A x \in Word(n) : x \in Seq(Byte) /\ Len(x) = n
         /\ \A x \in Seq(Byte) : Len(x) = n => x \in Word(n)
<1>1. ASSUME NEW x \in Word(n) PROVE x \in Seq(Byte) /\ Len(x) = n
  <2>1. x \in [1 .. n -> Byte]
    BY DEF Word
  <2>2. x \in Seq(Byte)
    BY <2>1, SeqDef
  <2>3. QED BY <2>1, <2>2, LenProperties
<1>2. ASSUME NEW x \in Seq(Byte), Len(x) = n PROVE x \in Word(n)
  BY <1>2, LenProperties DEF Word
<1>3. QED BY <1>1, <1>2

\* Swapping the bytes twice changes nothing.
LEMMA Swap ==
  ASSUME NEW n \in Nat, NEW x \in Word(n)
  PROVE  bswap(x) \in Word(n) /\ bswap(bswap(x)) = x
<1>1. Len(x) = n /\ x \in [1 .. n -> Byte]
  BY WordSeq DEF Word
<1> DEFINE y == bswap(x)
<1>2. y = [i \in 1 .. n |-> x[n + 1 - i]]
  BY <1>1 DEF bswap
<1>3. y \in [1 .. n -> Byte]
  BY <1>1, <1>2
<1> HIDE DEF y
<1>4. Len(y) = n
  BY <1>3, WordSeq DEF Word
<1>5. bswap(y) = [i \in 1 .. n |-> y[n + 1 - i]]
  BY <1>4 DEF bswap
<1>6. \A i \in 1 .. n : y[n + 1 - i] = x[i]
  BY <1>2
<1>7. bswap(y) = x
  BY <1>1, <1>5, <1>6
<1>8. QED BY <1>3, <1>7 DEF y, Word

\* An IPv4 address is the end of its 16 bytes.
LEMMA Mapped ==
  ASSUME NEW a \in Word(4)
  PROVE  FromIn(a) \in Word(16) /\ GetInAddr(FromIn(a)) = a
<1>1. Zeros(10) \in Word(10)
  BY DEF Zeros, Word, Byte
<1> DEFINE z == Zeros(10)
           o == <<255, 255>>
           ip == FromIn(a)
<1>2. z \in Seq(Byte) /\ Len(z) = 10
  BY <1>1, WordSeq
<1>3. o \in Seq(Byte) /\ Len(o) = 2
  BY DEF Byte
<1>4. pchIPv4 = z \o o
  BY DEF pchIPv4
<1> HIDE DEF z, o
<1>5. pchIPv4 \in Seq(Byte) /\ Len(pchIPv4) = 12
  <2>1. z \o o \in Seq(Byte) /\ Len(z \o o) = Len(z) + Len(o)
    BY <1>2, <1>3, ConcatProperties
  <2>2. QED BY <1>2, <1>3, <1>4, <2>1
<1>6. a \in Seq(Byte) /\ Len(a) = 4
  BY WordSeq
<1>7. /\ ip \in Seq(Byte) /\ Len(ip) = 16
      /\ \A i \in 1 .. 16 : ip[i] = IF i <= 12 THEN pchIPv4[i] ELSE a[i - 12]
  <2> DEFINE p == pchIPv4
  <2>1. ip = p \o a /\ p \in Seq(Byte) /\ Len(p) = 12
    BY <1>5 DEF FromIn
  <2> HIDE DEF p
  <2>2. /\ p \o a \in Seq(Byte) /\ Len(p \o a) = Len(p) + Len(a)
        /\ \A i \in 1 .. Len(p) + Len(a) :
             (p \o a)[i] = IF i <= Len(p) THEN p[i] ELSE a[i - Len(p)]
    BY <1>6, <2>1, ConcatProperties
  <2>3. Len(p) + Len(a) = 16
    BY <1>6, <2>1
  <2>4. QED BY <2>1, <2>2, <2>3 DEF p
<1> HIDE DEF ip
<1>8. \A i \in 13 .. 16 : ip[i] \in Byte
  <2>1. \A i \in 13 .. 16 : i - 12 \in 1 .. 4 /\ ip[i] = a[i - 12]
    BY <1>7
  <2>2. \A i \in 1 .. 4 : a[i] \in Byte
    BY DEF Word
  <2>3. QED BY <2>1, <2>2
<1>9. /\ SubSeq(ip, 13, 16) \in Seq(Byte)
      /\ Len(SubSeq(ip, 13, 16)) = 4
      /\ \A i \in 1 .. 4 : SubSeq(ip, 13, 16)[i] = ip[13 + i - 1]
  BY <1>8, SubSeqProperties
<1>10. \A i \in 1 .. 4 : SubSeq(ip, 13, 16)[i] = a[i]
  BY <1>7, <1>9
<1>11. SubSeq(ip, 13, 16) = a
  BY <1>6, <1>9, <1>10, SeqEqual
<1>12. ip \in Word(16)
  BY <1>7, WordSeq
<1>13. QED BY <1>11, <1>12 DEF ip, GetInAddr

LEMMA Conversions ==
  /\ \A s \in CService : GetSockAddr(s) \in SockAddr
  /\ \A sa \in SockAddr, g \in Word(2) :
       /\ FromSockAddr(sa, g) \in CService
       /\ sa.family = "AF_INET" => GetSockAddr(FromSockAddr(sa, g)) = sa
<1>1. ASSUME NEW s \in CService PROVE GetSockAddr(s) \in SockAddr
  <2>1. s.ip \in Word(16) /\ s.port \in Word(2)
    BY DEF CService, CNetAddr
  <2>2. bswap(s.port) \in Word(2)
    BY <2>1, Swap
  <2>3. s.ip \in Seq(Byte) /\ Len(s.ip) = 16
    BY <2>1, WordSeq
  <2>4. SubSeq(s.ip, 13, 16) \in Seq(Byte) /\ Len(SubSeq(s.ip, 13, 16)) = 4
    BY <2>3, SubSeqProperties
  <2>5. GetInAddr(s.ip) \in Word(4)
    BY <2>4, WordSeq DEF GetInAddr
  <2>6. QED BY <2>2, <2>5 DEF GetSockAddr, SockAddr
<1>2. ASSUME NEW sa \in SockAddr, NEW g \in Word(2)
      PROVE  /\ FromSockAddr(sa, g) \in CService
             /\ sa.family = "AF_INET" => GetSockAddr(FromSockAddr(sa, g)) = sa
  <2>1. CASE sa.family = "AF_INET"
    <3>1. /\ sa.addr \in Word(4) /\ sa.port \in Word(2)
          /\ sa = [family |-> "AF_INET", addr |-> sa.addr, port |-> sa.port]
      BY <2>1 DEF SockAddr, NoAddr
    <3>2. FromSockAddr(sa, g) = [ip |-> FromIn(sa.addr), port |-> bswap(sa.port)]
      BY <2>1 DEF FromSockAddr
    <3>3. FromSockAddr(sa, g) \in CService
      BY <3>1, <3>2, Mapped, Swap DEF CService, CNetAddr
    <3>4. GetSockAddr(FromSockAddr(sa, g)) =
            [family |-> "AF_INET", addr |-> sa.addr, port |-> sa.port]
      BY <3>1, <3>2, Mapped, Swap DEF GetSockAddr
    <3>5. QED BY <3>1, <3>3, <3>4
  <2>2. CASE sa.family = "AF_INET6"
    <3>1. sa.addr \in Word(16) /\ sa.port \in Word(2)
      BY <2>2 DEF SockAddr, NoAddr
    <3>2. QED BY <2>2, <3>1, Swap DEF FromSockAddr, FromIn6, CService, CNetAddr
  <2>3. CASE sa.family # "AF_INET" /\ sa.family # "AF_INET6"
    <3>1. FromSockAddr(sa, g) = [ip |-> Zeros(16), port |-> g]
      BY <2>3 DEF FromSockAddr
    <3>2. Zeros(16) \in Word(16)
      BY DEF Zeros, Word, Byte
    <3>3. QED BY <2>3, <3>1, <3>2 DEF CService, CNetAddr
  <2>4. QED BY <2>1, <2>2, <2>3
<1>3. QED BY <1>1, <1>2

\* What initiateConnection starts with.
LEMMA Targets ==
  ASSUME NEW seed \in Seeds, NEW sa \in Target(seed)
  PROVE  /\ seed \in CService /\ sa \in SockAddr
         /\ sa # NoAddr => sa.family = "AF_INET"
<1>1. seed \in CService
  BY ConnectionAssumption
<1>2. CASE IsIPv4(seed.ip)
  BY <1>1, <1>2, Conversions DEF Target, GetSockAddr
<1>3. CASE ~IsIPv4(seed.ip)
  BY <1>3, ConnectionAssumption DEF Target, SockAddr
<1>4. QED BY <1>1, <1>2, <1>3

-------------------------------------------------------------------------------
(* The type invariant. *)

LEMMA Answers ==
  /\ Version \in Command
  /\ \A req \in Request : Reply(req) \in Command
  /\ \A req \in Request : req.cmd = "version" => req.version \in Versions
BY DEF Request, Command, Version, Reply

LEMMA CommandSize ==
  ASSUME NEW c \in Command
  PROVE  Sizes[c.cmd] \in Nat \ {0}
<1>1. c.cmd \in {"version", "verack", "pong"}
  BY DEF Command
<1>2. QED BY <1>1, CommandsAssumption

\* What write() is given: the bytes of the first command that are not yet sent.
LEMMA Given ==
  ASSUME TypeOK, sendingBuffer # <<>>
  PROVE  /\ Head(sendingBuffer) \in Command
         /\ Tail(sendingBuffer) \in Seq(Command)
         /\ ToSend \in Seq(Command \X (Nat \ {0}))
         /\ Len(ToSend) = Sizes[Head(sendingBuffer).cmd] - sendPos
         /\ \A n \in 1 .. Len(ToSend) :
              SubSeq(ToSend, 1, n) \in Seq(Command \X (Nat \ {0}))
<1> DEFINE c == Head(sendingBuffer)
           b == Bytes(c)
           size == Sizes[c.cmd]
<1>1. /\ sendingBuffer \in Seq(Command)
      /\ sendPos \in Nat /\ (sendPos # 0 => sendPos < size)
  BY DEF TypeOK
<1>2. c \in Command /\ Tail(sendingBuffer) \in Seq(Command)
  BY <1>1, HeadTailProperties
<1>3. size \in Nat \ {0}
  BY <1>2, CommandSize
<1>4. b \in [1 .. size -> Command \X (Nat \ {0})]
  BY <1>2, <1>3 DEF Bytes
<1>5. ToSend = SubSeq(b, sendPos + 1, size)
  BY DEF ToSend
<1> HIDE DEF c, b, size
<1>6. b \in Seq(Command \X (Nat \ {0}))
  BY <1>3, <1>4, SeqDef
<1>7. Len(b) = size
  BY <1>3, <1>4, <1>6, LenProperties
<1>8. /\ sendPos + 1 \in 1 .. size + 1
      /\ \A i \in sendPos + 1 .. size : b[i] \in Command \X (Nat \ {0})
  BY <1>1, <1>3, <1>4
<1>9. /\ ToSend \in Seq(Command \X (Nat \ {0}))
      /\ Len(ToSend) = size - sendPos
  <2>1. sendPos + 1 \in 1 .. Len(b) + 1 /\ size \in sendPos .. Len(b)
    BY <1>1, <1>3, <1>7, <1>8
  <2>2. QED BY <1>1, <1>3, <1>5, <1>6, <1>7, <2>1, SubSeqProperties
<1>10. ASSUME NEW n \in 1 .. Len(ToSend)
       PROVE  SubSeq(ToSend, 1, n) \in Seq(Command \X (Nat \ {0}))
  BY <1>9, LenProperties, SubSeqProperties
<1>11. QED BY <1>2, <1>9, <1>10 DEF c, size

LEMMA InitType == Init => TypeOK
<1>1. SUFFICES ASSUME Init PROVE TypeOK
  OBVIOUS
<1>2. PICK seed \in Seeds :
        /\ peer \in Target(seed)
        /\ \/ addrYou = seed
           \/ addrYou \in {FromSockAddr(peer, g) : g \in Garbage}
  BY <1>1 DEF Init
<1>3. peer \in SockAddr /\ addrYou \in CService
  BY <1>2, Targets, Conversions, ConnectionAssumption
<1>4. QED BY <1>1, <1>3, EmptySeq DEF Init, TypeOK

LEMMA ConnectedType ==
  ASSUME TypeOK, Connected
  PROVE  peer' \in SockAddr /\ addrYou' \in CService /\ reported' = reported
<1>1. CASE status = "CONNECTING"
  <2>1. /\ peer' \in {peer, NoAddr} /\ reported' = reported
        /\ addrYou' \in {FromSockAddr(peer', g) : g \in Garbage}
    BY <1>1 DEF Connected, initializeAddress
  <2>2. peer' \in SockAddr
    BY <2>1 DEF TypeOK, SockAddr
  <2>3. QED BY <2>1, <2>2, Conversions, ConnectionAssumption
<1>2. CASE status # "CONNECTING"
  BY <1>2 DEF Connected, addrVars, TypeOK
<1>3. QED BY <1>1, <1>2

LEMMA BeginWriteType == TypeOK /\ BeginWrite => TypeOK'
<1>1. SUFFICES ASSUME TypeOK, BeginWrite PROVE TypeOK'
  OBVIOUS
<1>2. sendingBuffer' \in Seq(Command)
  BY <1>1, Answers, AppendProperties DEF TypeOK, BeginWrite
<1>3. sendPos # 0 => sendingBuffer' # <<>> /\ Head(sendingBuffer') = Head(sendingBuffer)
  BY <1>1, Answers, AppendProperties, HeadTailProperties, EmptySeq DEF TypeOK, BeginWrite
<1>4. peer' \in SockAddr /\ addrYou' \in CService /\ reported' = reported
  BY <1>1, ConnectedType DEF BeginWrite
<1>5. QED BY <1>1, <1>2, <1>3, <1>4 DEF TypeOK, BeginWrite

LEMMA WriteWholeType == TypeOK /\ WriteWhole => TypeOK'
<1>1. SUFFICES ASSUME TypeOK, WriteWhole PROVE TypeOK'
  OBVIOUS
<1>2. /\ sendingBuffer' \in Seq(Command)
      /\ wire' \in Seq(Command \X (Nat \ {0}))
  BY <1>1, Given, ConcatProperties DEF TypeOK, WriteWhole, addrVars
<1>3. QED BY <1>1, <1>2 DEF TypeOK, WriteWhole, addrVars

LEMMA WritePartialType ==
  ASSUME TypeOK, sendingBuffer # <<>>, NEW n \in 1 .. Len(ToSend) - 1,
         WritePartial(n)
  PROVE  TypeOK'
<1>1. /\ Len(ToSend) = Sizes[Head(sendingBuffer).cmd] - sendPos
      /\ Sizes[Head(sendingBuffer).cmd] \in Nat \ {0}
      /\ sendPos \in Nat
  BY Given, CommandSize DEF TypeOK
<1>2. /\ n \in 1 .. Len(ToSend)
      /\ sendPos + n \in Nat /\ sendPos + n < Sizes[Head(sendingBuffer).cmd]
  BY <1>1
<1>3. wire' \in Seq(Command \X (Nat \ {0}))
  BY <1>2, Given, ConcatProperties DEF TypeOK, WritePartial, addrVars
<1>4. QED BY <1>2, <1>3 DEF TypeOK, WritePartial, addrVars

LEMMA RequestType ==
  ASSUME TypeOK, NEW req \in Request, ReceiveRequest(req)
  PROVE  TypeOK'
<1>1. /\ sendingBuffer' = Append(sendingBuffer, Reply(req))
      /\ asked' = Append(asked, req)
  BY DEF ReceiveRequest, Push
<1>2. sendingBuffer' \in Seq(Command) /\ asked' \in Seq(Request)
  BY <1>1, Answers, AppendProperties DEF TypeOK
<1>3. sendPos # 0 => sendingBuffer' # <<>> /\ Head(sendingBuffer') = Head(sendingBuffer)
  BY <1>1, Answers, AppendProperties, HeadTailProperties, EmptySeq DEF TypeOK
<1>4. youVersion' \in Versions \cup {0}
  BY Answers DEF TypeOK, ReceiveRequest
<1>5. QED BY <1>2, <1>3, <1>4 DEF TypeOK, ReceiveRequest

\* The type invariant: sendPos is always within the first command of the queue,
\* whatever is written of it and queued behind it (network.cpp:28-59).
THEOREM TypeCorrect == Spec => []TypeOK
<1>1. TypeOK /\ [Next]_vars => TypeOK'
  <2>1. SUFFICES ASSUME TypeOK, [Next]_vars PROVE TypeOK'
    OBVIOUS
  <2>2. CASE BeginWrite
    BY <2>1, <2>2, BeginWriteType
  <2>3. CASE WriteWhole
    BY <2>1, <2>3, WriteWholeType
  <2>4. CASE WriteFails \/ WriteDone
    BY <2>1, <2>4 DEF TypeOK, WriteFails, WriteDone, addrVars
  <2>5. CASE sendingBuffer # <<>> /\ \E n \in 1 .. Len(ToSend) - 1 : WritePartial(n)
    BY <2>1, <2>5, WritePartialType
  <2>6. CASE BeginRead \/ ReadFails \/ EndRead
    BY <2>1, <2>6 DEF TypeOK, BeginRead, ReadFails, EndRead, addrVars
  <2>7. CASE ReceiveAddr
    BY <2>1, <2>7 DEF TypeOK, ReceiveAddr, addrVars
  <2>8. CASE \E req \in Request : ReceiveRequest(req)
    BY <2>1, <2>8, RequestType
  <2>9. CASE UNCHANGED vars
    BY <2>1, <2>9 DEF TypeOK, vars, addrVars
  <2>10. QED
    BY <2>1, <2>2, <2>3, <2>4, <2>5, <2>6, <2>7, <2>8, <2>9
    DEF Next, SendBuffer, ReadBuffer
<1>2. QED BY InitType, <1>1, PTL DEF Spec
-------------------------------------------------------------------------------
(* The peer a version is reported of. *)

\* Until the version message is queued nothing has been read; from then on the
\* address is the socket's.
Corrected ==
  /\ status = "CONNECTING" => pc = "idle" /\ reported = {} /\ writeEnabled
  /\ status # "CONNECTING" /\ peer # NoAddr =>
       peer.family = "AF_INET" /\ GetSockAddr(addrYou) = peer
  /\ status = "CONNECTING" => peer.family = "AF_INET"
  /\ peer = NoAddr => reported = {} /\ pc # "readBuffer"
  /\ \A service \in reported : GetSockAddr(service) = peer

LEMMA InitCorrected == Init => Corrected
<1>1. SUFFICES ASSUME Init PROVE Corrected
  OBVIOUS
<1>2. PICK seed \in Seeds :
        /\ peer \in Target(seed)
        /\ \/ status = "CONNECTING" /\ peer # NoAddr
           \/ /\ status = "CONNECTED"
              /\ addrYou \in {FromSockAddr(peer, g) : g \in Garbage}
  BY <1>1 DEF Init
<1>3. peer \in SockAddr /\ (peer # NoAddr => peer.family = "AF_INET")
  BY <1>2, Targets
<1>4. status # "CONNECTING" /\ peer # NoAddr => GetSockAddr(addrYou) = peer
  BY <1>2, <1>3, Conversions, ConnectionAssumption
<1>5. status = "CONNECTING" => peer # NoAddr
  BY <1>2
<1>6. QED BY <1>1, <1>3, <1>4, <1>5 DEF Init, Corrected

LEMMA BeginWriteCorrected ==
  ASSUME TypeOK, Corrected, BeginWrite
  PROVE  Corrected'
<1>1. status' = "VERSION_SENT" /\ pc' = "sendBuffer"
  BY DEF BeginWrite
<1>2. CASE status = "CONNECTING"
  <2>1. /\ peer' \in {peer, NoAddr} /\ reported' = {}
        /\ addrYou' \in {FromSockAddr(peer', g) : g \in Garbage}
    BY <1>2 DEF BeginWrite, Connected, initializeAddress, Corrected
  <2>2. peer' # NoAddr => peer'.family = "AF_INET" /\ peer' \in SockAddr
    BY <1>2, <2>1 DEF Corrected, TypeOK
  <2>3. peer' # NoAddr => GetSockAddr(addrYou') = peer'
    BY <2>1, <2>2, Conversions, ConnectionAssumption
  <2>4. QED BY <1>1, <2>1, <2>2, <2>3 DEF Corrected
<1>3. CASE status # "CONNECTING"
  BY <1>1, <1>3 DEF BeginWrite, Connected, addrVars, Corrected
<1>4. QED BY <1>2, <1>3

LEMMA ReceiveCorrected ==
  ASSUME TypeOK, Corrected, NEW req \in Request, ReceiveRequest(req)
  PROVE  Corrected'
<1>1. /\ status # "CONNECTING" /\ peer # NoAddr
      /\ peer' = peer /\ addrYou' = addrYou /\ status' = status
      /\ reported' \subseteq reported \cup {addrYou}
  BY DEF ReceiveRequest, Corrected
<1>2. GetSockAddr(addrYou) = peer
  BY <1>1 DEF Corrected
<1>3. \A service \in reported' : GetSockAddr(service) = peer'
  BY <1>1, <1>2 DEF Corrected
<1>4. QED BY <1>1, <1>3 DEF Corrected

LEMMA ReadingCorrected ==
  ASSUME TypeOK, Corrected, BeginRead \/ ReadFails \/ ReceiveAddr \/ EndRead
  PROVE  Corrected'
BY DEF TypeOK, Corrected, BeginRead, ReadFails, ReceiveAddr, EndRead, VersionDue, addrVars

LEMMA WritingCorrected ==
  ASSUME Corrected, SendBuffer
  PROVE  Corrected'
BY DEF Corrected, SendBuffer, WriteWhole, WriteFails, WriteDone, WritePartial, addrVars

\* A version is reported of the socket's peer, though connect() may have been given
\* what was left on the stack (network.cpp:215): before a read there is a write, and
\* before the write initializeAddress.
THEOREM ReportedPeerStays == Spec => []ReportedPeer
<1>1. TypeOK /\ Corrected /\ [Next]_vars => Corrected'
  <2>1. SUFFICES ASSUME TypeOK, Corrected, [Next]_vars PROVE Corrected'
    OBVIOUS
  <2>2. CASE BeginWrite
    BY <2>1, <2>2, BeginWriteCorrected
  <2>3. CASE SendBuffer
    BY <2>1, <2>3, WritingCorrected
  <2>4. CASE BeginRead \/ ReadFails \/ ReceiveAddr \/ EndRead
    BY <2>1, <2>4, ReadingCorrected
  <2>5. CASE \E req \in Request : ReceiveRequest(req)
    BY <2>1, <2>5, ReceiveCorrected
  <2>6. CASE UNCHANGED vars
    BY <2>1, <2>6 DEF Corrected, vars, addrVars
  <2>7. QED BY <2>1, <2>2, <2>3, <2>4, <2>5, <2>6 DEF Next, ReadBuffer
<1>2. TypeOK /\ Corrected => ReportedPeer
  BY DEF Corrected, ReportedPeer
<1>3. QED BY InitCorrected, TypeCorrect, <1>1, <1>2, PTL DEF Spec
-------------------------------------------------------------------------------
(* The dialogue. *)

Octet == Command \X (Nat \ {0})

LEMMA BytesType ==
  ASSUME NEW c \in Command
  PROVE  Bytes(c) \in Seq(Octet) /\ Len(Bytes(c)) = Sizes[c.cmd]
<1>1. Sizes[c.cmd] \in Nat
  BY CommandSize
<1>2. Bytes(c) \in [1 .. Sizes[c.cmd] -> Octet]
  BY <1>1 DEF Bytes, Octet
<1>3. Bytes(c) \in Seq(Octet)
  BY <1>1, <1>2, SeqDef
<1>4. QED BY <1>1, <1>2, <1>3, LenProperties

\* The bytes of each command of a queue.
Parts(cmds) == [i \in DOMAIN cmds |-> Bytes(cmds[i])]

LEMMA PartsType ==
  ASSUME NEW cmds \in Seq(Command)
  PROVE  Parts(cmds) \in Seq(Seq(Octet)) /\ Len(Parts(cmds)) = Len(cmds)
<1>1. Len(cmds) \in Nat /\ DOMAIN cmds = 1 .. Len(cmds)
  BY LenProperties
<1>2. \A i \in 1 .. Len(cmds) : Bytes(cmds[i]) \in Seq(Octet)
  BY ElementOfSeq, BytesType
<1>3. Parts(cmds) \in [1 .. Len(cmds) -> Seq(Octet)]
  BY <1>1, <1>2 DEF Parts
<1>4. Parts(cmds) \in Seq(Seq(Octet))
  BY <1>1, <1>3, SeqDef
<1>5. QED BY <1>1, <1>3, <1>4, LenProperties

LEMMA StreamEmpty == Stream(<<>>) = <<>>
<1>1. Parts(<<>>) = <<>>
  <2>1. <<>> \in Seq(Command) /\ Len(<<>>) = 0
    BY EmptySeq
  <2>2. Parts(<<>>) \in Seq(Seq(Octet)) /\ Len(Parts(<<>>)) = 0
    BY <2>1, PartsType
  <2>3. QED BY <2>2, EmptySeq
<1>2. QED BY <1>1, FlattenEmpty DEF Stream, Parts

LEMMA StreamType ==
  ASSUME NEW cmds \in Seq(Command)
  PROVE  Stream(cmds) \in Seq(Octet)
BY PartsType, FlattenType DEF Stream, Parts

LEMMA StreamAppend ==
  ASSUME NEW cmds \in Seq(Command), NEW c \in Command
  PROVE  Stream(Append(cmds, c)) = Stream(cmds) \o Bytes(c)
<1> DEFINE more == Append(cmds, c)
           p == Parts(cmds)
           q == Parts(more)
           n == Len(cmds)
<1>1. /\ more \in Seq(Command) /\ Len(more) = n + 1 /\ n \in Nat
      /\ \A i \in 1 .. n : more[i] = cmds[i]
      /\ more[n + 1] = c
  BY AppendProperties, LenProperties
<1>2. /\ p \in Seq(Seq(Octet)) /\ Len(p) = n
      /\ q \in Seq(Seq(Octet)) /\ Len(q) = n + 1 /\ Bytes(c) \in Seq(Octet)
  BY <1>1, PartsType, BytesType
<1>3. /\ \A i \in 1 .. n : p[i] = Bytes(cmds[i])
      /\ \A i \in 1 .. n + 1 : q[i] = Bytes(more[i])
  <2>1. DOMAIN cmds = 1 .. n /\ DOMAIN more = 1 .. n + 1
    BY <1>1, LenProperties
  <2>2. QED BY <2>1 DEF Parts
<1> HIDE DEF p, q, more
<1>4. q = Append(p, Bytes(c))
  <2> DEFINE r == Append(p, Bytes(c))
  <2>1. /\ r \in Seq(Seq(Octet)) /\ Len(r) = n + 1
        /\ \A i \in 1 .. n : r[i] = p[i]
        /\ r[n + 1] = Bytes(c)
    BY <1>2, AppendProperties
  <2> HIDE DEF r
  <2>2. ASSUME NEW i \in 1 .. n + 1 PROVE q[i] = r[i]
    <3>1. CASE i = n + 1
      BY <1>1, <1>3, <2>1, <3>1
    <3>2. CASE i # n + 1
      <4>1. i \in 1 .. n
        BY <1>1, <3>2
      <4>2. QED BY <1>1, <1>3, <2>1, <4>1
    <3>3. QED BY <3>1, <3>2
  <2>3. q = r
    BY <1>1, <1>2, <2>1, <2>2, SeqEqual
  <2>4. QED BY <2>3 DEF r
<1>5. FlattenSeq(q) = FlattenSeq(p) \o Bytes(c)
  BY <1>2, <1>4, FlattenAppend
<1>6. QED BY <1>5 DEF p, q, more, Stream, Parts

LEMMA StreamHead ==
  ASSUME NEW cmds \in Seq(Command), cmds # <<>>
  PROVE  Stream(cmds) = Bytes(Head(cmds)) \o Stream(Tail(cmds))
<1> DEFINE p == Parts(cmds)
           q == Parts(Tail(cmds))
           n == Len(cmds)
<1>1. /\ Head(cmds) \in Command /\ Head(cmds) = cmds[1]
      /\ Tail(cmds) \in Seq(Command) /\ Len(Tail(cmds)) = n - 1
      /\ \A i \in 1 .. n - 1 : Tail(cmds)[i] = cmds[i + 1]
      /\ n \in Nat \ {0}
  BY HeadTailProperties, EmptySeq
<1>2. /\ p \in Seq(Seq(Octet)) /\ Len(p) = n
      /\ q \in Seq(Seq(Octet)) /\ Len(q) = n - 1
  BY <1>1, PartsType
<1>3. /\ \A i \in 1 .. n : p[i] = Bytes(cmds[i])
      /\ \A i \in 1 .. n - 1 : q[i] = Bytes(Tail(cmds)[i])
  <2>1. DOMAIN cmds = 1 .. n /\ DOMAIN Tail(cmds) = 1 .. n - 1
    BY <1>1, LenProperties
  <2>2. QED BY <2>1 DEF Parts
<1> HIDE DEF p, q, n
<1>4. /\ p # <<>> /\ Head(p) = Bytes(Head(cmds))
  BY <1>1, <1>2, <1>3, EmptySeq
<1>5. Tail(p) = q
  <2>1. /\ Tail(p) \in Seq(Seq(Octet)) /\ Len(Tail(p)) = n - 1
        /\ \A i \in 1 .. n - 1 : Tail(p)[i] = p[i + 1]
    BY <1>2, <1>4, HeadTailProperties
  <2>2. \A i \in 1 .. n - 1 : Tail(p)[i] = q[i]
    <3>1. \A i \in 1 .. n - 1 : i + 1 \in 1 .. n
      BY <1>1
    <3>2. QED BY <1>1, <1>3, <2>1, <3>1
  <2>3. QED BY <1>2, <2>1, <2>2, SeqEqual
<1>6. FlattenSeq(p) = Head(p) \o FlattenSeq(q)
  BY <1>2, <1>4, <1>5, FlattenHead
<1>7. QED BY <1>4, <1>6 DEF p, q, Stream, Parts

\* What there is to say, in the terms of Connection.
Said(requests) == Stream(<<Version>> \o [i \in DOMAIN requests |-> Reply(requests[i])])

LEMMA ScriptSaid ==
  /\ D!Script = Said(asked)
  /\ D!Init <=> asked = <<>> /\ wire = <<>>
  /\ D!Say <=> /\ \E n \in Len(wire) + 1 .. Len(Said(asked)) :
                   wire' = SubSeq(Said(asked), 1, n)
              /\ asked' = asked
  /\ \A req : D!Ask(req) <=> asked' = Append(asked, req) /\ wire' = wire
  /\ D!Request = Request
<1>1. D!Script = Said(asked)
  BY DEF D!Script, Said, D!Stream, Stream, D!Bytes, Bytes, D!Version, Version,
         D!Reply, Reply, D!FlattenSeq, FlattenSeq
<1>2. D!Init <=> asked = <<>> /\ wire = <<>>
  BY DEF D!Init
<1>3. D!Say <=> /\ \E n \in Len(wire) + 1 .. Len(Said(asked)) :
                     wire' = SubSeq(Said(asked), 1, n)
                /\ asked' = asked
  BY <1>1 DEF D!Say
<1>4. \A req : D!Ask(req) <=> asked' = Append(asked, req) /\ wire' = wire
  BY DEF D!Ask
<1>5. D!Request = Request
  BY DEF D!Request, Request
<1>6. QED BY <1>1, <1>2, <1>3, <1>4, <1>5

LEMMA SaidFirst ==
  Said(<<>>) = Bytes(Version)
<1>1. <<Version>> = Append(<<>>, Version) /\ <<>> \in Seq(Command) /\ Version \in Command
  BY Answers
<1>2. Stream(<<Version>>) = Stream(<<>>) \o Bytes(Version)
  BY <1>1, StreamAppend
<1>3. Stream(<<Version>>) = Bytes(Version)
  BY <1>1, <1>2, StreamEmpty, BytesType, ConcatEmptySeq
<1>4. <<Version>> \o [i \in DOMAIN <<>> |-> Reply(<<>>[i])] = <<Version>>
  <2> DEFINE r == [i \in DOMAIN <<>> |-> Reply(<<>>[i])]
  <2>1. r = <<>>
    OBVIOUS
  <2> HIDE DEF r
  <2>2. QED BY <1>1, <2>1
<1>5. QED BY <1>3, <1>4 DEF Said

LEMMA SaidMore ==
  ASSUME NEW requests \in Seq(Request), NEW req \in Request
  PROVE  Said(Append(requests, req)) = Said(requests) \o Bytes(Reply(req))
<1> DEFINE more == Append(requests, req)
           n == Len(requests)
           r == [i \in DOMAIN requests |-> Reply(requests[i])]
           s == [i \in DOMAIN more |-> Reply(more[i])]
<1>1. /\ more \in Seq(Request) /\ Len(more) = n + 1 /\ n \in Nat
      /\ \A i \in 1 .. n : more[i] = requests[i]
      /\ more[n + 1] = req
  BY AppendProperties, LenProperties
<1>2. DOMAIN requests = 1 .. n /\ DOMAIN more = 1 .. n + 1
  BY <1>1, LenProperties
<1>3. Version \in Command /\ Reply(req) \in Command
  BY Answers
<1>4. r \in Seq(Command) /\ Len(r) = n /\ s \in Seq(Command) /\ Len(s) = n + 1
  <2>1. \A i \in 1 .. n : Reply(requests[i]) \in Command
    BY ElementOfSeq, Answers
  <2>2. \A i \in 1 .. n + 1 : Reply(more[i]) \in Command
    BY <1>1, ElementOfSeq, Answers
  <2>3. r \in [1 .. n -> Command] /\ s \in [1 .. n + 1 -> Command]
    BY <1>2, <2>1, <2>2
  <2> HIDE DEF r, s, more
  <2>4. r \in Seq(Command)
    BY <1>1, <2>3, SeqDef
  <2>5. s \in Seq(Command)
    <3>1. n + 1 \in Nat
      BY <1>1
    <3>2. QED BY <2>3, <3>1, SeqDef
  <2>6. QED BY <1>1, <2>3, <2>4, <2>5, LenProperties
<1>5. /\ \A i \in 1 .. n : r[i] = Reply(requests[i])
      /\ \A i \in 1 .. n + 1 : s[i] = Reply(more[i])
  BY <1>2
<1> HIDE DEF r, s, more, n
<1>6. s = Append(r, Reply(req))
  <2> DEFINE u == Append(r, Reply(req))
  <2>1. /\ u \in Seq(Command) /\ Len(u) = n + 1
        /\ \A i \in 1 .. n : u[i] = r[i]
        /\ u[n + 1] = Reply(req)
    BY <1>3, <1>4, AppendProperties
  <2> HIDE DEF u
  <2>2. ASSUME NEW i \in 1 .. n + 1 PROVE s[i] = u[i]
    <3>1. CASE i = n + 1
      BY <1>1, <1>5, <2>1, <3>1
    <3>2. CASE i # n + 1
      <4>1. i \in 1 .. n
        BY <1>1, <3>2
      <4>2. QED BY <1>1, <1>5, <2>1, <4>1
    <3>3. QED BY <3>1, <3>2
  <2>3. s = u
    BY <1>1, <1>4, <2>1, <2>2, SeqEqual
  <2>4. QED BY <2>3 DEF u
<1>7. <<Version>> \in Seq(Command)
  BY <1>3
<1>8. <<Version>> \o s = Append(<<Version>> \o r, Reply(req)) /\ <<Version>> \o r \in Seq(Command)
  BY <1>3, <1>4, <1>6, <1>7, AppendLast, ConcatProperties
<1>9. Stream(<<Version>> \o s) = Stream(<<Version>> \o r) \o Bytes(Reply(req))
  BY <1>3, <1>8, StreamAppend
<1>10. QED BY <1>9 DEF r, s, more, Said

LEMMA SaidType ==
  ASSUME NEW requests \in Seq(Request)
  PROVE  Said(requests) \in Seq(Octet)
<1> DEFINE n == Len(requests)
           r == [i \in DOMAIN requests |-> Reply(requests[i])]
<1>1. n \in Nat /\ DOMAIN requests = 1 .. n
  BY LenProperties
<1>2. \A i \in 1 .. n : Reply(requests[i]) \in Command
  BY ElementOfSeq, Answers
<1>3. r \in [1 .. n -> Command]
  BY <1>1, <1>2
<1> HIDE DEF r, n
<1>4. r \in Seq(Command)
  BY <1>1, <1>3, SeqDef
<1>5. <<Version>> \in Seq(Command)
  BY Answers
<1>6. <<Version>> \o r \in Seq(Command)
  BY <1>4, <1>5, ConcatProperties
<1>7. Stream(<<Version>> \o r) \in Seq(Octet)
  BY <1>6, StreamType
<1>8. QED BY <1>7 DEF r, Said

\* The bytes of a queue that are still to be sent when pos of its first command are.
Rest(q, pos) == SubSeq(Bytes(Head(q)), pos + 1, Sizes[Head(q).cmd])
Pending(q, pos) == IF q = <<>> THEN <<>> ELSE Rest(q, pos) \o Stream(Tail(q))
Within(q, pos) ==
  /\ q \in Seq(Command)
  /\ pos \in Nat
  /\ pos # 0 => q # <<>> /\ pos < Sizes[Head(q).cmd]

LEMMA GivenType ==
  ASSUME NEW q, NEW pos, Within(q, pos), q # <<>>
  PROVE  /\ Head(q) \in Command /\ Tail(q) \in Seq(Command)
         /\ Bytes(Head(q)) \in Seq(Octet)
         /\ Len(Bytes(Head(q))) = Sizes[Head(q).cmd]
         /\ Sizes[Head(q).cmd] \in Nat /\ pos \in Nat /\ pos < Sizes[Head(q).cmd]
         /\ Rest(q, pos) \in Seq(Octet)
         /\ Len(Rest(q, pos)) = Sizes[Head(q).cmd] - pos
<1> DEFINE b == Bytes(Head(q))
           size == Sizes[Head(q).cmd]
<1>1. Head(q) \in Command /\ Tail(q) \in Seq(Command)
  BY HeadTailProperties DEF Within
<1>2. b \in Seq(Octet) /\ Len(b) = size /\ size \in Nat \ {0}
  BY <1>1, BytesType, CommandSize
<1>3. pos \in Nat /\ pos < size
  BY <1>2 DEF Within
<1>4. Rest(q, pos) = SubSeq(b, pos + 1, size)
  BY DEF Rest
<1> HIDE DEF b, size
<1>5. \A i \in pos + 1 .. size : b[i] \in Octet
  <2>1. \A i \in 1 .. Len(b) : b[i] \in Octet
    BY <1>2, ElementOfSeq
  <2>2. QED BY <1>2, <1>3, <2>1
<1>6. /\ Rest(q, pos) \in Seq(Octet)
      /\ Len(Rest(q, pos)) = size - pos
  <2>1. pos + 1 \in Int /\ size \in Int /\ pos + 1 <= size
    BY <1>2, <1>3
  <2>2. /\ SubSeq(b, pos + 1, size) \in Seq(Octet)
        /\ Len(SubSeq(b, pos + 1, size)) = size - (pos + 1) + 1
    BY <1>5, <2>1, SubSeqProperties
  <2>3. QED BY <1>2, <1>3, <1>4, <2>2
<1>7. QED BY <1>1, <1>2, <1>3, <1>6 DEF b, size

LEMMA PendingType ==
  ASSUME NEW q, NEW pos, Within(q, pos)
  PROVE  Pending(q, pos) \in Seq(Octet)
<1>1. CASE q = <<>>
  BY <1>1 DEF Pending
<1>2. CASE q # <<>>
  BY <1>2, GivenType, StreamType, ConcatProperties DEF Pending
<1>3. QED BY <1>1, <1>2

LEMMA PendingFresh ==
  ASSUME NEW q \in Seq(Command)
  PROVE  Pending(q, 0) = Stream(q)
<1>1. CASE q = <<>>
  BY <1>1, StreamEmpty DEF Pending
<1>2. CASE q # <<>>
  <2>1. Within(q, 0)
    BY DEF Within
  <2>2. Rest(q, 0) = Bytes(Head(q))
    <3>1. Rest(q, 0) = SubSeq(Bytes(Head(q)), 1, Len(Bytes(Head(q))))
      BY <1>2, <2>1, GivenType DEF Rest
    <3>2. QED BY <1>2, <2>1, <3>1, GivenType, SubSeqFull
  <2>3. QED BY <1>2, <2>2, StreamHead DEF Pending
<1>3. QED BY <1>1, <1>2

\* A write() that takes everything.
LEMMA PendingWhole ==
  ASSUME NEW q, NEW pos, Within(q, pos), q # <<>>
  PROVE  Pending(q, pos) = Rest(q, pos) \o Pending(Tail(q), 0)
BY GivenType, PendingFresh DEF Pending

\* A write() that takes n bytes.
LEMMA PendingPart ==
  ASSUME NEW q, NEW pos, Within(q, pos), q # <<>>, NEW n \in 1 .. Len(Rest(q, pos)) - 1
  PROVE  /\ Within(q, pos + n)
         /\ SubSeq(Rest(q, pos), 1, n) \in Seq(Octet)
         /\ Len(SubSeq(Rest(q, pos), 1, n)) = n
         /\ Pending(q, pos) = SubSeq(Rest(q, pos), 1, n) \o Pending(q, pos + n)
<1> DEFINE b == Bytes(Head(q))
           size == Sizes[Head(q).cmd]
           g == Rest(q, pos)
           h == Rest(q, pos + n)
<1>1. /\ b \in Seq(Octet) /\ Len(b) = size /\ size \in Nat
      /\ pos \in Nat /\ pos < size
      /\ g \in Seq(Octet) /\ Len(g) = size - pos
      /\ Tail(q) \in Seq(Command)
  BY GivenType
<1>2. g = SubSeq(b, pos + 1, size) /\ h = SubSeq(b, (pos + n) + 1, size)
  BY DEF Rest
<1>3. n \in Nat /\ n >= 1 /\ n <= size - pos - 1
  <2> HIDE DEF g
  <2>1. n \in 1 .. Len(g) - 1
    BY DEF g
  <2>2. QED BY <1>1, <2>1
<1>4. pos + n \in Nat /\ pos + n < size
  <2> HIDE DEF size
  <2>1. QED BY <1>1, <1>3
<1>5. Within(q, pos + n)
  BY <1>4 DEF Within
<1>6. h \in Seq(Octet)
  BY <1>5, GivenType
<1> HIDE DEF b, size, g, h
<1>7. SubSeq(g, 1, n) = SubSeq(b, pos + 1, pos + n)
  <2>1. /\ pos + 1 \in 1 .. Len(b) /\ size \in 1 .. Len(b)
        /\ 1 \in 1 .. size - (pos + 1) + 1 /\ n \in 1 .. size - (pos + 1) + 1
    BY <1>1, <1>3
  <2>2. SubSeq(SubSeq(b, pos + 1, size), 1, n) = SubSeq(b, (pos + 1) + 1 - 1, (pos + 1) + n - 1)
    BY <1>1, <2>1, SubSeqOfSubSeq
  <2>3. (pos + 1) + 1 - 1 = pos + 1 /\ (pos + 1) + n - 1 = pos + n
    BY <1>1, <1>3
  <2>4. QED BY <1>2, <2>2, <2>3, Zenon
<1>8. SubSeq(b, pos + 1, pos + n) \o h = g
  <2>1. /\ pos + 1 \in 1 .. Len(b) + 1 /\ pos + n \in (pos + 1) - 1 .. Len(b)
        /\ size \in pos + n .. Len(b)
    BY <1>1, <1>3, <1>4
  <2>2. QED BY <1>1, <1>2, <2>1, ConcatAdjacentSubSeq
<1>9. SubSeq(g, 1, n) \in Seq(Octet) /\ Len(SubSeq(g, 1, n)) = n
  BY <1>1, <1>3, Split
<1>10. Pending(q, pos) = g \o Stream(Tail(q)) /\ Pending(q, pos + n) = h \o Stream(Tail(q))
  BY DEF Pending, g, h
<1>11. (SubSeq(g, 1, n) \o h) \o Stream(Tail(q)) = SubSeq(g, 1, n) \o (h \o Stream(Tail(q)))
  BY <1>1, <1>6, <1>9, StreamType, ConcatAssociative
<1>12. QED BY <1>5, <1>7, <1>8, <1>9, <1>10, <1>11 DEF g

\* A command that is pushed comes last.
LEMMA PendingMore ==
  ASSUME NEW q, NEW pos, Within(q, pos), NEW c \in Command
  PROVE  Pending(Append(q, c), pos) = Pending(q, pos) \o Bytes(c)
<1>1. q \in Seq(Command) /\ Append(q, c) \in Seq(Command) /\ Append(q, c) # <<>>
  BY AppendProperties DEF Within
<1>2. CASE q = <<>>
  <2>1. pos = 0
    BY <1>2 DEF Within
  <2>2. Pending(Append(q, c), 0) = Stream(q) \o Bytes(c) /\ Pending(q, 0) = Stream(q)
    BY <1>1, PendingFresh, StreamAppend
  <2>3. QED BY <2>1, <2>2
<1>3. CASE q # <<>>
  <2> DEFINE t == Tail(q)
  <2>1. Head(Append(q, c)) = Head(q) /\ Tail(Append(q, c)) = Append(t, c)
    BY <1>1, <1>3
  <2>2. t \in Seq(Command) /\ Rest(q, pos) \in Seq(Octet)
    BY <1>3, GivenType
  <2>3. Rest(Append(q, c), pos) = Rest(q, pos)
    BY <2>1 DEF Rest
  <2>4. Pending(Append(q, c), pos) = Rest(q, pos) \o Stream(Append(t, c))
    BY <1>1, <2>1, <2>3 DEF Pending
  <2>5. Pending(q, pos) = Rest(q, pos) \o Stream(t)
    BY <1>3 DEF Pending
  <2> HIDE DEF t
  <2>6. Stream(Append(t, c)) = Stream(t) \o Bytes(c)
    BY <2>2, StreamAppend
  <2>7. Stream(t) \in Seq(Octet) /\ Bytes(c) \in Seq(Octet)
    BY <2>2, StreamType, BytesType
  <2>8. Rest(q, pos) \o (Stream(t) \o Bytes(c)) = (Rest(q, pos) \o Stream(t)) \o Bytes(c)
    BY <2>2, <2>7, ConcatAssociative
  <2>9. QED BY <2>4, <2>5, <2>6, <2>8, Zenon
<1>4. QED BY <1>2, <1>3

\* What begins a script and goes on from what was said is some more of it.
LEMMA Begun ==
  ASSUME NEW said \in Seq(Octet), NEW more \in Seq(Octet), NEW rest \in Seq(Octet),
         NEW script, script = (said \o more) \o rest, more # <<>>
  PROVE  /\ Len(said \o more) \in Len(said) + 1 .. Len(script)
         /\ said \o more = SubSeq(script, 1, Len(said \o more))
<1> DEFINE w == said \o more
           n == Len(w)
<1>1. w \in Seq(Octet) /\ n = Len(said) + Len(more)
      /\ Len(said) \in Nat /\ Len(more) \in Nat \ {0} /\ Len(rest) \in Nat
  BY ConcatProperties, LenProperties, EmptySeq
<1> HIDE DEF w
<1>2. Len(script) = n + Len(rest)
  BY <1>1, ConcatProperties DEF w
<1>3. n \in 1 .. Len(w) /\ 1 \in 1 .. Len(w) /\ n \in Len(said) + 1 .. Len(script)
  BY <1>1, <1>2
<1>4. SubSeq(w \o rest, 1, n) = SubSeq(w, 1, n) /\ SubSeq(w, 1, n) = w
  BY <1>1, <1>3, SubSeqOfConcat1, SubSeqFull
<1>5. w = SubSeq(script, 1, n)
  BY <1>4 DEF w
<1>6. QED BY <1>3, <1>5 DEF w

\* Until the version is queued nothing is said or asked; from then on what is on
\* the wire and what is queued for it are the script, whole.
Scripted ==
  /\ status # "VERSION_SENT" =>
       /\ asked = <<>> /\ wire = <<>> /\ sendingBuffer = <<>> /\ sendPos = 0
       /\ writeEnabled /\ pc = "idle"
  /\ status = "VERSION_SENT" => Outgoing = Said(asked)

LEMMA OutgoingPending ==
  /\ Outgoing = wire \o Pending(sendingBuffer, sendPos)
  /\ Outgoing' = wire' \o Pending(sendingBuffer', sendPos')
  /\ ToSend = Rest(sendingBuffer, sendPos)
BY DEF Outgoing, Unsent, ToSend, Pending, Rest

LEMMA QueueWithin ==
  ASSUME TypeOK
  PROVE  /\ Within(sendingBuffer, sendPos)
         /\ wire \in Seq(Octet) /\ asked \in Seq(Request)
         /\ Pending(sendingBuffer, sendPos) \in Seq(Octet)
<1>1. /\ Within(sendingBuffer, sendPos)
      /\ wire \in Seq(Octet) /\ asked \in Seq(Request)
  BY DEF TypeOK, Within, Octet
<1>2. QED BY <1>1, PendingType

\* What a step does that neither says nor asks anything.
LEMMA Quiet ==
  ASSUME Scripted, UNCHANGED <<status, asked, wire, sendingBuffer, sendPos>>,
         status = "VERSION_SENT" \/ UNCHANGED <<writeEnabled, pc>>
  PROVE  Scripted' /\ UNCHANGED <<asked, wire>>
<1>1. Outgoing' = Outgoing
  BY DEF Outgoing, Unsent, ToSend
<1>2. Said(asked)' = Said(asked)
  BY DEF Said
<1>3. QED BY <1>1, <1>2 DEF Scripted

LEMMA BeginWriteSaid ==
  ASSUME TypeOK, Scripted, BeginWrite
  PROVE  Scripted' /\ UNCHANGED <<asked, wire>>
<1>1. UNCHANGED <<asked, wire, sendPos>> /\ status' = "VERSION_SENT"
  BY DEF BeginWrite
<1>2. CASE status = "VERSION_SENT"
  <2>1. sendingBuffer' = sendingBuffer
    BY <1>2 DEF BeginWrite, VersionDue
  <2>2. QED BY <1>1, <1>2, <2>1, Quiet
<1>3. CASE status # "VERSION_SENT"
  <2>1. sendingBuffer = <<>> /\ asked = <<>> /\ wire = <<>> /\ sendPos = 0
    BY <1>3 DEF Scripted
  <2>2. sendingBuffer' = Append(sendingBuffer, Version)
    BY <1>3 DEF BeginWrite, VersionDue
  <2>3. Within(<<>>, 0) /\ Pending(<<>>, 0) = <<>> /\ Version \in Command
    BY Answers DEF Within, Pending
  <2>4. Pending(Append(<<>>, Version), 0) = Bytes(Version)
    <3> DEFINE q == <<>>
    <3>1. Within(q, 0) /\ Pending(q, 0) = <<>>
      BY <2>3
    <3> HIDE DEF q
    <3>2. Pending(Append(q, Version), 0) = Pending(q, 0) \o Bytes(Version)
      BY <2>3, <3>1, PendingMore
    <3>3. <<>> \o Bytes(Version) = Bytes(Version)
      BY <2>3, BytesType, ConcatEmptySeq
    <3>4. QED BY <3>1, <3>2, <3>3 DEF q
  <2>5. /\ sendingBuffer' = Append(<<>>, Version) /\ sendPos' = 0
        /\ wire' = <<>> /\ asked' = <<>>
    BY <1>1, <2>1, <2>2
  <2>6. Outgoing' = <<>> \o Bytes(Version)
    BY <2>4, <2>5, OutgoingPending
  <2>7. Outgoing' = Bytes(Version)
    BY <2>3, <2>6, BytesType, ConcatEmptySeq
  <2>8. Outgoing' = Said(asked')
    BY <2>5, <2>7, SaidFirst, Zenon
  <2>9. QED BY <1>1, <2>8 DEF Scripted, Said
<1>4. QED BY <1>2, <1>3

\* Some bytes of the queue go to the wire.
LEMMA Spoken ==
  ASSUME TypeOK, Scripted, pc = "sendBuffer", asked' = asked, status' = status,
         NEW more \in Seq(Octet), more # <<>>, wire' = wire \o more,
         Pending(sendingBuffer, sendPos) = more \o Pending(sendingBuffer', sendPos'),
         Within(sendingBuffer', sendPos')
  PROVE  Scripted' /\ D!Say
<1> DEFINE rest == Pending(sendingBuffer', sendPos')
<1>1. status = "VERSION_SENT" /\ Outgoing = Said(asked)
  BY DEF Scripted
<1>2. wire \in Seq(Octet) /\ rest \in Seq(Octet)
  BY QueueWithin, PendingType
<1>3. Outgoing = wire \o (more \o rest) /\ Outgoing' = wire' \o rest
  BY OutgoingPending
<1> HIDE DEF rest
<1>4. wire \o (more \o rest) = (wire \o more) \o rest
  BY <1>2, ConcatAssociative
<1>5. Outgoing' = Outgoing
  BY <1>3, <1>4
<1>6. \E n \in Len(wire) + 1 .. Len(Said(asked)) : wire \o more = SubSeq(Said(asked), 1, n)
  <2>1. Said(asked) = (wire \o more) \o rest
    BY <1>1, <1>3, <1>4
  <2>2. more \in Seq(Octet) /\ more # <<>>
    OBVIOUS
  <2> DEFINE script == Said(asked)
  <2>3. script = (wire \o more) \o rest
    BY <2>1
  <2> HIDE DEF script
  <2>4. /\ Len(wire \o more) \in Len(wire) + 1 .. Len(script)
        /\ wire \o more = SubSeq(script, 1, Len(wire \o more))
    BY <1>2, <2>2, <2>3, Begun
  <2>5. QED BY <2>4 DEF script
<1>7. D!Say
  BY <1>6, ScriptSaid
<1>8. Scripted'
  <2>1. Said(asked)' = Said(asked)
    BY DEF Said
  <2>2. QED BY <1>1, <1>5, <2>1 DEF Scripted
<1>9. QED BY <1>7, <1>8

LEMMA WriteWholeSaid ==
  ASSUME TypeOK, Scripted, WriteWhole
  PROVE  Scripted' /\ D!Say
<1>1. /\ pc = "sendBuffer" /\ asked' = asked /\ status' = status
      /\ sendingBuffer # <<>> /\ sendingBuffer' = Tail(sendingBuffer) /\ sendPos' = 0
      /\ wire' = wire \o Rest(sendingBuffer, sendPos)
  BY OutgoingPending DEF WriteWhole
<1>2. /\ Rest(sendingBuffer, sendPos) \in Seq(Octet)
      /\ Tail(sendingBuffer) \in Seq(Command)
      /\ Rest(sendingBuffer, sendPos) # <<>>
  <2>1. /\ Rest(sendingBuffer, sendPos) \in Seq(Octet)
        /\ Len(Rest(sendingBuffer, sendPos)) = Sizes[Head(sendingBuffer).cmd] - sendPos
        /\ Tail(sendingBuffer) \in Seq(Command)
        /\ Sizes[Head(sendingBuffer).cmd] \in Nat /\ sendPos \in Nat
        /\ sendPos < Sizes[Head(sendingBuffer).cmd]
    BY <1>1, QueueWithin, GivenType
  <2>2. Len(Rest(sendingBuffer, sendPos)) # 0
    BY <2>1
  <2>3. QED BY <2>1, <2>2, EmptySeq
<1>3. Within(sendingBuffer', sendPos')
  BY <1>1, <1>2 DEF Within
<1>4. Pending(sendingBuffer, sendPos) =
        Rest(sendingBuffer, sendPos) \o Pending(sendingBuffer', sendPos')
  BY <1>1, QueueWithin, PendingWhole
<1>5. QED BY <1>1, <1>2, <1>3, <1>4, Spoken

LEMMA WritePartialSaid ==
  ASSUME TypeOK, Scripted, sendingBuffer # <<>>, NEW n \in 1 .. Len(ToSend) - 1,
         WritePartial(n)
  PROVE  Scripted' /\ D!Say
<1> DEFINE more == SubSeq(Rest(sendingBuffer, sendPos), 1, n)
<1>1. /\ pc = "sendBuffer" /\ asked' = asked /\ status' = status
      /\ sendingBuffer' = sendingBuffer /\ sendPos' = sendPos + n
      /\ wire' = wire \o more
  BY OutgoingPending DEF WritePartial
<1>2. n \in 1 .. Len(Rest(sendingBuffer, sendPos)) - 1
  BY OutgoingPending
<1>3. /\ Within(sendingBuffer, sendPos + n)
      /\ more \in Seq(Octet) /\ Len(more) = n
      /\ Pending(sendingBuffer, sendPos) = more \o Pending(sendingBuffer, sendPos + n)
  BY <1>2, QueueWithin, PendingPart
<1>4. more # <<>>
  <2>1. Len(more) # 0
    BY <1>3
  <2>2. QED BY <2>1, EmptySeq
<1> HIDE DEF more
<1>5. /\ Within(sendingBuffer', sendPos')
      /\ Pending(sendingBuffer, sendPos) = more \o Pending(sendingBuffer', sendPos')
  BY <1>1, <1>3
<1>6. QED BY <1>1, <1>3, <1>4, <1>5, Spoken

LEMMA ReceiveRequestSaid ==
  ASSUME TypeOK, Scripted, NEW req \in Request, ReceiveRequest(req)
  PROVE  Scripted' /\ D!Ask(req)
<1> DEFINE c == Reply(req)
           pending == Pending(sendingBuffer, sendPos)
<1>1. /\ pc = "readBuffer" /\ status' = status /\ wire' = wire /\ sendPos' = sendPos
      /\ asked' = Append(asked, req) /\ sendingBuffer' = Append(sendingBuffer, c)
  BY DEF ReceiveRequest, Push
<1>2. status = "VERSION_SENT" /\ wire \o pending = Said(asked)
  BY <1>1, OutgoingPending DEF Scripted
<1>3. c \in Command /\ Bytes(c) \in Seq(Octet)
  BY Answers, BytesType
<1>4. wire \in Seq(Octet) /\ asked \in Seq(Request) /\ pending \in Seq(Octet)
  BY QueueWithin
<1>5. Pending(sendingBuffer', sendPos') = pending \o Bytes(c)
  BY <1>1, <1>3, QueueWithin, PendingMore
<1>6. Outgoing' = wire' \o Pending(sendingBuffer', sendPos')
  BY OutgoingPending
<1> HIDE DEF c, pending
<1>7. Outgoing' = (wire \o pending) \o Bytes(c)
  <2>1. (wire \o pending) \o Bytes(c) = wire \o (pending \o Bytes(c))
    BY <1>3, <1>4, ConcatAssociative
  <2>2. Outgoing' = wire \o (pending \o Bytes(c))
    BY <1>1, <1>5, <1>6, Zenon
  <2>3. QED BY <2>1, <2>2, Zenon
<1>8. Said(asked') = Said(asked) \o Bytes(c)
  BY <1>1, <1>4, SaidMore DEF c
<1>9. Scripted'
  BY <1>1, <1>2, <1>7, <1>8 DEF Scripted, Said
<1>10. QED BY <1>1, <1>9, ScriptSaid

LEMMA NextSaid ==
  ASSUME TypeOK, Scripted, [Next]_vars
  PROVE  Scripted' /\ [D!Next]_<<asked, wire>>
<1>1. CASE BeginWrite
  BY <1>1, BeginWriteSaid
<1>2. CASE WriteWhole
  BY <1>2, WriteWholeSaid DEF D!Next
<1>3. CASE sendingBuffer # <<>> /\ \E n \in 1 .. Len(ToSend) - 1 : WritePartial(n)
  BY <1>3, WritePartialSaid DEF D!Next
<1>4. CASE \E req \in Request : ReceiveRequest(req)
  BY <1>4, ReceiveRequestSaid, ScriptSaid DEF D!Next
<1>5. CASE WriteFails \/ WriteDone
  BY <1>5, Quiet DEF WriteFails, WriteDone, Scripted
<1>6. CASE BeginRead
  BY <1>6, Quiet DEF BeginRead, VersionDue, Scripted
<1>7. CASE ReadFails
  BY <1>7, Quiet DEF ReadFails, VersionDue, Scripted
<1>8. CASE ReceiveAddr \/ EndRead
  BY <1>8, Quiet DEF ReceiveAddr, EndRead, Scripted
<1>9. CASE UNCHANGED vars
  BY <1>9, Quiet DEF vars
<1>10. QED BY <1>1, <1>2, <1>3, <1>4, <1>5, <1>6, <1>7, <1>8, <1>9
           DEF Next, SendBuffer, ReadBuffer

\* The connection implements Dialogue, for commands of any size and however many
\* requests: wherever write() stops and however reads and writes follow each other,
\* the peer is sent our version and then one reply for each of its requests, whole
\* and in their order (sendBuffer, network.cpp:28-59, and processMessage).
THEOREM DialogueImplemented == Spec => DialogueKept
<1>1. Init => Scripted /\ D!Init
  BY ScriptSaid DEF Init, Scripted
<1>2. TypeOK /\ Scripted /\ [Next]_vars => Scripted' /\ [D!Next]_<<asked, wire>>
  BY NextSaid
<1>3. QED BY <1>1, <1>2, TypeCorrect, PTL DEF Spec, DialogueKept, D!Spec

\* When nothing is left to write there is no queue.
Idle == open /\ pc = "idle" /\ ~writeEnabled => sendingBuffer = <<>>

\* Then every request received has been answered in full: the code never gives up
\* write interest with something unsaid.
Answered == open /\ pc = "idle" /\ ~writeEnabled => wire = Said(asked)

LEMMA IdleStep ==
  ASSUME Idle, [Next]_vars
  PROVE  Idle'
<1>1. CASE BeginWrite \/ BeginRead
  BY <1>1 DEF BeginWrite, BeginRead, Idle
<1>2. CASE WriteWhole
  BY <1>2 DEF WriteWhole, Idle
<1>3. CASE \E n \in 1 .. Len(ToSend) - 1 : WritePartial(n)
  BY <1>3 DEF WritePartial, Idle
<1>4. CASE WriteFails \/ WriteDone
  BY <1>4 DEF WriteFails, WriteDone, Idle
<1>5. CASE ReadFails \/ ReceiveAddr
  BY <1>5 DEF ReadFails, ReceiveAddr, Idle
<1>6. CASE EndRead
  BY <1>6 DEF EndRead, Idle
<1>7. CASE \E req \in Request : ReceiveRequest(req)
  BY <1>7 DEF ReceiveRequest, Push, Idle
<1>8. CASE UNCHANGED vars
  BY <1>8 DEF vars, Idle
<1>9. QED BY <1>1, <1>2, <1>3, <1>4, <1>5, <1>6, <1>7, <1>8 DEF Next, SendBuffer, ReadBuffer

\* An open connection that waits without write interest has said everything: our
\* version and a whole reply to each request, those that were queued while it was
\* reading among them (network.cpp:28-59, and moreWrite in networkCallback).  This
\* is the part of AllSent that needs no fairness.
THEOREM NothingUnsaid == Spec => []Answered
<1>1. Init => Scripted /\ Idle
  BY DEF Init, Scripted, Idle
<1>2. TypeOK /\ Scripted /\ Idle => Answered
  <2> SUFFICES ASSUME TypeOK, Scripted, Idle, open, pc = "idle", ~writeEnabled
               PROVE  wire = Said(asked)
    BY DEF Answered
  <2>1. status = "VERSION_SENT" /\ sendingBuffer = <<>>
    BY DEF Scripted, Idle
  <2>2. Outgoing = Said(asked) /\ Outgoing = wire \o <<>>
    BY <2>1 DEF Scripted, Outgoing, Unsent
  <2>3. QED BY <2>2, QueueWithin, ConcatEmptySeq
<1>3. TypeOK /\ Scripted /\ Idle /\ [Next]_vars => Scripted' /\ Idle'
  BY NextSaid, IdleStep
<1>4. QED BY <1>1, <1>2, <1>3, TypeCorrect, PTL DEF Spec
===============================================================================
