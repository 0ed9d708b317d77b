------------------------------ MODULE Connection ------------------------------
(***************************************************************************)
(* One Connection (network.h, network.cpp) in the epoll build, from the    *)
(* moment it is registered: the address it is known by, the handshake, the *)
(* queue of commands to send with its partial writes, and the commands     *)
(* that are received.                                                      *)
(*                                                                         *)
(* A callback runs in steps: sendBuffer makes one step of each write(), and*)
(* readBuffer one of each message it hands to processMessage (how it finds *)
(* them in the bytes is the subject of module MessageFraming).             *)
(*                                                                         *)
(* asked, wire, decoded and reported are history variables: the requests   *)
(* received, the bytes the kernel took, for each address the protocol      *)
(* version it was decoded by with the one the peer had announced, and the  *)
(* services whose version was handed to the reporter.                      *)
(***************************************************************************)
EXTENDS Commands, NetAddr

CONSTANTS MaxRequests,  \* bound: requests a peer sends
          Seeds,        \* the services initiateConnection is called with
          Leftovers,    \* what an uninitialised sockaddr may hold
          Garbage       \* what an uninitialised port may hold

\* connect() takes only these families on an AF_INET socket.  Of AF_UNSPEC it makes
\* no connection at all, and says that it was through.
ASSUME ConnectionAssumption ==
  /\ MaxRequests \in Nat
  /\ Seeds \subseteq CService
  /\ Leftovers \subseteq
       [family : {"AF_INET"}, addr : Word(4), port : Word(2)] \cup {NoAddr}
  /\ Garbage \subseteq Word(2)

\* From this version on an address in an addr message begins with nTime.
CADDR_TIME_VERSION == 31402

VARIABLES peer,           \* the other end of the socket, NoAddr if there is none
          addrYou,        \* the service it is taken for
          status,         \* Connection::status
          youVersion,     \* the version the peer announced, 0 before that
          sendingBuffer,  \* the commands to be sent
          sendPos,        \* bytes of the first of them that were sent
          writeEnabled,   \* the write interest (see module NetworkEngine)
          open,           \* FALSE when a callback has failed
          pc,             \* "idle", or the function that is running
          version,        \* the argument of readBuffer
          asked, wire, decoded, reported

addrVars == <<peer, addrYou, reported>>
vars == <<addrVars, status, youVersion, sendingBuffer, sendPos, writeEnabled, open,
          pc, version, asked, wire, decoded>>

TypeOK ==
  /\ peer \in SockAddr
  /\ addrYou \in CService
  /\ status \in {"CONNECTING", "CONNECTED", "VERSION_SENT"}
  /\ youVersion \in Versions \cup {0}
  /\ sendingBuffer \in Seq(Command)
  /\ sendPos \in Nat
  /\ sendPos # 0 =>
       sendingBuffer # <<>> /\ sendPos < Sizes[Head(sendingBuffer).cmd]
  /\ writeEnabled \in BOOLEAN
  /\ open \in BOOLEAN
  /\ pc \in {"idle", "sendBuffer", "readBuffer"}
  /\ version \in Versions \cup {0}
  /\ asked \in Seq(Request)
  /\ wire \in Seq(Command \X (Nat \ {0}))
  /\ decoded \subseteq [by : Versions \cup {0}, announced : Versions \cup {0}]
  /\ reported \subseteq CService

\* What GetSockAddr leaves in the sockaddr connect() is given: its result is not
\* looked at, and of an IPv6 address it writes nothing.
Target(seed) == IF IsIPv4(seed.ip) THEN {GetSockAddr(seed)} ELSE Leftovers

\* Mutant of initializeAddress: the service stays the one that was asked for.
initializeAddress_Kept(sa) == UNCHANGED addrYou

\* The errors of getpeername are ignored.
initializeAddress(sa) == addrYou' \in {FromSockAddr(sa, g) : g \in Garbage}

\* initiateConnection: connect() goes on or, seldom, is through at once.
Init ==
  /\ \E seed \in Seeds :
       /\ peer \in Target(seed)
       /\ \/ status = "CONNECTING" /\ addrYou = seed /\ peer # NoAddr
          \/ /\ status = "CONNECTED"
             /\ addrYou \in {FromSockAddr(peer, g) : g \in Garbage}
  /\ reported = {}
  /\ youVersion = 0
  /\ sendingBuffer = <<>>
  /\ sendPos = 0
  /\ writeEnabled = TRUE
  /\ open = TRUE
  /\ pc = "idle"
  /\ version = 0
  /\ asked = <<>>
  /\ wire = <<>>
  /\ decoded = {}

-------------------------------------------------------------------------------
(* event.write: networkCallback, then sendBuffer. *)

VersionDue == status # "VERSION_SENT"

\* The connection attempt has ended, well or badly.
Connected ==
  IF status = "CONNECTING"
  THEN peer' \in {peer, NoAddr} /\ initializeAddress(peer') /\ UNCHANGED reported
  ELSE UNCHANGED addrVars

BeginWrite ==
  /\ pc = "idle"
  /\ open
  /\ writeEnabled
  /\ pc' = "sendBuffer"
  /\ Connected
  /\ status' = "VERSION_SENT"
  /\ sendingBuffer' =
       IF VersionDue THEN Append(sendingBuffer, Version) ELSE sendingBuffer
  /\ UNCHANGED <<youVersion, sendPos, writeEnabled, open, version, asked, wire,
                 decoded>>

\* The bytes write() is given.
ToSend == SubSeq(Bytes(Head(sendingBuffer)), sendPos + 1,
                 Sizes[Head(sendingBuffer).cmd])

\* Mutant of WriteWhole: sendPos is not reset.
WriteWhole_KeepsPos ==
  /\ pc = "sendBuffer"
  /\ sendingBuffer # <<>>
  /\ peer # NoAddr
  /\ wire' = wire \o ToSend
  /\ sendingBuffer' = Tail(sendingBuffer)
  /\ UNCHANGED <<addrVars, status, youVersion, sendPos, writeEnabled, open, pc,
                 version, asked, decoded>>

\* write() takes all it is given.
WriteWhole ==
  /\ pc = "sendBuffer"
  /\ sendingBuffer # <<>>
  /\ peer # NoAddr
  /\ wire' = wire \o ToSend
  /\ sendingBuffer' = Tail(sendingBuffer)
  /\ sendPos' = 0
  /\ UNCHANGED <<addrVars, status, youVersion, writeEnabled, open, pc, version,
                 asked, decoded>>

\* Mutant of WritePartial: the bytes sent before this write() are forgotten.
WritePartial_FromStart(n) ==
  /\ pc = "sendBuffer"
  /\ sendingBuffer # <<>>
  /\ peer # NoAddr
  /\ wire' = wire \o SubSeq(ToSend, 1, n)
  /\ sendPos' = n
  /\ pc' = "idle"
  /\ writeEnabled' = TRUE
  /\ UNCHANGED <<addrVars, status, youVersion, sendingBuffer, open, version,
                 asked, decoded>>

\* write() takes n bytes, and no more for now: moreWrite.
WritePartial(n) ==
  /\ pc = "sendBuffer"
  /\ sendingBuffer # <<>>
  /\ peer # NoAddr
  /\ wire' = wire \o SubSeq(ToSend, 1, n)
  /\ sendPos' = sendPos + n
  /\ pc' = "idle"
  /\ writeEnabled' = TRUE
  /\ UNCHANGED <<addrVars, status, youVersion, sendingBuffer, open, version,
                 asked, decoded>>

\* Any error, EWOULDBLOCK among them, ends the connection (network.cpp:41).
WriteFails ==
  /\ pc = "sendBuffer"
  /\ sendingBuffer # <<>>
  /\ pc' = "idle"
  /\ open' = FALSE
  /\ UNCHANGED <<addrVars, status, youVersion, sendingBuffer, sendPos,
                 writeEnabled, version, asked, wire, decoded>>

WriteDone ==
  /\ pc = "sendBuffer"
  /\ sendingBuffer = <<>>
  /\ pc' = "idle"
  /\ writeEnabled' = FALSE
  /\ UNCHANGED <<addrVars, status, youVersion, sendingBuffer, sendPos, open,
                 version, asked, wire, decoded>>

-------------------------------------------------------------------------------
(* event.read: readBuffer(conn.youVersion), and processMessage for each message. *)

\* Until the version is sent the socket, once connected, is writable and has
\* write interest: its event carries EPOLLOUT, which networkCallback sees first.
BeginRead ==
  /\ pc = "idle"
  /\ open
  /\ peer # NoAddr
  /\ ~(VersionDue /\ writeEnabled)
  /\ pc' = "readBuffer"
  /\ version' = youVersion
  /\ UNCHANGED <<addrVars, status, youVersion, sendingBuffer, sendPos,
                 writeEnabled, open, asked, wire, decoded>>

\* read() returns 0 or an error, or the magic of a message is wrong.
ReadFails ==
  /\ \/ pc = "idle" /\ open /\ ~(VersionDue /\ writeEnabled)
     \/ pc = "readBuffer"
  /\ pc' = "idle"
  /\ open' = FALSE
  /\ UNCHANGED <<addrVars, status, youVersion, sendingBuffer, sendPos,
                 writeEnabled, version, asked, wire, decoded>>

\* pushCommand.
Push(c) == sendingBuffer' = Append(sendingBuffer, c)

\* A version, which is reported, or a ping: it is answered at once.
ReceiveRequest(req) ==
  /\ pc = "readBuffer"
  /\ Len(asked) < MaxRequests
  /\ asked' = Append(asked, req)
  /\ Push(Reply(req))
  /\ youVersion' = IF req.cmd = "version" THEN req.version ELSE youVersion
  /\ reported' = IF req.cmd = "version" THEN reported \cup {addrYou} ELSE reported
  /\ UNCHANGED <<peer, addrYou, status, sendPos, writeEnabled, open, pc, version,
                 wire, decoded>>

\* An addr message, decoded by the version readBuffer was called with.
ReceiveAddr ==
  /\ pc = "readBuffer"
  /\ decoded' = decoded \cup {[by |-> version, announced |-> youVersion]}
  /\ UNCHANGED <<addrVars, status, youVersion, sendingBuffer, sendPos,
                 writeEnabled, open, pc, version, asked, wire>>

\* Mutant of EndRead: moreWrite is only looked at after a write.
EndRead_NoMoreWrite ==
  /\ pc = "readBuffer"
  /\ pc' = "idle"
  /\ UNCHANGED <<addrVars, status, youVersion, sendingBuffer, sendPos,
                 writeEnabled, open, version, asked, wire, decoded>>

\* The bytes that were read are used up, but for an incomplete message.
EndRead ==
  /\ pc = "readBuffer"
  /\ pc' = "idle"
  /\ writeEnabled' = (sendingBuffer # <<>>)
  /\ UNCHANGED <<addrVars, status, youVersion, sendingBuffer, sendPos, open,
                 version, asked, wire, decoded>>

-------------------------------------------------------------------------------
SendBuffer ==
  \/ WriteWhole \/ WriteFails \/ WriteDone
  \/ sendingBuffer # <<>> /\ \E n \in 1 .. Len(ToSend) - 1 : WritePartial(n)

ReadBuffer ==
  \/ ReadFails \/ ReceiveAddr \/ EndRead
  \/ \E req \in Request : ReceiveRequest(req)

Next == BeginWrite \/ SendBuffer \/ BeginRead \/ ReadBuffer

Spec == Init /\ [][Next]_vars

\* A callback that runs comes to an end, and while there is write interest the
\* socket is reported writable again and again: the peer goes on reading.
LiveSpec ==
  /\ Spec
  /\ WF_vars(pc # "idle" /\ (SendBuffer \/ ReadBuffer))
  /\ SF_vars(BeginWrite)
-------------------------------------------------------------------------------
(* Properties *)

\* Connection implements Dialogue: whatever the partial writes and however reads
\* and writes follow each other, the bytes on the wire are our version message
\* and then the replies, whole, in the order of the requests.
D == INSTANCE Dialogue WITH said <- wire
DialogueKept == D!Spec

\* What is on the wire and what is queued for it.
Unsent ==
  IF sendingBuffer = <<>> THEN <<>> ELSE ToSend \o Stream(Tail(sendingBuffer))
Outgoing == wire \o Unsent

\* Everything that is queued is sent in the end, unless the connection is closed.
AllSent ==
  \A n \in 1 .. Len(Stream(<<Version>>)) + MaxRequests * Sizes["pong"] :
    Len(Outgoing) >= n ~> Len(wire) >= n \/ ~open

\* A version is reported of the service the socket is connected to, though that
\* may be another than the one that was asked for: initializeAddress corrects the
\* address before anything is read.
ReportedPeer ==
  \A service \in reported : peer.family = "AF_INET" /\ GetSockAddr(service) = peer

\* "nTime field added to CAddress, starting with this version" (protocol.h:11):
\* an address of a peer that announced its version is decoded with nTime exactly
\* if that version has the field.
AddrsTimed ==
  \A d \in decoded :
    d.announced # 0 =>
      (d.by >= CADDR_TIME_VERSION <=> d.announced >= CADDR_TIME_VERSION)
===============================================================================
