----------------------------- MODULE Serialization -----------------------------
(***************************************************************************)
(* A message from one host to another through the same SerializationOps:   *)
(* a push...Command fills vSendBuffer with a CVectorWriter, the payload    *)
(* first and the header before it when its length and checksum are known   *)
(* (network.cpp:149-208); readBuffer and processMessage take it apart with *)
(* CVectorReaders (network.cpp:61-80), a version message by the version it *)
(* announces itself.                                                       *)
(*                                                                         *)
(* Commands: "version"; "nonce", which is a pong where it is written and a *)
(* ping where it is read; "verack", which has no payload.  Between the two *)
(* hosts lies the stream of bytes of module MessageFraming: more messages  *)
(* may follow in the reader's buffer.  A peer may also write the size of   *)
(* its agent in other ways than we do.                                     *)
(*                                                                         *)
(* An object is a function from its fields to bytes: integers from the     *)
(* lowest byte, arrays and strings from the first.  genuine is a history   *)
(* variable.                                                               *)
(***************************************************************************)
EXTENDS Primitives, Integers, SequencesExt

CONSTANTS Payloads,    \* the objects that are sent
          Names,       \* the names of the commands, as char[12]
          Magic,       \* MAIN_MAGIC
          Hash,        \* the first four bytes of dsha256, as an array
          Leftovers,   \* what vSendBuffer may hold before (network.cpp:145 moved it)
          Followings,  \* what may follow a message in the reader's buffer
          OtherSizes   \* sizes of the agent as a peer may write them

MESSAGE_HEADER_SIZE == 24

HeaderFields == <<"magic", "command", "payloadLength", "checksum">>

\* The bytes of each field but user_agent, a std::string.  addrMe and addrYou are
\* three fields each.
Size ==
  [magic |-> 4, command |-> 12, payloadLength |-> 4, checksum |-> 4,
   version |-> 4, services |-> 8, timestamp |-> 8,
   meServices |-> 8, meIp |-> 16, mePort |-> 2,
   youServices |-> 8, youIp |-> 16, youPort |-> 2,
   nonce |-> 8, start_height |-> 4, relay |-> 1]

Field == DOMAIN Size \cup {"user_agent"}

ASSUME SerializationAssumption ==
  /\ \A p \in Payloads :
       /\ p \in [Field -> Seq(Byte)]
       /\ Len(p["user_agent"]) <= MAX_SIZE
       /\ \A f \in DOMAIN Size : Len(p[f]) = Size[f]
  /\ DOMAIN Names = {"version", "nonce", "verack"}
  /\ \A c, d \in DOMAIN Names :
       Names[c] \in Word(12) /\ (Names[c] = Names[d] => c = d)
  /\ Magic \in Word(4) /\ Hash \in Word(4)
  /\ Leftovers \subseteq Seq(Byte) /\ Followings \subseteq Seq(Byte)
  /\ OtherSizes \subseteq Seq(Byte) \ {<<>>}

VARIABLES cmd,     \* the command
          fields,  \* the header and the payload of the host that writes
          got,     \* those of the host that reads
          writer, reader,  \* the two hosts
          buffer,  \* vSendBuffer, then vReadBuffer
          pos,     \* nPos of the CVectorWriter, readPos of the CVectorReader
          todo,    \* the fields the SerializationOp has still to come to
          pc,
          genuine  \* the message that is read is the one that was written

vars == <<cmd, fields, got, writer, reader, buffer, pos, todo, pc, genuine>>

\* CMessageHeader::init and CVersionPayload::init.
Blank == [f \in Field |->
            IF f = "user_agent" THEN <<>> ELSE Zeros(Size[f])]

TypeOK ==
  /\ cmd \in DOMAIN Names
  /\ fields \in [Field -> Seq(Byte)]
  /\ got \in [Field -> Seq(Byte)]
  /\ writer \in Hosts /\ reader \in Hosts
  /\ buffer \in Seq(Byte)
  /\ pos \in 0 .. Len(buffer)
  /\ todo \in Seq(Field)
  /\ pc \in {"start", "payload", "header", "sent", "readHeader", "readPayload",
             "done", "terminated"}
  /\ genuine \in BOOLEAN

Init ==
  /\ cmd \in DOMAIN Names
  /\ fields \in Payloads
  /\ got = Blank
  /\ writer \in Hosts /\ reader \in Hosts
  /\ buffer \in Leftovers
  /\ pos = 0
  /\ todo = <<>>
  /\ pc = "start"
  /\ genuine = TRUE

-------------------------------------------------------------------------------
(* The fields of an object, and their bytes. *)

\* GetVersion of a stream: the version, a uint32_t of four bytes, made an int.  From
\* 2^31 on it is negative.
GetVersion(x) ==
  x[1] + 256 * x[2] + 65536 * x[3]
    + 16777216 * (IF x[4] < 128 THEN x[4] ELSE x[4] - 256)

\* CAddress without nTime: the readers and writers are made without bHaveTime.
\* CVersionPayload::SerializationOp for a stream of that version.
VersionFields(version) ==
  <<"version", "services", "timestamp", "meServices", "meIp", "mePort">>
    \o (IF version >= 106
        THEN <<"youServices", "youIp", "youPort", "nonce", "user_agent", "start_height">>
        ELSE <<>>)
    \o (IF version >= 70001 THEN <<"relay">> ELSE <<>>)

\* The fields of the payload of a command.
PayloadFields(command, version) ==
  CASE command = "version" -> VersionFields(version)
    [] command = "nonce"   -> <<"nonce">>
    [] command = "verack"  -> <<>>

\* Arrays have no order of bytes, and of integers only the port is BigEndian.
Arrays == {"command", "meIp", "youIp"}
OrderOf(f) == IF f \in {"mePort", "youPort"} THEN "big" ELSE "little"

\* ::Serialize of a field.
Serialize(host, f, x) ==
  IF f \in Arrays THEN x
  ELSE IF f = "user_agent" THEN WriteCompactSize(host, Len(x)) \o x
  ELSE ser_writedata(host, OrderOf(f), x)

\* ::Unserialize of a field that has a fixed size.
Unserialize(host, f, bytes) ==
  IF f \in Arrays THEN bytes ELSE ser_readdata(host, OrderOf(f), bytes)

-------------------------------------------------------------------------------
(* The host that writes. *)

NODE_NETWORK == <<1>> \o Zeros(7)

\* What pushVersionCommand sends.  It gives the version where CAddress takes the
\* services of an address; the time is also the nonce.
OwnPayload(version, time, me, you, agent) ==
  [Blank EXCEPT
    !["version"] = version, !["services"] = NODE_NETWORK, !["timestamp"] = time,
    !["meServices"] = version \o Zeros(4), !["meIp"] = me.ip, !["mePort"] = me.port,
    !["youServices"] = version \o Zeros(4), !["youIp"] = you.ip, !["youPort"] = you.port,
    !["nonce"] = time, !["user_agent"] = agent]

\* Mutant of Write: what is there is moved and not overwritten.
Write_Inserts(b, p, bytes) ==
  SubSeq(b, 1, p) \o bytes \o SubSeq(b, p + 1, Len(b))

\* CVectorWriter::write: as much as there is behind p is overwritten, the rest is
\* appended.
Write(b, p, bytes) ==
  SubSeq(b, 1, p) \o bytes \o SubSeq(b, p + Len(bytes) + 1, Len(b))

\* The buffer is emptied; with a payload, the constructor of its writer (or, for
\* a version, the command itself) leaves room for the header.
BeginCommand ==
  /\ pc = "start"
  /\ buffer' = IF cmd = "verack" THEN <<>> ELSE Zeros(MESSAGE_HEADER_SIZE)
  /\ pos' = Len(buffer')
  /\ todo' = PayloadFields(cmd, GetVersion(fields["version"]))
  /\ pc' = "payload"
  /\ UNCHANGED <<cmd, fields, got, writer, reader, genuine>>

WriteField ==
  /\ pc \in {"payload", "header"}
  /\ todo # <<>>
  /\ LET bytes == Serialize(writer, Head(todo), fields[Head(todo)])
     IN /\ buffer' = Write(buffer, pos, bytes)
        /\ pos' = pos + Len(bytes)
  /\ todo' = Tail(todo)
  /\ UNCHANGED <<cmd, fields, got, writer, reader, pc, genuine>>

\* The constructor of CMessageHeader, and a writer that starts at 0.  The checksum
\* is the integer that the memory of the host has in the four bytes of the hash.
MakeHeader ==
  /\ pc = "payload"
  /\ todo = <<>>
  /\ LET payload == IF cmd = "verack" THEN 0 ELSE Len(buffer) - MESSAGE_HEADER_SIZE
     IN fields' = [fields EXCEPT !["magic"] = Magic,
                                 !["command"] = Names[cmd],
                                 !["payloadLength"] = Word32(payload),
                                 !["checksum"] = Memory(writer, Hash)]
  /\ pos' = 0
  /\ todo' = HeaderFields
  /\ pc' = "header"
  /\ UNCHANGED <<cmd, got, writer, reader, buffer, genuine>>

\* pushCommand.
PushCommand ==
  /\ pc = "header"
  /\ todo = <<>>
  /\ pc' = "sent"
  /\ UNCHANGED <<cmd, fields, got, writer, reader, buffer, pos, todo, genuine>>

-------------------------------------------------------------------------------
(* Between the hosts. *)

BeginRead ==
  /\ pc = "sent"
  /\ pos' = 0
  /\ todo' = HeaderFields
  /\ pc' = "readHeader"
  /\ UNCHANGED <<cmd, fields, got, writer, reader>>

Deliver(following) ==
  /\ BeginRead
  /\ buffer' = buffer \o following
  /\ UNCHANGED genuine

\* Where a version message has the size of its agent.
AgentAt == 104

\* A message like ours, but for the size of the agent.
DeliverOther(size) ==
  /\ BeginRead
  /\ cmd = "version"
  /\ GetVersion(fields["version"]) >= 106
  /\ genuine' = FALSE
  /\ LET ours == WriteCompactSize(writer, Len(fields["user_agent"]))
     IN buffer' = SubSeq(buffer, 1, AgentAt) \o size
                    \o SubSeq(buffer, AgentAt + Len(ours) + 1, Len(buffer))

-------------------------------------------------------------------------------
(* The host that reads. *)

\* Mutant of read: the position runs past the end of the buffer.
read_Unclamped(p, n) ==
  IF p + n > Len(buffer) THEN [bytes |-> Zeros(n), next |-> p + n]
  ELSE [bytes |-> SubSeq(buffer, p + 1, p + n), next |-> p + n]

\* CVectorReader::read: n bytes at p.  If there are less, all of them are 0.
read(p, n) ==
  IF p + n > Len(buffer) THEN [bytes |-> Zeros(n), next |-> Len(buffer)]
  ELSE [bytes |-> SubSeq(buffer, p + 1, p + n), next |-> p + n]

Reading == pc \in {"readHeader", "readPayload"} /\ todo # <<>>

ReadField ==
  /\ Reading
  /\ Head(todo) \in DOMAIN Size
  /\ LET r == read(pos, Size[Head(todo)])
     IN /\ got' = [got EXCEPT ![Head(todo)] = Unserialize(reader, Head(todo), r.bytes)]
        /\ pos' = r.next
  /\ todo' = Tail(todo)
  /\ UNCHANGED <<cmd, fields, writer, reader, buffer, pc, genuine>>

\* The compact size of the agent: its first byte, and the integer that follows it.
AgentSize ==
  LET first == read(pos, 1)
      rest  == read(first.next, SizeWidth(first.bytes[1]))
  IN [first |-> first.bytes[1], next |-> rest.next,
      rest |-> ser_readdata(reader, "little", rest.bytes)]

ReadAgent ==
  /\ Reading
  /\ Head(todo) = "user_agent"
  /\ Accepted(AgentSize.first, AgentSize.rest)
  /\ LET r == read(AgentSize.next, CompactValue(AgentSize.first, AgentSize.rest))
     IN /\ got' = [got EXCEPT !["user_agent"] = r.bytes]
        /\ pos' = r.next
  /\ todo' = Tail(todo)
  /\ UNCHANGED <<cmd, fields, writer, reader, buffer, pc, genuine>>

\* The exception is caught nowhere: the program ends.
AgentRejected ==
  /\ Reading
  /\ Head(todo) = "user_agent"
  /\ ~Accepted(AgentSize.first, AgentSize.rest)
  /\ pc' = "terminated"
  /\ UNCHANGED <<cmd, fields, got, writer, reader, buffer, pos, todo, genuine>>

\* The version the payload begins with.
AnnouncedVersion ==
  GetVersion(Unserialize(reader, "version", read(MESSAGE_HEADER_SIZE, 4).bytes))

\* processMessage: the payload of a version message is read by the version that
\* tmpVreader has found in it (network.cpp:66), by a reader of its own.
HeaderRead ==
  /\ pc = "readHeader"
  /\ todo = <<>>
  /\ \E c \in DOMAIN Names :
       /\ got["command"] = Names[c]
       /\ todo' = PayloadFields(c, AnnouncedVersion)
  /\ pc' = "readPayload"
  /\ UNCHANGED <<cmd, fields, got, writer, reader, buffer, pos, genuine>>

PayloadRead ==
  /\ pc = "readPayload"
  /\ todo = <<>>
  /\ pc' = "done"
  /\ UNCHANGED <<cmd, fields, got, writer, reader, buffer, pos, todo, genuine>>

-------------------------------------------------------------------------------
Writing == BeginCommand \/ WriteField \/ MakeHeader \/ PushCommand

Delivery ==
  \/ \E following \in Followings : Deliver(following)
  \/ \E size \in OtherSizes : DeliverOther(size)

Next ==
  \/ Writing \/ Delivery
  \/ ReadField \/ ReadAgent \/ AgentRejected \/ HeaderRead \/ PayloadRead

Spec == Init /\ [][Next]_vars
-------------------------------------------------------------------------------
(* Properties *)

\* The message as the protocol has it, whatever host writes it: integers from the
\* lowest byte, the port from the highest, an agent behind its size; and these
\* four bytes as its checksum.
OnWire(f, checksum) ==
  IF f \in {"mePort", "youPort"} THEN Reverse(fields[f])
  ELSE IF f = "user_agent" THEN WriteCompactSize("little", Len(fields[f])) \o fields[f]
  ELSE IF f = "checksum" THEN checksum
  ELSE fields[f]

MessageFields == HeaderFields \o PayloadFields(cmd, GetVersion(fields["version"]))
Wire(checksum) ==
  FlattenSeq([i \in DOMAIN MessageFields |-> OnWire(MessageFields[i], checksum)])

\* What is queued is that message, header and payload and nothing else, although
\* the header is written last and whatever vSendBuffer was left with; its length
\* is that of its payload.  Of a big-endian host this is not so: it sends the
\* checksum swapped (message.h:26 copies its bytes into an integer, which is then
\* written as one).
WireFormat ==
  pc = "sent" /\ writer = "little" =>
    /\ buffer = Wire(Hash)
    /\ Len(buffer) = MESSAGE_HEADER_SIZE + Value32(fields["payloadLength"])

\* Each field of each version is read as it was written, whatever the two hosts,
\* and the reader ends where the message does: no field is taken from the message
\* behind it, and no exception ends the program, however long the agent.
RoundTrip ==
  genuine /\ pc \in {"done", "terminated"} =>
    /\ pc = "done"
    /\ pos = MESSAGE_HEADER_SIZE + Value32(fields["payloadLength"])
    /\ \A i \in DOMAIN MessageFields :
         got[MessageFields[i]] = fields[MessageFields[i]]
===============================================================================
