------------------------------ MODULE AddrMessage ------------------------------
(***************************************************************************)
(* An addr message in processMessage (network.cpp:80): how many addresses  *)
(* there are is read with ReadVarInt, then each address with CAddress's    *)
(* SerializationOp, and added.  The reader runs over the buffer, in which  *)
(* other messages may follow; past its end it finds zeros.                 *)
(*                                                                         *)
(* The peer sends the addresses as a vector of them is written             *)
(* (serialize.h:706): their number as a CompactSize, then each one.        *)
(*                                                                         *)
(* The bytes of the number have values; of the others only the place       *)
(* matters, from 0 at the start of the payload, unless they are taken for  *)
(* digits of the number: then they have any value.  digits is a history    *)
(* variable, the bytes the number was read from.                           *)
(***************************************************************************)
EXTENDS Integers, Sequences

CONSTANTS Versions,   \* the protocol versions of peers
          Counts,     \* how many addresses a message lists
          Following,  \* how many bytes of later messages the buffer holds
          Bytes,      \* the values of bytes
          CountMax,   \* 2^32 - 1: the number is a uint32_t
          MaxAdded    \* bound: addresses read of one message

\* The largest number of addresses whose CompactSize is modelled.
MostSent == 65535

ASSUME AddrMessageAssumption ==
  /\ Versions \subseteq Nat
  /\ Counts \subseteq 0 .. MostSent
  /\ Following \subseteq Nat
  /\ Bytes \subseteq 0 .. 255
  /\ CountMax \in Nat /\ CountMax % 128 = 127
  /\ MaxAdded \in Nat

VARIABLES sent,     \* the number of addresses in the message
          version,  \* the version both sides go by (see Connection)
          size,     \* vReadBuffer.size(), from the payload on
          readPos,  \* the CVectorReader's position
          count,
          added,    \* the addresses given to addNewAddr
          pc,
          digits

vars == <<sent, version, size, readPos, count, added, pc, digits>>

-------------------------------------------------------------------------------
(* The message. *)

\* WriteCompactSize, up to MostSent.
CompactSize(n) == IF n < 253 THEN <<n>> ELSE <<253, n % 256, n \div 256>>

\* From this version on an address begins with nTime.
CADDR_TIME_VERSION == 31402

TimeSize == IF version >= CADDR_TIME_VERSION THEN 4 ELSE 0
ServicesSize == 8
IpSize == 16
PortSize == 2
AddrSize == TimeSize + ServicesSize + IpSize + PortSize

\* Where the k-th address of the message has its ip and its port.
Sent(k) ==
  LET ip == Len(CompactSize(sent)) + (k - 1) * AddrSize + TimeSize + ServicesSize
  IN [ip |-> ip, port |-> ip + IpSize]

\* A field, or a byte, of which not everything is there.
Zeros == -1

TypeOK ==
  /\ sent \in Counts
  /\ version \in Versions
  /\ size \in Nat
  /\ readPos \in 0 .. size
  /\ count \in 0 .. CountMax
  /\ added \in Seq([ip : Nat \cup {Zeros}, port : Nat \cup {Zeros}])
  /\ pc \in {"count", "addrs", "done", "terminated"}
  /\ digits \in Seq(0 .. 255)

Init ==
  /\ sent \in Counts
  /\ version \in Versions
  /\ \E following \in Following :
       size = Len(CompactSize(sent)) + sent * AddrSize + following
  /\ readPos = 0
  /\ count = 0
  /\ added = <<>>
  /\ pc = "count"
  /\ digits = <<>>

-------------------------------------------------------------------------------
(* CVectorReader. *)

\* Mutant of read: the position runs past the end of the buffer.
read_Unclamped(pos, n) ==
  IF pos + n > size THEN [at |-> Zeros, next |-> pos + n]
  ELSE [at |-> pos, next |-> pos + n]

\* read: n bytes at pos.  If there are less, all of them are set to 0.
read(pos, n) ==
  IF pos + n > size THEN [at |-> Zeros, next |-> size]
  ELSE [at |-> pos, next |-> pos + n]

\* The values a byte can have there.
ByteAt(pos) ==
  IF pos < Len(CompactSize(sent)) THEN {CompactSize(sent)[pos + 1]}
  ELSE IF read(pos, 1).at = Zeros THEN {0} ELSE Bytes

-------------------------------------------------------------------------------
(* ReadVarInt: seven bits of a byte are a digit, the eighth says that another
   one follows. *)

ReadDigit(byte) ==
  /\ pc = "count"
  /\ byte \in ByteAt(readPos)
  /\ readPos' = read(readPos, 1).next
  /\ digits' = Append(digits, byte)
  /\ UNCHANGED <<sent, version, size, added>>

Another(byte) == byte >= 128

\* n << 7 or n++ would not fit.
TooLarge(byte) ==
  \/ count > CountMax \div 128
  \/ Another(byte) /\ count * 128 + (byte % 128) = CountMax

\* Mutant of MoreDigits: n++ is left out.
MoreDigits_NoIncrement(byte) ==
  /\ ReadDigit(byte)
  /\ ~TooLarge(byte)
  /\ Another(byte)
  /\ count' = count * 128 + (byte % 128)
  /\ UNCHANGED pc

MoreDigits(byte) ==
  /\ ReadDigit(byte)
  /\ ~TooLarge(byte)
  /\ Another(byte)
  /\ count' = count * 128 + (byte % 128) + 1
  /\ UNCHANGED pc

LastDigit(byte) ==
  /\ ReadDigit(byte)
  /\ ~TooLarge(byte)
  /\ ~Another(byte)
  /\ count' = count * 128 + (byte % 128)
  /\ pc' = "addrs"

\* The exception is caught nowhere: the program ends.
CountTooLarge(byte) ==
  /\ ReadDigit(byte)
  /\ TooLarge(byte)
  /\ pc' = "terminated"
  /\ UNCHANGED count

-------------------------------------------------------------------------------
(* The loop over the addresses. *)

\* Mutant of AddrStart: the reader was made without bHaveTime.
AddrStart_NoTime == readPos

\* The position behind nTime.
AddrStart == IF TimeSize = 0 THEN readPos ELSE read(readPos, TimeSize).next

ReadAddr ==
  /\ pc = "addrs"
  /\ Len(added) < count
  /\ Len(added) < MaxAdded
  /\ LET ip   == read(read(AddrStart, ServicesSize).next, IpSize)
         port == read(ip.next, PortSize)
     IN /\ added' = Append(added, [ip |-> ip.at, port |-> port.at])
        /\ readPos' = port.next
  /\ UNCHANGED <<sent, version, size, count, pc, digits>>

AddrsRead ==
  /\ pc = "addrs"
  /\ Len(added) = count
  /\ pc' = "done"
  /\ UNCHANGED <<sent, version, size, readPos, count, added, digits>>

-------------------------------------------------------------------------------
Next ==
  \/ \E byte \in 0 .. 255 : MoreDigits(byte) \/ LastDigit(byte) \/ CountTooLarge(byte)
  \/ ReadAddr \/ AddrsRead

Spec == Init /\ [][Next]_vars
-------------------------------------------------------------------------------
(* Properties *)

\* The number that is read is the one serialize.h:313 says its bytes encode,
\* although it is computed digit by digit in 32 bits:
\*   (a[len-1] & 0x7F) + sum(i=1..len-1, 128^i*((a[len-i-1] & 0x7F)+1))
Power[i \in Nat] == IF i = 0 THEN 1 ELSE 128 * Power[i - 1]
Documented(a) ==
  LET sum[i \in 0 .. Len(a) - 1] ==
        IF i = 0 THEN a[Len(a)] % 128
        ELSE sum[i - 1] + Power[i] * ((a[Len(a) - i] % 128) + 1)
  IN sum[Len(a) - 1]
CountDocumented == pc \in {"addrs", "done"} => count = Documented(digits)

\* Of a message with less than 128 addresses exactly those are added that the
\* peer listed, in order, ip and port from their places, whatever follows.
AddrsSent ==
  sent < 128 =>
    /\ pc # "terminated"
    /\ Len(added) <= sent
    /\ \A k \in 1 .. Len(added) : added[k] = Sent(k)
    /\ pc = "done" => Len(added) = sent

\* What the program says of itself (README.md:14): it gets the ips of other nodes
\* by addr.  So each address that is added is one that the peer listed.
AddrsGenuine ==
  \A k \in 1 .. Len(added) : \E j \in 1 .. sent : added[k] = Sent(j)
===============================================================================
