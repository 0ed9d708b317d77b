------------------------------ MODULE Primitives ------------------------------
(***************************************************************************)
(* The lowest level of the serialisation (byteswap.h, endian.h, the first  *)
(* part of serialize.h): integers, which a host keeps in its memory from   *)
(* the lowest byte to the highest (little) or the other way round (big),   *)
(* and which have one order on the wire; and the compact size of a string. *)
(*                                                                         *)
(* An integer is the sequence of its bytes, the lowest first.              *)
(***************************************************************************)
EXTENDS Naturals, Sequences

Hosts == {"little", "big"}
Byte == 0 .. 255
Word(size) == [1 .. size -> Byte]

Zeros(size) == [i \in 1 .. size |-> 0]

-------------------------------------------------------------------------------
(* Order of bytes. *)

\* bswap_16, bswap_32, bswap_64.
bswap(x) == [i \in 1 .. Len(x) |-> x[Len(x) + 1 - i]]

\* An integer as the memory of a host holds it, and the integer of such a memory.
Memory(host, x) == IF host = "little" THEN x ELSE bswap(x)

\* WORDS_BIGENDIAN: htobe and betoh, htole and letoh, of each width.
OnBigHost(order, x) == IF order = "big" THEN x ELSE bswap(x)

\* And the other branch.
OnLittleHost(order, x) == IF order = "little" THEN x ELSE bswap(x)

Convert(host, order, x) ==
  IF host = "big" THEN OnBigHost(order, x) ELSE OnLittleHost(order, x)

\* ser_writedata8 to 64 and, for order "big", ser_writedata16be: what they write.
ser_writedata(host, order, x) == Memory(host, Convert(host, order, x))

\* ser_readdata: the integer made of the bytes that were read.
ser_readdata(host, order, bytes) == Convert(host, order, Memory(host, bytes))

-------------------------------------------------------------------------------
(* Compact sizes. *)

MAX_SIZE == 33554432

\* The uint16_t and the uint32_t of a number, and the number of one.
Word16(n) == <<n % 256, n \div 256>>
Word32(n) ==
  <<n % 256, (n \div 256) % 256, (n \div 65536) % 256, (n \div 16777216) % 256>>
Value16(x) == x[1] + 256 * x[2]
Value32(x) == x[1] + 256 * x[2] + 65536 * x[3] + 16777216 * x[4]

\* For a size of at most 2^32 - 1; nine bytes are written of no string there is.
WriteCompactSize(host, n) ==
  IF n < 253 THEN <<n>>
  ELSE IF n <= 65535 THEN <<253>> \o ser_writedata(host, "little", Word16(n))
  ELSE <<254>> \o ser_writedata(host, "little", Word32(n))

\* How many bytes follow the first one.
SizeWidth(first) ==
  IF first < 253 THEN 0 ELSE IF first = 253 THEN 2 ELSE IF first = 254 THEN 4 ELSE 8

\* The size of the first byte and the integer that follows.
CompactValue(first, x) ==
  IF first < 253 THEN first ELSE IF first = 253 THEN Value16(x) ELSE Value32(x)

\* Mutant of Accepted: 253 itself has to be written in one byte.
Accepted_OffByOne(first, x) ==
  /\ first < 255
  /\ first = 253 => CompactValue(first, x) > 253
  /\ first = 254 => CompactValue(first, x) >= 65536
  /\ CompactValue(first, x) <= MAX_SIZE

\* No exception: the size has no shorter form and is at most MAX_SIZE.  One of
\* eight bytes is either below 2^32, which has a shorter form, or too large.
Accepted(first, x) ==
  /\ first < 255
  /\ first = 253 => CompactValue(first, x) >= 253
  /\ first = 254 => CompactValue(first, x) >= 65536
  /\ CompactValue(first, x) <= MAX_SIZE
===============================================================================
