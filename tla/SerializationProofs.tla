-------------------------- MODULE SerializationProofs --------------------------
(***************************************************************************)
(* Proofs about Primitives and Serialization, for every choice of payloads,*)
(* names, magic number, checksum, leftovers, and what follows a message.   *)
(***************************************************************************)
EXTENDS Serialization, SequenceLemmas

-------------------------------------------------------------------------------
(* Integers. *)

Orders == {"little", "big"}

\* Bytes in the other order are bytes, and again the old ones if swapped twice.
LEMMA Swap ==
  ASSUME NEW x \in Seq(Byte)
  PROVE  bswap(x) \in Seq(Byte) /\ Len(bswap(x)) = Len(x) /\ bswap(bswap(x)) = x
<1> DEFINE n == Len(x)
           y == bswap(x)
<1>1. n \in Nat /\ x \in [1 .. n -> Byte]
  BY LenProperties
<1>2. y = [i \in 1 .. n |-> x[n + 1 - i]]
  BY DEF bswap
<1>3. y \in [1 .. n -> Byte]
  BY <1>1, <1>2
<1> HIDE DEF y, n
<1>4. y \in Seq(Byte)
  BY <1>1, <1>3, SeqDef
<1>5. Len(y) = n
  BY <1>1, <1>3, <1>4, LenProperties
<1>6. bswap(y) = [i \in 1 .. n |-> y[n + 1 - i]]
  BY <1>5 DEF bswap
<1>7. \A i \in 1 .. n : y[n + 1 - i] = x[i]
  BY <1>1, <1>2
<1>8. bswap(y) = x
  BY <1>1, <1>6, <1>7
<1>9. QED BY <1>4, <1>5, <1>8 DEF y, n

LEMMA Converted ==
  ASSUME NEW host \in Hosts, NEW order \in Orders, NEW x \in Seq(Byte)
  PROVE  /\ Memory(host, x) \in Seq(Byte) /\ Len(Memory(host, x)) = Len(x)
         /\ Convert(host, order, x) \in Seq(Byte)
         /\ Len(Convert(host, order, x)) = Len(x)
BY Swap DEF Memory, Convert, OnBigHost, OnLittleHost

\* ser_writedata puts an integer on the wire in the order asked for, whatever the
\* order of the host that writes it: htole and htobe undo what its memory does.
THEOREM WireOrder ==
  ASSUME NEW host \in Hosts, NEW x \in Seq(Byte)
  PROVE  /\ ser_writedata(host, "little", x) = x
         /\ ser_writedata(host, "big", x) = bswap(x)
BY Swap DEF Hosts, ser_writedata, Memory, Convert, OnBigHost, OnLittleHost

\* ser_readdata gets the integer that ser_writedata was given, of any width,
\* between hosts of any two orders.
THEOREM IntegerRoundTrip ==
  ASSUME NEW writing \in Hosts, NEW reading \in Hosts, NEW order \in Orders,
         NEW x \in Seq(Byte)
  PROVE  ser_readdata(reading, order, ser_writedata(writing, order, x)) = x
<1>1. CASE order = "little"
  <2>1. ser_writedata(writing, order, x) = x
    BY <1>1, WireOrder
  <2>2. ser_readdata(reading, order, x) = x
    BY <1>1, Swap DEF Hosts, ser_readdata, Memory, Convert, OnBigHost, OnLittleHost
  <2>3. QED BY <2>1, <2>2
<1>2. CASE order = "big"
  <2>1. ser_writedata(writing, order, x) = bswap(x)
    BY <1>2, WireOrder
  <2>2. ser_readdata(reading, order, bswap(x)) = x
    BY <1>2, Swap DEF Hosts, ser_readdata, Memory, Convert, OnBigHost, OnLittleHost
  <2>3. QED BY <2>1, <2>2
<1>3. QED BY <1>1, <1>2 DEF Orders

-------------------------------------------------------------------------------
(* Compact sizes. *)

LEMMA Words ==
  ASSUME NEW n \in Nat
  PROVE  /\ Word32(n) \in Seq(Byte) /\ Len(Word32(n)) = 4
         /\ n < 4294967296 => Value32(Word32(n)) = n
         /\ n <= 65535 => /\ Word16(n) \in Seq(Byte) /\ Len(Word16(n)) = 2
                          /\ Value16(Word16(n)) = n
<1>1. /\ n % 256 \in Byte /\ (n \div 256) % 256 \in Byte
      /\ (n \div 65536) % 256 \in Byte /\ (n \div 16777216) % 256 \in Byte
  BY DEF Byte
<1>2. Word32(n) \in Seq(Byte) /\ Len(Word32(n)) = 4
  BY <1>1 DEF Word32
<1>3. ASSUME n < 4294967296 PROVE Value32(Word32(n)) = n
  <2>1. n \div 16777216 >= 0 /\ n \div 16777216 < 256
    BY <1>3
  <2>2. (n \div 16777216) % 256 = n \div 16777216
    BY <2>1
  <2>3. n = (n % 256) + 256 * (n \div 256)
    OBVIOUS
  <2>4. n \div 256 = ((n \div 256) % 256) + 256 * (n \div 65536)
    OBVIOUS
  <2>5. n \div 65536 = ((n \div 65536) % 256) + 256 * (n \div 16777216)
    OBVIOUS
  <2>6. QED BY <2>2, <2>3, <2>4, <2>5 DEF Word32, Value32
<1>4. ASSUME n <= 65535
      PROVE  Word16(n) \in Seq(Byte) /\ Len(Word16(n)) = 2 /\ Value16(Word16(n)) = n
  <2>1. n \div 256 \in Byte
    BY <1>4 DEF Byte
  <2>2. QED BY <1>1, <2>1 DEF Word16, Value16
<1>5. QED BY <1>2, <1>3, <1>4

\* What WriteCompactSize writes of a size a string may have, ReadCompactSize
\* accepts, and it reads that size, at every boundary between the three forms and
\* between hosts of any two orders.
THEOREM SizeRoundTrip ==
  ASSUME NEW writing \in Hosts, NEW reading \in Hosts,
         NEW n \in Nat, n <= MAX_SIZE
  PROVE  LET size == WriteCompactSize(writing, n)
             rest == ser_readdata(reading, "little", SubSeq(size, 2, Len(size)))
         IN /\ size \in Seq(Byte)
            /\ Len(size) = 1 + SizeWidth(size[1])
            /\ Accepted(size[1], rest)
            /\ CompactValue(size[1], rest) = n
<1> DEFINE size == WriteCompactSize(writing, n)
           rest == ser_readdata(reading, "little", SubSeq(size, 2, Len(size)))
<1> DEFINE Read == /\ size \in Seq(Byte)
                   /\ Len(size) = 1 + SizeWidth(size[1])
                   /\ Accepted(size[1], rest)
                   /\ CompactValue(size[1], rest) = n
<1> SUFFICES Read
  OBVIOUS
<1>1. n \in Nat /\ n <= MAX_SIZE
  OBVIOUS
<1>2. CASE n < 253
  <2>1. size = <<n>> /\ n \in Byte
    BY <1>1, <1>2 DEF WriteCompactSize, Byte
  <2> HIDE DEF size, rest
  <2>2. size \in Seq(Byte) /\ Len(size) = 1 /\ size[1] = n
    BY <2>1
  <2>3. QED BY <1>1, <1>2, <2>2 DEF Accepted, CompactValue, SizeWidth
<1>3. ASSUME NEW tag \in Byte, NEW word \in Seq(Byte),
             size = <<tag>> \o ser_writedata(writing, "little", word)
      PROVE  size \in Seq(Byte) /\ Len(size) = 1 + Len(word) /\ size[1] = tag /\ rest = word
  <2>1. ser_writedata(writing, "little", word) = word
    BY WireOrder
  <2>2. size = <<tag>> \o word /\ <<tag>> \in Seq(Byte) /\ Len(<<tag>>) = 1
    BY <1>3, <2>1
  <2>3. Len(word) \in Nat
    BY LenProperties
  <2> HIDE DEF size
  <2>4. /\ size \in Seq(Byte) /\ Len(size) = 1 + Len(word)
        /\ \A i \in 1 .. 1 + Len(word) : size[i] = IF i <= 1 THEN <<tag>>[i] ELSE word[i - 1]
    BY <2>2, <2>3, ConcatProperties
  <2>5. SubSeq(size, 2, Len(size)) = word
    <3>1. \A i \in 2 .. Len(size) : size[i] \in Byte
      BY <2>4, ElementOfSeq
    <3>2. /\ SubSeq(size, 2, Len(size)) \in Seq(Byte)
          /\ Len(SubSeq(size, 2, Len(size))) = Len(word)
          /\ \A i \in 1 .. Len(word) : SubSeq(size, 2, Len(size))[i] = size[i + 1]
      BY <2>3, <2>4, <3>1, SubSeqProperties
    <3>3. \A i \in 1 .. Len(word) : size[i + 1] = word[i]
      BY <2>3, <2>4
    <3>4. QED BY <3>2, <3>3, SeqEqual
  <2>6. rest = word
    <3>1. rest = ser_readdata(reading, "little", ser_writedata(writing, "little", word))
      BY <2>1, <2>5
    <3>2. QED BY <3>1, IntegerRoundTrip DEF Orders
  <2>7. QED BY <2>3, <2>4, <2>6
<1>4. CASE n >= 253 /\ n <= 65535
  <2>1. /\ Word16(n) \in Seq(Byte) /\ Len(Word16(n)) = 2 /\ Value16(Word16(n)) = n
    BY <1>1, <1>4, Words
  <2>2. size = <<253>> \o ser_writedata(writing, "little", Word16(n))
    BY <1>1, <1>4 DEF WriteCompactSize
  <2> HIDE DEF size, rest
  <2>3. size \in Seq(Byte) /\ Len(size) = 3 /\ size[1] = 253 /\ rest = Word16(n)
    <3>1. 253 \in Byte /\ Word16(n) \in Seq(Byte)
      BY <2>1 DEF Byte
    <3>2. /\ size \in Seq(Byte) /\ Len(size) = 1 + Len(Word16(n))
          /\ size[1] = 253 /\ rest = Word16(n)
      BY <1>3, <2>2, <3>1
    <3>3. QED BY <2>1, <3>2
  <2>4. CompactValue(253, Word16(n)) = n /\ SizeWidth(253) = 2
    BY <2>1 DEF CompactValue, SizeWidth
  <2>5. Accepted(253, Word16(n))
    BY <1>1, <1>4, <2>4 DEF Accepted
  <2>6. QED BY <2>3, <2>4, <2>5
<1>5. CASE n > 65535
  <2>0. n < 4294967296
    BY <1>1 DEF MAX_SIZE
  <2>1. /\ Word32(n) \in Seq(Byte) /\ Len(Word32(n)) = 4 /\ Value32(Word32(n)) = n
    BY <1>1, <2>0, Words
  <2>2. size = <<254>> \o ser_writedata(writing, "little", Word32(n))
    BY <1>1, <1>5 DEF WriteCompactSize
  <2> HIDE DEF size, rest
  <2>3. size \in Seq(Byte) /\ Len(size) = 5 /\ size[1] = 254 /\ rest = Word32(n)
    <3>1. 254 \in Byte /\ Word32(n) \in Seq(Byte)
      BY <2>1 DEF Byte
    <3>2. /\ size \in Seq(Byte) /\ Len(size) = 1 + Len(Word32(n))
          /\ size[1] = 254 /\ rest = Word32(n)
      BY <1>3, <2>2, <3>1
    <3>3. QED BY <2>1, <3>2
  <2>4. CompactValue(254, Word32(n)) = n /\ SizeWidth(254) = 4
    BY <2>1 DEF CompactValue, SizeWidth
  <2>5. Accepted(254, Word32(n))
    BY <1>1, <1>5, <2>4 DEF Accepted
  <2>6. QED BY <2>3, <2>4, <2>5
<1> HIDE DEF Read
<1>6. QED BY <1>1, <1>2, <1>4, <1>5

-------------------------------------------------------------------------------
(* What is written and read, and that it is bytes. *)

LEMMA Lists ==
  /\ HeaderFields \in Seq(Field)
  /\ \A c \in {"version", "nonce", "verack"} : \A v : PayloadFields(c, v) \in Seq(Field)
<1>1. HeaderFields \in Seq(Field)
  BY DEF HeaderFields, Field, Size
<1>2. ASSUME NEW v PROVE VersionFields(v) \in Seq(Field)
  <2> DEFINE a == <<"version", "services", "timestamp", "meServices", "meIp", "mePort">>
             b == IF v >= 106 THEN <<"youServices", "youIp", "youPort", "nonce",
                                     "user_agent", "start_height">> ELSE <<>>
             c == IF v >= 70001 THEN <<"relay">> ELSE <<>>
  <2>1. a \in Seq(Field)
    BY DEF Field, Size
  <2>2. b \in Seq(Field)
    <3>1. <<"youServices", "youIp", "youPort", "nonce", "user_agent", "start_height">>
            \in Seq(Field)
      BY DEF Field, Size
    <3>2. QED BY <3>1, EmptySeq
  <2>3. c \in Seq(Field)
    <3>1. <<"relay">> \in Seq(Field)
      BY DEF Field, Size
    <3>2. QED BY <3>1, EmptySeq
  <2>4. VersionFields(v) = a \o b \o c
    BY DEF VersionFields
  <2> HIDE DEF a, b, c
  <2>5. a \o b \in Seq(Field)
    BY <2>1, <2>2, ConcatProperties
  <2>6. (a \o b) \o c \in Seq(Field)
    BY <2>3, <2>5, ConcatProperties
  <2>7. QED BY <2>4, <2>6
<1>3. <<"nonce">> \in Seq(Field)
  BY DEF Field, Size
<1>4. QED BY <1>1, <1>2, <1>3, EmptySeq DEF PayloadFields

LEMMA SizeBytes ==
  ASSUME NEW host \in Hosts, NEW n \in Nat
  PROVE  WriteCompactSize(host, n) \in Seq(Byte)
<1>1. CASE n < 253
  <2>1. n \in Byte
    BY <1>1 DEF Byte
  <2>2. QED BY <1>1, <2>1 DEF WriteCompactSize
<1>2. ASSUME NEW tag \in Byte, NEW word \in Seq(Byte)
      PROVE  <<tag>> \o ser_writedata(host, "little", word) \in Seq(Byte)
  <2>1. <<tag>> \in Seq(Byte) /\ ser_writedata(host, "little", word) = word
    BY WireOrder
  <2>2. QED BY <2>1, ConcatProperties
<1>3. 253 \in Byte /\ 254 \in Byte
  BY DEF Byte
<1>4. CASE n >= 253 /\ n <= 65535
  <2>1. Word16(n) \in Seq(Byte)
    BY <1>4, Words
  <2>2. WriteCompactSize(host, n) = <<253>> \o ser_writedata(host, "little", Word16(n))
    BY <1>4 DEF WriteCompactSize
  <2>3. QED BY <1>2, <1>3, <2>1, <2>2
<1>5. CASE n > 65535
  <2>1. Word32(n) \in Seq(Byte)
    BY Words
  <2>2. WriteCompactSize(host, n) = <<254>> \o ser_writedata(host, "little", Word32(n))
    BY <1>5 DEF WriteCompactSize
  <2>3. QED BY <1>2, <1>3, <2>1, <2>2
<1>6. QED BY <1>1, <1>4, <1>5

LEMMA Serialized ==
  ASSUME NEW host \in Hosts, NEW f \in Field, NEW x \in Seq(Byte)
  PROVE  /\ Serialize(host, f, x) \in Seq(Byte)
         /\ Unserialize(host, f, x) \in Seq(Byte)
         /\ f # "user_agent" => /\ Len(Serialize(host, f, x)) = Len(x)
                                /\ Len(Unserialize(host, f, x)) = Len(x)
<1>1. OrderOf(f) \in Orders
  BY DEF OrderOf, Orders
<1>2. /\ ser_writedata(host, OrderOf(f), x) \in Seq(Byte)
      /\ Len(ser_writedata(host, OrderOf(f), x)) = Len(x)
      /\ ser_readdata(host, OrderOf(f), x) \in Seq(Byte)
      /\ Len(ser_readdata(host, OrderOf(f), x)) = Len(x)
  BY <1>1, Converted DEF ser_writedata, ser_readdata
<1>3. WriteCompactSize(host, Len(x)) \o x \in Seq(Byte)
  <2>1. Len(x) \in Nat
    BY LenProperties
  <2>2. WriteCompactSize(host, Len(x)) \in Seq(Byte)
    BY <2>1, SizeBytes
  <2>3. QED BY <2>2, ConcatProperties
<1>4. QED BY <1>2, <1>3 DEF Serialize, Unserialize

\* What Write leaves in the buffer.
LEMMA Written ==
  ASSUME NEW b \in Seq(Byte), NEW p \in 0 .. Len(b), NEW x \in Seq(Byte)
  PROVE  LET w == Write(b, p, x)
             n == IF p + Len(x) > Len(b) THEN p + Len(x) ELSE Len(b)
         IN /\ w \in Seq(Byte)
            /\ Len(w) = n
            /\ \A i \in 1 .. n :
                 w[i] = IF p < i /\ i <= p + Len(x) THEN x[i - p] ELSE b[i]
<1> DEFINE a == SubSeq(b, 1, p)
           c == SubSeq(b, p + Len(x) + 1, Len(b))
           n == IF p + Len(x) > Len(b) THEN p + Len(x) ELSE Len(b)
<1>1. Len(b) \in Nat /\ Len(x) \in Nat /\ p \in Nat /\ p <= Len(b)
  BY LenProperties
<1>2. \A i \in 1 .. Len(b) : b[i] \in Byte
  BY ElementOfSeq
<1>3. a \in Seq(Byte) /\ Len(a) = p /\ \A i \in 1 .. p : a[i] = b[i]
  BY <1>1, <1>2, SubSeqProperties
<1>4. /\ c \in Seq(Byte)
      /\ Len(c) = IF p + Len(x) + 1 <= Len(b) THEN Len(b) - p - Len(x) ELSE 0
      /\ \A i \in 1 .. Len(b) - p - Len(x) : c[i] = b[p + Len(x) + i]
  <2> DEFINE m == p + Len(x) + 1
  <2>1. m \in Int /\ Len(b) \in Int /\ \A i \in m .. Len(b) : b[i] \in Byte
    BY <1>1, <1>2
  <2>2. /\ SubSeq(b, m, Len(b)) \in Seq(Byte)
        /\ Len(SubSeq(b, m, Len(b))) = IF m <= Len(b) THEN Len(b) - m + 1 ELSE 0
        /\ \A i \in 1 .. Len(b) - m + 1 : SubSeq(b, m, Len(b))[i] = b[m + i - 1]
    BY <2>1, SubSeqProperties
  <2>3. QED BY <1>1, <2>2
<1>5. Write(b, p, x) = (a \o x) \o c
  BY DEF Write
<1> HIDE DEF a, c
<1> DEFINE d == a \o x
<1>6. /\ d \in Seq(Byte) /\ Len(d) = p + Len(x)
      /\ \A i \in 1 .. p + Len(x) : d[i] = IF i <= p THEN a[i] ELSE x[i - p]
  BY <1>3, ConcatProperties
<1> HIDE DEF d
<1>7. /\ d \o c \in Seq(Byte) /\ Len(d \o c) = Len(d) + Len(c)
      /\ \A i \in 1 .. Len(d) + Len(c) :
           (d \o c)[i] = IF i <= Len(d) THEN d[i] ELSE c[i - Len(d)]
  BY <1>4, <1>6, ConcatProperties
<1>8. Len(d) + Len(c) = n
  <2>1. CASE p + Len(x) < Len(b)
    <3>1. Len(c) = Len(b) - p - Len(x) /\ n = Len(b)
      BY <1>1, <1>4, <2>1
    <3>2. QED BY <1>1, <1>6, <3>1
  <2>2. CASE p + Len(x) >= Len(b)
    <3>1. ~(p + Len(x) + 1 <= Len(b))
      BY <1>1, <2>2
    <3>2. Len(c) = 0
      BY <1>4, <3>1
    <3>3. n = p + Len(x)
      BY <1>1, <2>2
    <3>4. QED BY <1>1, <1>6, <3>2, <3>3
  <2>3. QED BY <1>1, <2>1, <2>2
<1>9. \A i \in 1 .. n :
        (d \o c)[i] = IF p < i /\ i <= p + Len(x) THEN x[i - p] ELSE b[i]
  <2> TAKE i \in 1 .. n
  <2>1. i \in Nat /\ i >= 1 /\ i <= Len(d) + Len(c)
    BY <1>8, <1>1
  <2>2. CASE i <= p
    BY <1>1, <1>3, <1>6, <1>7, <2>1, <2>2
  <2>3. CASE p < i /\ i <= p + Len(x)
    BY <1>1, <1>6, <1>7, <2>1, <2>3
  <2>4. CASE i > p + Len(x)
    <3>1. (d \o c)[i] = c[i - Len(d)]
      BY <1>1, <1>6, <1>7, <2>1, <2>4
    <3>2. i - Len(d) \in 1 .. Len(b) - p - Len(x)
      BY <1>1, <1>4, <1>6, <2>1, <2>4
    <3>3. c[i - Len(d)] = b[p + Len(x) + (i - Len(d))]
      BY <1>4, <3>2
    <3>4. p + Len(x) + (i - Len(d)) = i
      BY <1>1, <1>6, <2>1
    <3>5. QED BY <1>1, <2>1, <2>4, <3>1, <3>3, <3>4
  <2>5. QED BY <1>1, <2>1, <2>2, <2>3, <2>4
<1>10. /\ d \o c \in Seq(Byte)
       /\ Len(d \o c) = n
       /\ \A i \in 1 .. n :
            (d \o c)[i] = IF p < i /\ i <= p + Len(x) THEN x[i - p] ELSE b[i]
  BY <1>7, <1>8, <1>9
<1>11. QED BY <1>5, <1>10 DEF d

\* What read takes from the buffer; of state, as buffer is.
LEMMA Taken ==
  ASSUME buffer \in Seq(Byte), NEW p \in 0 .. Len(buffer), NEW n \in Nat
  PROVE  LET r == read(p, n)
         IN /\ r.bytes \in Seq(Byte) /\ Len(r.bytes) = n
            /\ r.next \in 0 .. Len(buffer)
            /\ p + n <= Len(buffer) => /\ r.next = p + n
                                       /\ \A i \in 1 .. n : r.bytes[i] = buffer[p + i]
<1>1. Len(buffer) \in Nat /\ p \in Nat /\ p <= Len(buffer)
  BY LenProperties
<1>2. CASE p + n > Len(buffer)
  <2>1. Zeros(n) \in [1 .. n -> Byte]
    BY DEF Zeros, Byte
  <2>2. Zeros(n) \in Seq(Byte)
    BY <2>1, SeqDef
  <2>3. Len(Zeros(n)) = n
    BY <2>1, <2>2, LenProperties
  <2>4. read(p, n) = [bytes |-> Zeros(n), next |-> Len(buffer)]
    BY <1>2 DEF read
  <2>5. QED BY <1>1, <1>2, <2>2, <2>3, <2>4
<1>3. CASE p + n <= Len(buffer)
  <2> DEFINE m == p + 1
             k == p + n
             x == SubSeq(buffer, m, k)
  <2>1. m \in Int /\ k \in Int /\ \A i \in m .. k : buffer[i] \in Byte
    <3>1. \A i \in m .. k : i \in 1 .. Len(buffer)
      BY <1>1, <1>3
    <3>2. QED BY <1>1, <3>1, ElementOfSeq
  <2>2. /\ x \in Seq(Byte)
        /\ Len(x) = IF m <= k THEN k - m + 1 ELSE 0
        /\ \A i \in 1 .. k - m + 1 : x[i] = buffer[m + i - 1]
    BY <2>1, SubSeqProperties
  <2>3. Len(x) = n
    BY <1>1, <2>2
  <2>4. \A i \in 1 .. n : x[i] = buffer[p + i]
    BY <1>1, <2>2
  <2>5. read(p, n) = [bytes |-> x, next |-> k]
    BY <1>1, <1>3 DEF read
  <2> HIDE DEF x
  <2>6. QED BY <1>1, <1>3, <2>2, <2>3, <2>4, <2>5
<1>4. QED BY <1>1, <1>2, <1>3

\* The parts of the size of the agent.
LEMMA AgentSizeBytes ==
  ASSUME buffer \in Seq(Byte), pos \in 0 .. Len(buffer), reader \in Hosts
  PROVE  LET first == AgentSize.first
         IN /\ first \in Byte
            /\ AgentSize.rest \in Seq(Byte)
            /\ Len(AgentSize.rest) = SizeWidth(first)
            /\ AgentSize.next \in 0 .. Len(buffer)
            /\ first < 255 => CompactValue(first, AgentSize.rest) \in Nat
<1> DEFINE r == read(pos, 1)
           first == r.bytes[1]
           more == read(r.next, SizeWidth(first))
           rest == ser_readdata(reader, "little", more.bytes)
<1>1. r.bytes \in Seq(Byte) /\ Len(r.bytes) = 1 /\ r.next \in 0 .. Len(buffer)
  BY Taken
<1> HIDE DEF r
<1>2. first \in Byte
  BY <1>1, ElementOfSeq
<1> HIDE DEF first
<1>3. SizeWidth(first) \in Nat
  BY DEF SizeWidth
<1>4. /\ more.bytes \in Seq(Byte) /\ Len(more.bytes) = SizeWidth(first)
      /\ more.next \in 0 .. Len(buffer)
  BY <1>1, <1>3, Taken
<1> HIDE DEF more
<1>5. rest \in Seq(Byte) /\ Len(rest) = SizeWidth(first)
  <2>1. Memory(reader, more.bytes) \in Seq(Byte)
        /\ Len(Memory(reader, more.bytes)) = SizeWidth(first)
    BY <1>4, Converted DEF Orders
  <2>2. QED BY <2>1, Converted DEF ser_readdata, Orders
<1> HIDE DEF rest
<1>6. ASSUME first < 255 PROVE CompactValue(first, rest) \in Nat
  <2>1. CASE first < 253
    BY <1>2, <2>1 DEF CompactValue, Byte
  <2>2. \A i \in 1 .. Len(rest) : rest[i] \in Nat
    <3>1. \A i \in 1 .. Len(rest) : rest[i] \in Byte
      BY <1>5, ElementOfSeq
    <3>2. Byte \subseteq Nat
      BY DEF Byte
    <3>3. QED BY <3>1, <3>2
  <2>3. CASE first = 253
    <3>1. Len(rest) = 2
      BY <1>5, <2>3 DEF SizeWidth
    <3>2. rest[1] \in Nat /\ rest[2] \in Nat
      BY <2>2, <3>1
    <3>3. Value16(rest) \in Nat
      BY <3>2 DEF Value16
    <3>4. QED BY <2>3, <3>3 DEF CompactValue
  <2>4. CASE first = 254
    <3>1. Len(rest) = 4
      BY <1>5, <2>4 DEF SizeWidth
    <3>2. rest[1] \in Nat /\ rest[2] \in Nat /\ rest[3] \in Nat /\ rest[4] \in Nat
      BY <2>2, <3>1
    <3>3. Value32(rest) \in Nat
      <4> DEFINE a == rest[1]
                 b == rest[2]
                 c == rest[3]
                 d == rest[4]
      <4>1. Value32(rest) = a + 256 * b + 65536 * c + 16777216 * d
        BY DEF Value32
      <4>2. a \in Nat /\ b \in Nat /\ c \in Nat /\ d \in Nat
        BY <3>2
      <4> HIDE DEF a, b, c, d
      <4>3. QED BY <4>1, <4>2
    <3>4. QED BY <2>4, <3>3 DEF CompactValue
  <2>5. QED BY <1>2, <1>6, <2>1, <2>3, <2>4 DEF Byte
<1>7. AgentSize = [first |-> first, next |-> more.next, rest |-> rest]
  BY DEF AgentSize, r, first, more, rest
<1>8. QED BY <1>2, <1>4, <1>5, <1>6, <1>7

-------------------------------------------------------------------------------
(* Where the fields of a message are. *)

VersionTable ==
  <<"version", "services", "timestamp", "meServices", "meIp", "mePort",
    "youServices", "youIp", "youPort", "nonce", "user_agent", "start_height", "relay">>

LEMMA VersionList ==
  ASSUME NEW v \in Int
  PROVE  /\ Len(VersionFields(v)) \in {6, 12, 13}
         /\ v >= 106 => Len(VersionFields(v)) >= 12
         /\ \A i \in 1 .. Len(VersionFields(v)) : VersionFields(v)[i] = VersionTable[i]
<1> DEFINE a == <<"version", "services", "timestamp", "meServices", "meIp", "mePort">>
           b == IF v >= 106 THEN <<"youServices", "youIp", "youPort", "nonce",
                                   "user_agent", "start_height">> ELSE <<>>
           c == IF v >= 70001 THEN <<"relay">> ELSE <<>>
           T == VersionTable
<1>1. a \in Seq(Field) /\ Len(a) = 6 /\ \A i \in 1 .. 6 : a[i] = T[i]
  <2>1. a \in Seq(Field) /\ Len(a) = 6
    BY DEF Field, Size
  <2>2. /\ a[1] = T[1] /\ a[2] = T[2] /\ a[3] = T[3]
        /\ a[4] = T[4] /\ a[5] = T[5] /\ a[6] = T[6]
    BY DEF VersionTable
  <2>3. \A i \in 1 .. 6 : i \in {1, 2, 3, 4, 5, 6}
    OBVIOUS
  <2> HIDE DEF a, T
  <2>4. QED BY <2>1, <2>2, <2>3
<1>2. /\ b \in Seq(Field)
      /\ Len(b) = IF v >= 106 THEN 6 ELSE 0
      /\ \A i \in 1 .. Len(b) : b[i] = T[6 + i]
  <2> DEFINE e == <<"youServices", "youIp", "youPort", "nonce", "user_agent", "start_height">>
  <2>1. e \in Seq(Field) /\ Len(e) = 6
    BY DEF Field, Size
  <2>2. /\ e[1] = T[7] /\ e[2] = T[8] /\ e[3] = T[9]
        /\ e[4] = T[10] /\ e[5] = T[11] /\ e[6] = T[12]
    BY DEF VersionTable
  <2>3. \A i \in 1 .. 6 : i \in {1, 2, 3, 4, 5, 6}
    OBVIOUS
  <2>4. b = IF v >= 106 THEN e ELSE <<>>
    OBVIOUS
  <2> HIDE DEF b, e, T
  <2>5. \A i \in 1 .. 6 : e[i] = T[6 + i]
    BY <2>2, <2>3
  <2>6. CASE v >= 106
    BY <2>1, <2>4, <2>5, <2>6
  <2>7. CASE ~(v >= 106)
    BY <2>4, <2>7, EmptySeq
  <2>8. QED BY <2>6, <2>7
<1>3. /\ c \in Seq(Field)
      /\ Len(c) = IF v >= 70001 THEN 1 ELSE 0
      /\ \A i \in 1 .. Len(c) : c[i] = T[12 + i]
  <2>1. T[13] = "relay"
    BY DEF VersionTable
  <2> HIDE DEF T
  <2>2. CASE v >= 70001
    <3>1. c = <<"relay">> /\ "relay" \in Field
      BY <2>2 DEF Field, Size
    <3> HIDE DEF c
    <3>2. c \in Seq(Field) /\ Len(c) = 1 /\ c[1] = T[13]
      BY <2>1, <3>1
    <3>3. \A i \in 1 .. 1 : i = 1
      OBVIOUS
    <3>4. QED BY <2>2, <3>2, <3>3
  <2>3. CASE ~(v >= 70001)
    <3>1. c = <<>>
      BY <2>3
    <3> HIDE DEF c
    <3>2. QED BY <2>3, <3>1, EmptySeq
  <2>4. QED BY <2>2, <2>3
<1>4. VersionFields(v) = (a \o b) \o c
  BY DEF VersionFields
<1> HIDE DEF a, b, c, T
<1> DEFINE d == a \o b
<1>5. /\ d \in Seq(Field) /\ Len(d) = Len(a) + Len(b)
      /\ \A i \in 1 .. Len(a) + Len(b) : d[i] = IF i <= Len(a) THEN a[i] ELSE b[i - Len(a)]
  BY <1>1, <1>2, ConcatProperties
<1>6. \A i \in 1 .. Len(d) : d[i] = T[i]
  <2> TAKE i \in 1 .. Len(d)
  <2>1. CASE i <= 6
    BY <1>1, <1>2, <1>5, <2>1
  <2>2. CASE i > 6
    <3>1. i - 6 \in 1 .. Len(b) /\ 6 + (i - 6) = i
      BY <1>1, <1>2, <1>5, <2>2
    <3>2. d[i] = b[i - 6]
      BY <1>1, <1>2, <1>5, <2>2
    <3>3. b[i - 6] = T[6 + (i - 6)]
      BY <1>2, <3>1
    <3>4. QED BY <3>1, <3>2, <3>3
  <2>3. QED BY <1>1, <1>2, <1>5, <2>1, <2>2
<1> HIDE DEF d
<1>7. /\ d \o c \in Seq(Field) /\ Len(d \o c) = Len(d) + Len(c)
      /\ \A i \in 1 .. Len(d) + Len(c) :
           (d \o c)[i] = IF i <= Len(d) THEN d[i] ELSE c[i - Len(d)]
  BY <1>3, <1>5, ConcatProperties
<1>8. /\ Len(d) \in {6, 12} /\ Len(c) \in {0, 1}
      /\ v >= 106 => Len(d) = 12
      /\ Len(c) = 1 => Len(d) = 12
  BY <1>1, <1>2, <1>3, <1>5
<1>9. \A i \in 1 .. Len(d) + Len(c) : (d \o c)[i] = T[i]
  <2> TAKE i \in 1 .. Len(d) + Len(c)
  <2>1. CASE i <= Len(d)
    BY <1>6, <1>7, <1>8, <2>1
  <2>2. CASE i > Len(d)
    <3>1. Len(d) = 12 /\ Len(c) = 1 /\ i = 13
      <4>1. Len(d) \in Nat /\ Len(c) \in Nat /\ i \in Nat /\ i <= Len(d) + Len(c)
        BY <1>8
      <4>2. Len(c) = 1
        BY <1>8, <2>2, <4>1
      <4>3. Len(d) = 12
        BY <1>8, <4>2
      <4>4. QED BY <2>2, <4>1, <4>2, <4>3
    <3>2. c[1] = T[12 + 1]
      BY <1>3, <3>1
    <3>3. 13 \in 1 .. Len(d) + Len(c) /\ ~(13 <= Len(d)) /\ 13 - Len(d) = 1
      BY <3>1
    <3>4. (d \o c)[13] = c[13 - Len(d)]
      BY <1>7, <3>3
    <3>5. 12 + 1 = 13
      OBVIOUS
    <3>6. QED BY <3>1, <3>2, <3>3, <3>4, <3>5
  <2>3. QED BY <1>8, <2>1, <2>2
<1>10. VersionFields(v) = d \o c /\ Len(VersionFields(v)) = Len(d) + Len(c)
  BY <1>4, <1>7 DEF d
<1>11. Len(VersionFields(v)) \in {6, 12, 13}
  <2>1. CASE Len(c) = 0
    BY <1>8, <1>10, <2>1
  <2>2. CASE Len(c) = 1
    <3>1. Len(d) = 12
      BY <1>8, <2>2
    <3>2. Len(VersionFields(v)) = 12 + 1
      BY <1>10, <2>2, <3>1
    <3>3. QED BY <3>2
  <2>3. QED BY <1>8, <2>1, <2>2
<1>12. v >= 106 => Len(VersionFields(v)) >= 12
  <2>1. CASE Len(c) = 0
    BY <1>8, <1>10, <2>1
  <2>2. CASE Len(c) = 1
    <3>1. Len(d) = 12
      BY <1>8, <2>2
    <3>2. Len(VersionFields(v)) = 12 + 1
      BY <1>10, <2>2, <3>1
    <3>3. QED BY <3>2
  <2>3. QED BY <1>8, <2>1, <2>2
<1>13. \A i \in 1 .. Len(VersionFields(v)) : VersionFields(v)[i] = T[i]
  BY <1>9, <1>10
<1>14. QED BY <1>11, <1>12, <1>13 DEF T

M == MessageFields
MsgLen == Len(MessageFields)
V == GetVersion(fields["version"])
F == PayloadFields(cmd, V)

AgentWidth == Len(Serialize(writer, "user_agent", fields["user_agent"]))

\* The offset of each field, and of the end of the message.
Offset ==
  IF cmd = "nonce" THEN <<0, 4, 16, 20, 24, 32>>
  ELSE <<0, 4, 16, 20, 24, 28, 36, 44, 52, 68, 70, 78, 94, 96, 104,
         104 + AgentWidth, 108 + AgentWidth, 109 + AgentWidth>>

Width(i) == IF M[i] = "user_agent" THEN AgentWidth ELSE Size[M[i]]

Sizes ==
  /\ \A f \in DOMAIN Size : Len(fields[f]) = Size[f]
  /\ Len(fields["user_agent"]) <= MAX_SIZE

State == cmd \in {"version", "nonce", "verack"} /\ fields \in [Field -> Seq(Byte)]
           /\ writer \in Hosts /\ Sizes

LEMMA FieldsOfMessage ==
  ASSUME State
  PROVE  /\ V \in Int
         /\ M \in Seq(Field)
         /\ F \in Seq(Field) /\ Len(F) = MsgLen - 4
         /\ \A i \in 1 .. 4 : M[i] = HeaderFields[i]
         /\ \A i \in 1 .. MsgLen - 4 : M[4 + i] = F[i]
         /\ cmd = "verack" => MsgLen = 4
         /\ cmd = "nonce" => MsgLen = 5 /\ M[5] = "nonce"
         /\ cmd = "version" =>
              /\ MsgLen \in {10, 16, 17}
              /\ V >= 106 => MsgLen >= 16
              /\ \A i \in 5 .. MsgLen : M[i] = VersionTable[i - 4]
<1>1. V \in Int
  <2> DEFINE x == fields["version"]
             a == x[1]
             b == x[2]
             c == x[3]
             d == x[4]
  <2>1. x \in Seq(Byte) /\ Len(x) = 4
    <3>1. "version" \in DOMAIN Size /\ Size["version"] = 4 /\ "version" \in Field
      BY DEF Size, Field
    <3>2. QED BY <3>1 DEF State, Sizes
  <2>2. V = a + 256 * b + 65536 * c + 16777216 * (IF d < 128 THEN d ELSE d - 256)
    BY DEF V, GetVersion
  <2> HIDE DEF x
  <2>3. a \in Byte /\ b \in Byte /\ c \in Byte /\ d \in Byte
    BY <2>1, ElementOfSeq
  <2> HIDE DEF a, b, c, d
  <2>4. a \in Nat /\ b \in Nat /\ c \in Nat /\ d \in Nat
    BY <2>3 DEF Byte
  <2>5. QED BY <2>2, <2>4
<1>2. M = HeaderFields \o F
  BY DEF M, MessageFields, F, V
<1>3. HeaderFields \in Seq(Field) /\ Len(HeaderFields) = 4 /\ F \in Seq(Field)
  BY Lists DEF HeaderFields, F, State
<1> HIDE DEF F
<1>4. /\ M \in Seq(Field) /\ Len(M) = 4 + Len(F)
      /\ \A i \in 1 .. 4 + Len(F) : M[i] = IF i <= 4 THEN HeaderFields[i] ELSE F[i - 4]
  <2> DEFINE h == HeaderFields
  <2>1. h \in Seq(Field) /\ Len(h) = 4 /\ M = h \o F
    BY <1>2, <1>3
  <2> HIDE DEF h
  <2>2. /\ h \o F \in Seq(Field) /\ Len(h \o F) = Len(h) + Len(F)
        /\ \A i \in 1 .. Len(h) + Len(F) :
             (h \o F)[i] = IF i <= Len(h) THEN h[i] ELSE F[i - Len(h)]
    BY <1>3, <2>1, ConcatProperties
  <2>3. QED BY <2>1, <2>2 DEF h
<1>5. Len(F) \in Nat
  BY <1>3, LenProperties
<1>6. MsgLen = 4 + Len(F)
  BY <1>4 DEF MsgLen, M
<1>7. \A i \in 1 .. 4 : M[i] = HeaderFields[i]
  BY <1>4, <1>5
<1>8. \A i \in 1 .. MsgLen - 4 : M[4 + i] = F[i]
  <2> TAKE i \in 1 .. MsgLen - 4
  <2>1. 4 + i \in 1 .. 4 + Len(F) /\ ~(4 + i <= 4) /\ (4 + i) - 4 = i
    BY <1>5, <1>6
  <2>2. M[4 + i] = F[(4 + i) - 4]
    BY <1>4, <2>1
  <2>3. QED BY <2>1, <2>2
<1>9. cmd = "verack" => Len(F) = 0
  BY EmptySeq DEF F, PayloadFields
<1>10. cmd = "nonce" => Len(F) = 1 /\ F[1] = "nonce"
  BY DEF F, PayloadFields
<1>11. cmd = "version" => /\ Len(F) \in {6, 12, 13}
                          /\ V >= 106 => Len(F) >= 12
                          /\ \A i \in 1 .. Len(F) : F[i] = VersionTable[i]
  <2>1. cmd = "version" => F = VersionFields(V)
    BY DEF F, PayloadFields
  <2>2. QED BY <1>1, <2>1, VersionList
<1>12. ASSUME cmd = "version", NEW i \in 5 .. MsgLen PROVE M[i] = VersionTable[i - 4]
  <2>1. i - 4 \in 1 .. MsgLen - 4 /\ 4 + (i - 4) = i
    BY <1>5, <1>6
  <2>2. M[i] = F[i - 4]
    BY <1>8, <2>1
  <2>3. QED BY <1>6, <1>5, <1>11, <1>12, <2>1, <2>2
<1>13. cmd = "nonce" => M[5] = "nonce"
  <2>1. cmd = "nonce" => 1 \in 1 .. MsgLen - 4
    BY <1>6, <1>10
  <2>2. cmd = "nonce" => M[4 + 1] = F[1]
    BY <1>8, <2>1
  <2>3. 4 + 1 = 5
    OBVIOUS
  <2>4. QED BY <1>10, <2>2, <2>3
<1>14. /\ Len(F) = MsgLen - 4
       /\ cmd = "verack" => MsgLen = 4
       /\ cmd = "nonce" => MsgLen = 5
       /\ cmd = "version" => /\ MsgLen \in {10, 16, 17}
                             /\ V >= 106 => MsgLen >= 16
  <2> DEFINE k == Len(F)
  <2>1. k \in Nat /\ MsgLen = 4 + k
    BY <1>5, <1>6
  <2>2. cmd = "version" => k \in {6, 12, 13} /\ (V >= 106 => k >= 12)
    BY <1>11
  <2>3. (cmd = "verack" => k = 0) /\ (cmd = "nonce" => k = 1)
    BY <1>9, <1>10
  <2> HIDE DEF k
  <2>4. k = MsgLen - 4
    BY <2>1
  <2>5. cmd = "version" => MsgLen \in {10, 16, 17} /\ (V >= 106 => MsgLen >= 16)
    BY <2>1, <2>2
  <2>6. (cmd = "verack" => MsgLen = 4) /\ (cmd = "nonce" => MsgLen = 5)
    BY <2>1, <2>3
  <2>7. QED BY <2>4, <2>5, <2>6 DEF k
<1> HIDE DEF M, MsgLen, V
<1>15. QED BY <1>1, <1>3, <1>4, <1>7, <1>8, <1>12, <1>13, <1>14

\* Each field begins where the one before it ends.
LEMMA Layout ==
  ASSUME State
  PROVE  /\ MsgLen \in Nat /\ MsgLen >= 4
         /\ \A i \in 1 .. MsgLen : M[i] \in Field /\ Width(i) \in Nat
         /\ \A i \in 1 .. MsgLen + 1 : Offset[i] \in Nat
         /\ \A i \in 1 .. MsgLen : Offset[i + 1] = Offset[i] + Width(i)
         /\ Offset[1] = 0 /\ Offset[5] = 24
         /\ \A i, j \in 1 .. 5 : i <= j => Offset[i] <= Offset[j]
         /\ \A i \in 5 .. MsgLen + 1 : Offset[i] >= 24
         /\ Offset[MsgLen + 1] <= 109 + AgentWidth
         /\ cmd = "version" /\ V >= 106 =>
              15 <= MsgLen /\ M[15] = "user_agent" /\ Offset[15] = 104
<1> DEFINE n == MsgLen
           a == AgentWidth
           T == <<"magic", "command", "payloadLength", "checksum",
                  "version", "services", "timestamp", "meServices", "meIp", "mePort",
                  "youServices", "youIp", "youPort", "nonce", "user_agent",
                  "start_height", "relay">>
           W(f) == IF f = "user_agent" THEN AgentWidth ELSE Size[f]
<1>1. a \in Nat
  <2>1. "user_agent" \in Field
    BY DEF Field
  <2>2. Serialize(writer, "user_agent", fields["user_agent"]) \in Seq(Byte)
    BY <2>1, Serialized DEF State
  <2>3. QED BY <2>2, LenProperties DEF AgentWidth
<1>2. /\ n \in {4, 5, 10, 16, 17}
      /\ cmd = "verack" => n = 4
      /\ cmd = "nonce" => n = 5
      /\ cmd = "version" => n \in {10, 16, 17} /\ (V >= 106 => n >= 16)
  BY FieldsOfMessage DEF State
<1>3. \A i \in 1 .. 4 : M[i] = T[i]
  <2>1. \A i \in 1 .. 4 : M[i] = HeaderFields[i]
    BY FieldsOfMessage
  <2>2. /\ HeaderFields[1] = "magic" /\ HeaderFields[2] = "command"
        /\ HeaderFields[3] = "payloadLength" /\ HeaderFields[4] = "checksum"
    BY DEF HeaderFields
  <2>3. /\ T[1] = "magic" /\ T[2] = "command"
        /\ T[3] = "payloadLength" /\ T[4] = "checksum"
    OBVIOUS
  <2>4. \A i \in 1 .. 4 : i \in {1, 2, 3, 4}
    OBVIOUS
  <2> HIDE DEF T
  <2>5. QED BY <2>1, <2>2, <2>3, <2>4
<1>4. ASSUME cmd = "version", NEW i \in 5 .. n PROVE M[i] = T[i]
  <2> DEFINE j == i - 4
             U == VersionTable
  <2>1. M[i] = U[j]
    BY <1>4, FieldsOfMessage
  <2>2. j \in {1, 2, 3, 4, 5, 6, 7, 8, 9, 10, 11, 12, 13} /\ i = j + 4
    BY <1>2
  <2>3. /\ U[1] = T[5] /\ U[2] = T[6] /\ U[3] = T[7] /\ U[4] = T[8] /\ U[5] = T[9]
        /\ U[6] = T[10] /\ U[7] = T[11] /\ U[8] = T[12] /\ U[9] = T[13] /\ U[10] = T[14]
        /\ U[11] = T[15] /\ U[12] = T[16] /\ U[13] = T[17]
    BY DEF VersionTable
  <2> HIDE DEF j, T, U
  <2>4. U[j] = T[j + 4]
    BY <2>2, <2>3
  <2>5. QED BY <2>1, <2>2, <2>4
<1>5. /\ W(T[1]) = 4 /\ W(T[2]) = 12 /\ W(T[3]) = 4 /\ W(T[4]) = 4 /\ W(T[5]) = 4
      /\ W(T[6]) = 8 /\ W(T[7]) = 8 /\ W(T[8]) = 8 /\ W(T[9]) = 16 /\ W(T[10]) = 2
      /\ W(T[11]) = 8 /\ W(T[12]) = 16 /\ W(T[13]) = 2 /\ W(T[14]) = 8 /\ W(T[15]) = a
      /\ W(T[16]) = 4 /\ W(T[17]) = 1 /\ W("nonce") = 8
  BY DEF Size
<1>6. CASE cmd = "nonce"
  <2>1. n = 5 /\ M[5] = "nonce"
    BY <1>6, FieldsOfMessage
  <2>2. Offset[1] = 0 /\ Offset[2] = 4 /\ Offset[3] = 16 /\ Offset[4] = 20 /\ Offset[5] = 24 /\ Offset[6] = 32
    BY <1>6 DEF Offset
  <2>3. \A i \in 1 .. 4 : Width(i) = W(T[i])
    BY <1>3 DEF Width
  <2>4. /\ Width(1) = 4 /\ Width(2) = 12 /\ Width(3) = 4 /\ Width(4) = 4
        /\ Width(5) = 8
    BY <1>5, <2>1, <2>3 DEF Width
  <2>5. /\ \A i \in 1 .. n : i \in {1, 2, 3, 4, 5}
        /\ \A i \in 1 .. n + 1 : i \in {1, 2, 3, 4, 5, 6}
    BY <2>1
  <2>6. \A i \in 1 .. n : M[i] \in Field
    BY FieldsOfMessage, ElementOfSeq DEF MsgLen, M
  <2> HIDE DEF n, T, a, W
  <2>7. \A i \in 1 .. n : Width(i) \in Nat /\ Offset[i + 1] = Offset[i] + Width(i)
    BY <2>2, <2>4, <2>5
  <2>8. \A i \in 1 .. n + 1 : Offset[i] \in Nat
    BY <2>2, <2>5
  <2>9. \A i \in 5 .. n + 1 : Offset[i] >= 24
    BY <2>1, <2>2
  <2>10. \A i, j \in 1 .. 5 : i <= j => Offset[i] <= Offset[j]
    BY <2>1, <2>2, <2>5
  <2>11. Offset[n + 1] <= 109 + AgentWidth
    BY <1>1, <2>1, <2>2 DEF a
  <2>12. QED BY <1>6, <2>1, <2>2, <2>6, <2>7, <2>8, <2>9, <2>10, <2>11 DEF n
<1>7. CASE cmd # "nonce"
  <2>1. \A i \in 1 .. n : M[i] = T[i]
    <3> HIDE DEF T
    <3>1. \A i \in 1 .. n : i \in 1 .. 4 \/ i \in 5 .. n
      BY <1>2
    <3>2. cmd = "version" \/ n = 4
      BY <1>2, <1>7 DEF State
    <3>3. QED BY <1>3, <1>4, <3>1, <3>2
  <2>2. /\ Offset[1] = 0 /\ Offset[2] = 4 /\ Offset[3] = 16 /\ Offset[4] = 20 /\ Offset[5] = 24 /\ Offset[6] = 28
        /\ Offset[7] = 36 /\ Offset[8] = 44 /\ Offset[9] = 52 /\ Offset[10] = 68 /\ Offset[11] = 70
        /\ Offset[12] = 78 /\ Offset[13] = 94 /\ Offset[14] = 96 /\ Offset[15] = 104
        /\ Offset[16] = 104 + a /\ Offset[17] = 108 + a /\ Offset[18] = 109 + a
    BY <1>7 DEF Offset
  <2>3. \A i \in 1 .. n : Width(i) = W(T[i])
    BY <2>1 DEF Width
  <2>4. /\ \A i \in 1 .. n : i \in {1, 2, 3, 4, 5, 6, 7, 8, 9, 10, 11, 12, 13, 14,
                                    15, 16, 17}
        /\ \A i \in 1 .. n + 1 : i \in {1, 2, 3, 4, 5, 6, 7, 8, 9, 10, 11, 12, 13,
                                        14, 15, 16, 17, 18}
    BY <1>2
  <2>5. \A i \in 1 .. n : M[i] \in Field
    BY FieldsOfMessage, ElementOfSeq DEF MsgLen, M
  <2>6. T[15] = "user_agent"
    OBVIOUS
  <2> HIDE DEF n, T, a, W
  <2>7. \A i \in 1 .. n : W(T[i]) \in Nat /\ Offset[i + 1] = Offset[i] + W(T[i])
    BY <1>1, <1>5, <2>2, <2>4
  <2>8. \A i \in 1 .. n + 1 : Offset[i] \in Nat
    BY <1>1, <2>2, <2>4
  <2>9. \A i \in 5 .. n + 1 : Offset[i] >= 24
    <3>1. \A i \in 5 .. n + 1 : i \in {5, 6, 7, 8, 9, 10, 11, 12, 13,
                                        14, 15, 16, 17, 18}
      BY <1>2
    <3>2. QED BY <1>1, <2>2, <3>1
  <2>10. \A i, j \in 1 .. 5 : i <= j => Offset[i] <= Offset[j]
    <3>1. \A i \in 1 .. 5 : i \in {1, 2, 3, 4, 5}
      OBVIOUS
    <3>2. QED BY <2>2, <3>1
  <2>11. Offset[n + 1] <= 109 + a
    BY <1>1, <1>2, <2>2
  <2>12. cmd = "version" /\ V >= 106 => 15 <= n /\ M[15] = "user_agent"
    BY <1>2, <2>1, <2>6
  <2>13. n \in Nat /\ n >= 4
    BY <1>2
  <2>14. QED
    BY <2>2, <2>3, <2>5, <2>7, <2>8, <2>9, <2>10, <2>11, <2>12, <2>13 DEF n, a
<1>8. QED BY <1>6, <1>7

-------------------------------------------------------------------------------
(* What a field that is in the buffer is read as. *)

\* The bytes of the field i.
Enc(i) == Serialize(writer, M[i], fields[M[i]])

\* They are in the buffer where they belong.
Placed(i) ==
  /\ Offset[i] + Width(i) <= Len(buffer)
  /\ \A j \in 1 .. Width(i) : buffer[Offset[i] + j] = Enc(i)[j]

LEMMA Encoded ==
  ASSUME State, NEW i \in 1 .. MsgLen
  PROVE  /\ M[i] \in Field /\ fields[M[i]] \in Seq(Byte)
         /\ Enc(i) \in Seq(Byte) /\ Len(Enc(i)) = Width(i)
<1>1. M[i] \in Field /\ fields[M[i]] \in Seq(Byte)
  BY Layout DEF State
<1>2. Enc(i) \in Seq(Byte)
  BY <1>1, Serialized DEF Enc, State
<1>3. CASE M[i] = "user_agent"
  BY <1>1, <1>2, <1>3 DEF Enc, Width, AgentWidth
<1>4. CASE M[i] # "user_agent"
  <2>1. M[i] \in DOMAIN Size
    BY <1>1, <1>4 DEF Field
  <2>2. Len(Enc(i)) = Len(fields[M[i]])
    BY <1>1, <1>4, Serialized DEF Enc, State
  <2>3. Len(fields[M[i]]) = Size[M[i]]
    BY <2>1 DEF State, Sizes
  <2>4. QED BY <1>1, <1>2, <1>4, <2>2, <2>3 DEF Width
<1>5. QED BY <1>1, <1>2, <1>3, <1>4

LEMMA FieldRoundTrip ==
  ASSUME NEW writing \in Hosts, NEW reading \in Hosts, NEW f \in DOMAIN Size,
         NEW x \in Seq(Byte)
  PROVE  Unserialize(reading, f, Serialize(writing, f, x)) = x
<1>1. f # "user_agent"
  BY DEF Size
<1>2. OrderOf(f) \in Orders
  BY DEF OrderOf, Orders
<1>3. CASE f \in Arrays
  BY <1>3 DEF Serialize, Unserialize
<1>4. CASE f \notin Arrays
  <2>1. ser_readdata(reading, OrderOf(f), ser_writedata(writing, OrderOf(f), x)) = x
    BY <1>2, IntegerRoundTrip
  <2>2. QED BY <1>1, <1>4, <2>1 DEF Serialize, Unserialize
<1>5. QED BY <1>3, <1>4

LEMMA ReadPlaced ==
  ASSUME State, buffer \in Seq(Byte), NEW i \in 1 .. MsgLen, Placed(i)
  PROVE  /\ Offset[i] \in 0 .. Len(buffer) /\ Offset[i + 1] = Offset[i] + Width(i)
         /\ Offset[i + 1] \in 0 .. Len(buffer)
         /\ read(Offset[i], Width(i)).bytes = Enc(i)
         /\ read(Offset[i], Width(i)).next = Offset[i + 1]
<1>1. /\ Offset[i] \in Nat /\ Width(i) \in Nat /\ Offset[i + 1] = Offset[i] + Width(i)
  BY Layout
<1>2. Len(buffer) \in Nat /\ Offset[i] + Width(i) <= Len(buffer)
  BY LenProperties DEF Placed
<1>3. Offset[i] \in 0 .. Len(buffer) /\ Offset[i + 1] \in 0 .. Len(buffer)
  BY <1>1, <1>2
<1> DEFINE r == read(Offset[i], Width(i))
<1>4. /\ r.bytes \in Seq(Byte) /\ Len(r.bytes) = Width(i)
      /\ r.next = Offset[i] + Width(i)
      /\ \A j \in 1 .. Width(i) : r.bytes[j] = buffer[Offset[i] + j]
  BY <1>1, <1>2, <1>3, Taken
<1> HIDE DEF r
<1>5. Enc(i) \in Seq(Byte) /\ Len(Enc(i)) = Width(i)
  BY Encoded
<1>6. \A j \in 1 .. Width(i) : r.bytes[j] = Enc(i)[j]
  BY <1>4 DEF Placed
<1>7. r.bytes = Enc(i)
  BY <1>4, <1>5, <1>6, SeqEqual
<1>8. QED BY <1>1, <1>3, <1>4, <1>7 DEF r

\* The agent is read to its end, and no exception is thrown.
LEMMA AgentRead ==
  ASSUME State, buffer \in Seq(Byte), reader \in Hosts,
         NEW i \in 1 .. MsgLen, M[i] = "user_agent", Placed(i), pos = Offset[i]
  PROVE  LET n == CompactValue(AgentSize.first, AgentSize.rest)
         IN /\ Accepted(AgentSize.first, AgentSize.rest)
            /\ read(AgentSize.next, n).bytes = fields["user_agent"]
            /\ read(AgentSize.next, n).next = Offset[i + 1]
<1> DEFINE agent == fields["user_agent"]
           n == Len(agent)
           size == WriteCompactSize(writer, n)
           w == SizeWidth(size[1])
           x == Enc(i)
           k == Width(i)
<1>1. agent \in Seq(Byte) /\ n \in Nat /\ n <= MAX_SIZE
  <2>1. agent \in Seq(Byte)
    BY DEF State, Field
  <2>2. QED BY <2>1, LenProperties DEF State, Sizes
<1>2. /\ size \in Seq(Byte) /\ Len(size) = 1 + w
      /\ Accepted(size[1], ser_readdata(reader, "little", SubSeq(size, 2, Len(size))))
      /\ CompactValue(size[1],
                      ser_readdata(reader, "little", SubSeq(size, 2, Len(size)))) = n
  BY <1>1, SizeRoundTrip DEF State
<1>3. w \in Nat
  BY DEF SizeWidth
<1>4. x = size \o agent
  BY DEF Enc, Serialize, Arrays
<1>5. /\ Offset[i] \in 0 .. Len(buffer) /\ Offset[i + 1] = Offset[i] + k
      /\ Offset[i] + k <= Len(buffer)
      /\ \A j \in 1 .. k : buffer[Offset[i] + j] = x[j]
  BY ReadPlaced DEF Placed
<1>6. x \in Seq(Byte) /\ Len(x) = k
  BY Encoded
<1> HIDE DEF size, w, agent, x, n, k
<1>7. /\ k = 1 + w + n
      /\ \A j \in 1 .. 1 + w : x[j] = size[j]
      /\ \A j \in 1 .. n : x[1 + w + j] = agent[j]
  <2>1. /\ size \o agent \in Seq(Byte)
        /\ Len(size \o agent) = Len(size) + Len(agent)
        /\ \A j \in 1 .. Len(size) + Len(agent) :
             (size \o agent)[j] = IF j <= Len(size) THEN size[j] ELSE agent[j - Len(size)]
    BY <1>1, <1>2, ConcatProperties
  <2>2. Len(size) = 1 + w /\ Len(agent) = n
    BY <1>2 DEF n
  <2>3. k = 1 + w + n
    BY <1>1, <1>3, <1>4, <1>6, <2>1, <2>2
  <2>4. \A j \in 1 .. 1 + w : x[j] = size[j]
    BY <1>1, <1>3, <1>4, <2>1, <2>2
  <2>5. ASSUME NEW j \in 1 .. n PROVE x[1 + w + j] = agent[j]
    <3> DEFINE l == 1 + w + j
    <3>1. l \in 1 .. (1 + w) + n /\ ~(l <= 1 + w) /\ l - (1 + w) = j
      BY <1>1, <1>3
    <3> HIDE DEF l
    <3>2. x[l] = agent[l - (1 + w)]
      BY <1>4, <2>1, <2>2, <3>1
    <3>3. QED BY <3>1, <3>2 DEF l
  <2>6. QED BY <2>3, <2>4, <2>5
<1>8. Offset[i] \in Nat /\ Len(buffer) \in Nat
  BY <1>5, LenProperties
<1>k. k = 1 + w + n /\ Offset[i + 1] = Offset[i] + k /\ Offset[i] + k <= Len(buffer)
  BY <1>5, <1>7
<1> DEFINE r == read(Offset[i], 1)
<1>9. r.bytes[1] = size[1] /\ r.next = Offset[i] + 1
  <2>1. Offset[i] + 1 <= Len(buffer)
    BY <1>1, <1>3, <1>5, <1>7, <1>8
  <2>2. r.next = Offset[i] + 1 /\ \A j \in 1 .. 1 : r.bytes[j] = buffer[Offset[i] + j]
    BY <1>5, <2>1, Taken
  <2>3. buffer[Offset[i] + 1] = x[1] /\ x[1] = size[1]
    <3>1. 1 \in 1 .. k /\ 1 \in 1 .. 1 + w
      BY <1>1, <1>3, <1>7
    <3>2. QED BY <1>5, <1>7, <3>1
  <2>4. QED BY <2>2, <2>3
<1> DEFINE more == read(Offset[i] + 1, w)
<1>10. more.bytes = SubSeq(size, 2, Len(size)) /\ more.next = Offset[i] + 1 + w
  <2>1. Offset[i] + 1 \in 0 .. Len(buffer) /\ (Offset[i] + 1) + w <= Len(buffer)
    BY <1>1, <1>3, <1>5, <1>7, <1>8
  <2>2. /\ more.bytes \in Seq(Byte) /\ Len(more.bytes) = w
        /\ more.next = (Offset[i] + 1) + w
        /\ \A j \in 1 .. w : more.bytes[j] = buffer[(Offset[i] + 1) + j]
    BY <1>3, <2>1, Taken
  <2> HIDE DEF more
  <2> DEFINE z == SubSeq(size, 2, Len(size))
  <2>3. z \in Seq(Byte) /\ Len(z) = w /\ \A j \in 1 .. w : z[j] = size[j + 1]
    <3>1. \A j \in 2 .. Len(size) : size[j] \in Byte
      BY <1>2, <1>3, ElementOfSeq
    <3>2. /\ z \in Seq(Byte)
          /\ Len(z) = IF 2 <= Len(size) THEN Len(size) - 2 + 1 ELSE 0
          /\ \A j \in 1 .. Len(size) - 2 + 1 : z[j] = size[2 + j - 1]
      BY <1>2, <1>3, <3>1, SubSeqProperties
    <3> HIDE DEF z
    <3>3. QED BY <1>2, <1>3, <3>2
  <2> HIDE DEF z
  <2>4. ASSUME NEW j \in 1 .. w PROVE more.bytes[j] = z[j]
    <3>1. /\ j + 1 \in 1 .. k /\ j + 1 \in 1 .. 1 + w
          /\ (Offset[i] + 1) + j = Offset[i] + (j + 1)
      <4> HIDE DEF k, w, n, x, size, agent
      <4>1. n \in Nat /\ w \in Nat /\ j \in Nat /\ 1 <= j /\ j <= w
        BY <1>1, <1>3
      <4>2. j + 1 \in 1 .. 1 + w + n /\ j + 1 \in 1 .. 1 + w
        BY <4>1
      <4>3. k = 1 + w + n
        BY <1>k
      <4>4. j + 1 \in 1 .. k
        BY <4>2, <4>3
      <4>5. (Offset[i] + 1) + j = Offset[i] + (j + 1)
        BY <1>8, <4>1
      <4>6. QED BY <4>2, <4>4, <4>5
    <3>2. buffer[Offset[i] + (j + 1)] = x[j + 1] /\ x[j + 1] = size[j + 1]
      BY <1>5, <1>7, <3>1
    <3>3. QED BY <2>2, <2>3, <3>1, <3>2
  <2>5. more.bytes = z
    BY <2>2, <2>3, <2>4, SeqEqual
  <2>6. QED BY <1>3, <1>8, <2>2, <2>5 DEF z
<1> DEFINE rest == ser_readdata(reader, "little", SubSeq(size, 2, Len(size)))
<1>11. AgentSize = [first |-> size[1], next |-> Offset[i] + 1 + w, rest |-> rest]
  <2>1. AgentSize = [first |-> r.bytes[1],
                     next |-> read(r.next, SizeWidth(r.bytes[1])).next,
                     rest |-> ser_readdata(reader, "little",
                                           read(r.next, SizeWidth(r.bytes[1])).bytes)]
    BY DEF AgentSize
  <2>2. read(r.next, SizeWidth(r.bytes[1])) = more
    BY <1>9 DEF w
  <2> HIDE DEF r, more
  <2>3. QED BY <1>9, <1>10, <2>1, <2>2
<1> HIDE DEF rest
<1>12. Accepted(size[1], rest) /\ CompactValue(size[1], rest) = n
  BY <1>2 DEF rest
<1> DEFINE q == read(Offset[i] + 1 + w, n)
<1>13. q.bytes = agent /\ q.next = Offset[i + 1]
  <2> DEFINE b == Offset[i] + 1 + w
  <2>1. b \in 0 .. Len(buffer) /\ b + n <= Len(buffer) /\ b + n = Offset[i + 1]
    <3>1. n \in Nat /\ w \in Nat
      BY <1>1, <1>3
    <3>2. Offset[i + 1] = Offset[i] + (1 + w + n) /\ Offset[i] + (1 + w + n) <= Len(buffer)
      BY <1>k
    <3>3. QED BY <1>8, <3>1, <3>2
  <2>2. /\ q.bytes \in Seq(Byte) /\ Len(q.bytes) = n
        /\ q.next = b + n
        /\ \A j \in 1 .. n : q.bytes[j] = buffer[b + j]
    BY <1>1, <2>1, Taken
  <2> HIDE DEF q
  <2>3. ASSUME NEW j \in 1 .. n PROVE q.bytes[j] = agent[j]
    <3>1. 1 + w + j \in 1 .. k /\ b + j = Offset[i] + (1 + w + j)
      <4> HIDE DEF k, w, n, x, size, agent
      <4>1. n \in Nat /\ w \in Nat /\ j \in Nat /\ 1 <= j /\ j <= n
        BY <1>1, <1>3
      <4>2. 1 + w + j \in 1 .. 1 + w + n
        BY <4>1
      <4>3. k = 1 + w + n
        BY <1>k
      <4>4. 1 + w + j \in 1 .. k
        BY <4>2, <4>3
      <4>5. (Offset[i] + 1 + w) + j = Offset[i] + (1 + w + j)
        BY <1>8, <4>1
      <4>6. QED BY <4>4, <4>5
    <3>2. buffer[Offset[i] + (1 + w + j)] = x[1 + w + j]
      BY <1>5, <3>1
    <3>3. QED BY <1>7, <2>2, <3>1, <3>2
  <2>4. Len(agent) = n
    BY DEF n
  <2>5. q.bytes = agent
    BY <1>1, <2>2, <2>3, <2>4, SeqEqual
  <2>6. QED BY <2>1, <2>2, <2>5
<1>14. QED BY <1>11, <1>12, <1>13 DEF agent

-------------------------------------------------------------------------------
(* The invariant. *)

\* The list l is what follows of the first n fields of the message.
Rest(l, n) == Len(l) <= n /\ \A j \in 1 .. Len(l) : l[j] = M[n - Len(l) + j]

\* How many fields of the header, and of the message, have been written or read.
HeaderDone == 4 - Len(todo)
FieldsDone == MsgLen - Len(todo)

GotUpTo(n) == \A i \in 1 .. n : got[M[i]] = fields[M[i]]

\* Behind the room for the header the payload grows; a verack has neither.
PayloadInv ==
  pc = "payload" =>
    /\ Rest(todo, MsgLen) /\ Len(todo) <= MsgLen - 4
    /\ cmd = "verack" => Len(buffer) = 0 /\ pos = 0
    /\ cmd # "verack" => Len(buffer) = pos /\ pos = Offset[FieldsDone + 1]
    /\ \A i \in 5 .. FieldsDone : Placed(i)

\* The header is written over that room.
HeaderInv ==
  pc = "header" =>
    /\ Rest(todo, 4) /\ pos = Offset[HeaderDone + 1]
    /\ cmd = "verack" => Len(buffer) = pos
    /\ cmd # "verack" => Len(buffer) = Offset[MsgLen + 1]
    /\ \A i \in 1 .. HeaderDone : Placed(i)
    /\ \A i \in 5 .. MsgLen : Placed(i)

Sending == pc \in {"start", "payload", "header", "sent"}

\* The whole message is there, and nothing behind it before it is delivered.
MessageInv ==
  /\ Sending => genuine
  /\ pc \in {"sent", "readHeader", "readPayload"} /\ genuine =>
       \A i \in 1 .. MsgLen : Placed(i)
  /\ pc = "sent" => Len(buffer) = Offset[MsgLen + 1]

\* What the header says.
HeaderFieldsInv ==
  pc \notin {"start", "payload"} =>
    /\ fields["command"] = Names[cmd]
    /\ fields["payloadLength"] = Word32(Offset[MsgLen + 1] - MESSAGE_HEADER_SIZE)

\* What was read is what was written, and the reader is where it belongs.
ReadInv ==
  genuine =>
    /\ pc # "terminated"
    /\ pc = "readHeader" =>
         Rest(todo, 4) /\ pos = Offset[HeaderDone + 1] /\ GotUpTo(HeaderDone)
    /\ pc = "readPayload" =>
         Rest(todo, MsgLen) /\ pos = Offset[FieldsDone + 1] /\ GotUpTo(FieldsDone)
    /\ pc = "done" => pos = Offset[MsgLen + 1] /\ GotUpTo(MsgLen)

IInv ==
  /\ TypeOK /\ Sizes
  /\ PayloadInv /\ HeaderInv /\ MessageInv /\ HeaderFieldsInv /\ ReadInv

LEMMA InvState ==
  ASSUME IInv
  PROVE  /\ State
         /\ Len(buffer) \in Nat /\ pos \in Nat /\ pos <= Len(buffer)
         /\ Len(todo) \in Nat
<1>1. State
  BY SerializationAssumption DEF IInv, TypeOK, State
<1>2. buffer \in Seq(Byte) /\ pos \in 0 .. Len(buffer) /\ todo \in Seq(Field)
  BY DEF IInv, TypeOK
<1>3. Len(buffer) \in Nat /\ Len(todo) \in Nat
  BY <1>2, LenProperties
<1>4. QED BY <1>1, <1>2, <1>3

\* The next field, and the list without it.
LEMMA NextField ==
  ASSUME State, NEW n \in 0 .. MsgLen, NEW l \in Seq(Field), Rest(l, n), l # <<>>
  PROVE  /\ n - Len(l) + 1 \in 1 .. n
         /\ Head(l) = M[n - Len(l) + 1]
         /\ Tail(l) \in Seq(Field) /\ Len(Tail(l)) = Len(l) - 1
         /\ Rest(Tail(l), n)
<1>1. MsgLen \in Nat /\ n \in Nat
  BY Layout
<1>2. Len(l) \in Nat /\ Len(l) >= 1 /\ Len(l) <= n
  BY EmptySeq DEF Rest
<1>3. /\ Tail(l) \in Seq(Field) /\ Len(Tail(l)) = Len(l) - 1
      /\ \A j \in 1 .. Len(Tail(l)) : Tail(l)[j] = l[j + 1]
  BY HeadTailProperties
<1>4. Head(l) = l[1]
  OBVIOUS
<1>5. l[1] = M[n - Len(l) + 1]
  BY <1>2 DEF Rest
<1>6. ASSUME NEW j \in 1 .. Len(Tail(l)) PROVE Tail(l)[j] = M[n - Len(Tail(l)) + j]
  <2>1. j + 1 \in 1 .. Len(l)
    BY <1>2, <1>3
  <2>2. l[j + 1] = M[n - Len(l) + (j + 1)]
    BY <2>1 DEF Rest
  <2>3. n - Len(l) + (j + 1) = n - Len(Tail(l)) + j
    BY <1>1, <1>2, <1>3
  <2>4. QED BY <1>3, <2>2, <2>3
<1>7. Rest(Tail(l), n)
  BY <1>1, <1>2, <1>3, <1>6 DEF Rest
<1>8. QED BY <1>1, <1>2, <1>3, <1>4, <1>5, <1>7

\* A list that has to be written or read from its start.
LEMMA FreshLists ==
  ASSUME State
  PROVE  /\ Rest(HeaderFields, 4) /\ Len(HeaderFields) = 4
         /\ Rest(F, MsgLen) /\ Len(F) = MsgLen - 4
<1>1. MsgLen \in Nat /\ MsgLen >= 4
  BY Layout
<1>2. Len(HeaderFields) = 4
  BY DEF HeaderFields
<1>3. \A i \in 1 .. 4 : HeaderFields[i] = M[4 - 4 + i]
  BY FieldsOfMessage
<1>4. Rest(HeaderFields, 4)
  BY <1>2, <1>3 DEF Rest
<1>5. Len(F) = MsgLen - 4 /\ \A j \in 1 .. MsgLen - 4 : F[j] = M[4 + j]
  BY FieldsOfMessage
<1>6. \A j \in 1 .. MsgLen - 4 : MsgLen - (MsgLen - 4) + j = 4 + j
  BY <1>1
<1>7. Rest(F, MsgLen)
  <2> HIDE DEF F, MsgLen, M
  <2>1. Len(F) <= MsgLen
    BY <1>1, <1>5
  <2>2. \A j \in 1 .. Len(F) : F[j] = M[MsgLen - Len(F) + j]
    BY <1>5, <1>6
  <2>3. QED BY <2>1, <2>2 DEF Rest
<1>8. QED BY <1>2, <1>4, <1>5, <1>7

LEMMA Frozen ==
  ASSUME cmd' = cmd, writer' = writer, fields' = fields
  PROVE  /\ M' = M /\ MsgLen' = MsgLen /\ V' = V /\ F' = F
         /\ Offset' = Offset
         /\ \A i : Width(i)' = Width(i) /\ Enc(i)' = Enc(i)
<1>1. M' = M /\ MsgLen' = MsgLen /\ V' = V /\ F' = F
  BY DEF M, MsgLen, MessageFields, V, F
<1>2. AgentWidth' = AgentWidth
  BY DEF AgentWidth
<1>3. QED BY <1>1, <1>2 DEF Offset, Width, Enc

LEMMA Zeroes ==
  ASSUME NEW n \in Nat
  PROVE  Zeros(n) \in Seq(Byte) /\ Len(Zeros(n)) = n
<1>1. Zeros(n) \in [1 .. n -> Byte]
  BY DEF Zeros, Byte
<1>2. Zeros(n) \in Seq(Byte)
  BY <1>1, SeqDef
<1>3. QED BY <1>1, <1>2, LenProperties

LEMMA InitInv == Init => IInv
<1> SUFFICES ASSUME Init PROVE IInv
  OBVIOUS
<1>1. /\ fields \in [Field -> Seq(Byte)] /\ buffer \in Seq(Byte)
      /\ Len(fields["user_agent"]) <= MAX_SIZE
      /\ \A f \in DOMAIN Size : Len(fields[f]) = Size[f]
  BY SerializationAssumption DEF Init
<1>2. Len(buffer) \in Nat
  BY <1>1, LenProperties
<1>3. todo \in Seq(Field)
  BY EmptySeq DEF Init
<1>4. Blank \in [Field -> Seq(Byte)]
  <2>1. \A f \in DOMAIN Size : Size[f] \in Nat
    BY DEF Size
  <2>2. ASSUME NEW f \in Field
        PROVE  (IF f = "user_agent" THEN <<>> ELSE Zeros(Size[f])) \in Seq(Byte)
    <3>1. CASE f = "user_agent"
      BY <3>1, EmptySeq
    <3>2. CASE f # "user_agent"
      <4>1. f \in DOMAIN Size
        BY <3>2 DEF Field
      <4>2. QED BY <2>1, <3>2, <4>1, Zeroes
    <3>3. QED BY <3>1, <3>2
  <2>3. QED BY <2>2 DEF Blank
<1>5. TypeOK /\ Sizes
  BY <1>1, <1>2, <1>3, <1>4 DEF Init, TypeOK, Sizes
<1>6. PayloadInv /\ HeaderInv /\ MessageInv /\ HeaderFieldsInv /\ ReadInv
  BY DEF Init, PayloadInv, HeaderInv, MessageInv, HeaderFieldsInv, ReadInv, Sending
<1>7. QED BY <1>5, <1>6 DEF IInv

LEMMA BeginStep == IInv /\ BeginCommand => IInv'
<1> SUFFICES ASSUME IInv, BeginCommand PROVE IInv'
  OBVIOUS
<1>1. State /\ TypeOK /\ Sizes /\ MessageInv
  BY InvState DEF IInv
<1>2. /\ pc = "start" /\ pc' = "payload" /\ todo' = F /\ pos' = Len(buffer')
      /\ cmd' = cmd /\ fields' = fields /\ got' = got
      /\ writer' = writer /\ reader' = reader /\ genuine' = genuine
  BY DEF BeginCommand, F, V
<1>3. /\ buffer' \in Seq(Byte) /\ Len(buffer') \in Nat
      /\ cmd = "verack" => Len(buffer') = 0
      /\ cmd # "verack" => Len(buffer') = 24
  <2>1. CASE cmd = "verack"
    <3>1. buffer' = <<>>
      BY <2>1 DEF BeginCommand
    <3>2. QED BY <2>1, <3>1, EmptySeq
  <2>2. CASE cmd # "verack"
    <3>1. buffer' = Zeros(24)
      BY <2>2 DEF BeginCommand, MESSAGE_HEADER_SIZE
    <3>2. 24 \in Nat
      OBVIOUS
    <3>3. QED BY <2>2, <3>1, <3>2, Zeroes
  <2>3. QED BY <2>1, <2>2
<1>4. F \in Seq(Field) /\ Rest(F, MsgLen) /\ Len(F) = MsgLen - 4
  BY <1>1, FieldsOfMessage, FreshLists
<1>5. TypeOK'
  <2>1. pos' \in 0 .. Len(buffer')
    BY <1>2, <1>3
  <2>2. QED BY <1>1, <1>2, <1>3, <1>4, <2>1 DEF TypeOK
<1>6. Sizes'
  BY <1>1, <1>2 DEF Sizes
<1>7. M' = M /\ MsgLen' = MsgLen /\ Offset' = Offset
  BY <1>2, Frozen
<1>8. MsgLen \in Nat /\ MsgLen >= 4 /\ Offset[5] = 24
  BY <1>1, Layout
<1>9. PayloadInv'
  <2>1. Rest(todo, MsgLen)'
    BY <1>2, <1>4, <1>7 DEF Rest
  <2>2. FieldsDone' = 4 /\ Len(todo') = MsgLen - 4
    BY <1>2, <1>4, <1>7, <1>8 DEF FieldsDone
  <2>3. Offset'[FieldsDone' + 1] = 24 /\ \A i \in 5 .. FieldsDone' : FALSE
    BY <1>7, <1>8, <2>2
  <2>4. QED BY <1>2, <1>3, <1>7, <2>1, <2>2, <2>3 DEF PayloadInv
<1>10. HeaderInv' /\ MessageInv' /\ HeaderFieldsInv' /\ ReadInv'
  BY <1>1, <1>2 DEF HeaderInv, MessageInv, HeaderFieldsInv, ReadInv, Sending
<1>11. QED BY <1>5, <1>6, <1>9, <1>10 DEF IInv

\* What a field leaves in the buffer, and what it leaves of the others.
LEMMA FieldWritten ==
  ASSUME State, buffer \in Seq(Byte), NEW i \in 1 .. MsgLen,
         pos = Offset[i], pos <= Len(buffer),
         buffer' = Write(buffer, pos, Enc(i)),
         cmd' = cmd, writer' = writer, fields' = fields
  PROVE  /\ buffer' \in Seq(Byte)
         /\ Len(buffer') = IF Offset[i + 1] > Len(buffer) THEN Offset[i + 1] ELSE Len(buffer)
         /\ Placed(i)'
         /\ \A j \in 1 .. MsgLen :
              /\ Placed(j)
              /\ Offset[j + 1] <= Offset[i] \/ Offset[i + 1] <= Offset[j]
              => Placed(j)'
<1> DEFINE x == Enc(i)
           n == IF Offset[i + 1] > Len(buffer) THEN Offset[i + 1] ELSE Len(buffer)
<1>1. x \in Seq(Byte) /\ Len(x) = Width(i)
  BY Encoded
<1>2. /\ Offset[i] \in Nat /\ Width(i) \in Nat /\ Offset[i + 1] = Offset[i] + Width(i)
      /\ Offset[i + 1] \in Nat
  <2>1. i \in 1 .. MsgLen + 1 /\ i + 1 \in 1 .. MsgLen + 1
    BY Layout
  <2>2. QED BY <2>1, Layout
<1>3. Len(buffer) \in Nat /\ pos \in 0 .. Len(buffer)
  BY <1>2, LenProperties
<1> HIDE DEF x
<1>4. /\ buffer' \in Seq(Byte) /\ Len(buffer') = n
      /\ \A k \in 1 .. n :
           buffer'[k] = IF Offset[i] < k /\ k <= Offset[i + 1] THEN x[k - Offset[i]] ELSE buffer[k]
  <2>1. buffer' = Write(buffer, pos, x)
    BY DEF x
  <2>2. pos + Len(x) = Offset[i + 1]
    BY <1>1, <1>2
  <2> DEFINE w == Write(buffer, pos, x)
             m == IF pos + Len(x) > Len(buffer) THEN pos + Len(x) ELSE Len(buffer)
  <2>3. /\ w \in Seq(Byte) /\ Len(w) = m
        /\ \A k \in 1 .. m : w[k] = IF pos < k /\ k <= pos + Len(x) THEN x[k - pos] ELSE buffer[k]
    BY <1>1, <1>3, Written
  <2>4. m = n
    BY <2>2
  <2> HIDE DEF w, m, n
  <2>5. /\ w \in Seq(Byte) /\ Len(w) = n
        /\ \A k \in 1 .. n :
             w[k] = IF Offset[i] < k /\ k <= Offset[i + 1] THEN x[k - Offset[i]] ELSE buffer[k]
    BY <2>2, <2>3, <2>4
  <2>6. QED BY <2>1, <2>5 DEF w
<1>5. n \in Nat /\ n >= Len(buffer) /\ n >= Offset[i + 1]
  BY <1>2, <1>3
<1>6. Offset' = Offset /\ \A j : Width(j)' = Width(j) /\ Enc(j)' = Enc(j)
  BY Frozen
<1> HIDE DEF n
<1>7. Placed(i)'
  <2>1. Offset[i] + Width(i) <= Len(buffer')
    BY <1>2, <1>4, <1>5
  <2>2. ASSUME NEW k \in 1 .. Width(i) PROVE buffer'[Offset[i] + k] = x[k]
    <3> DEFINE l == Offset[i] + k
    <3>1. l \in 1 .. n /\ Offset[i] < l /\ l <= Offset[i + 1] /\ l - Offset[i] = k
      BY <1>2, <1>5
    <3> HIDE DEF l
    <3>2. buffer'[l] = x[l - Offset[i]]
      BY <1>4, <3>1
    <3>3. QED BY <3>1, <3>2 DEF l
  <2>3. QED BY <1>6, <2>1, <2>2 DEF Placed, x
<1>8. ASSUME NEW j \in 1 .. MsgLen, Placed(j),
             Offset[j + 1] <= Offset[i] \/ Offset[i + 1] <= Offset[j]
      PROVE  Placed(j)'
  <2>1. /\ Offset[j] \in Nat /\ Width(j) \in Nat /\ Offset[j + 1] = Offset[j] + Width(j)
    <3>1. j \in 1 .. MsgLen + 1
      BY Layout
    <3>2. QED BY <3>1, Layout
  <2>2. Offset[j] + Width(j) <= Len(buffer)
    BY <1>8 DEF Placed
  <2>3. ASSUME NEW k \in 1 .. Width(j)
        PROVE  buffer'[Offset[j] + k] = Enc(j)[k]
    <3> DEFINE l == Offset[j] + k
    <3>1. l \in 1 .. n /\ ~(Offset[i] < l /\ l <= Offset[i + 1])
      <4>1. l \in 1 .. n
        BY <1>3, <1>5, <2>1, <2>2
      <4>2. l <= Offset[j + 1] /\ Offset[j] < l /\ l \in Nat
        BY <2>1
      <4>3. Offset[j + 1] \in Nat
        BY <2>1
      <4> HIDE DEF l
      <4>4. CASE Offset[j + 1] <= Offset[i]
        BY <1>2, <4>1, <4>2, <4>3, <4>4
      <4>5. CASE Offset[i + 1] <= Offset[j]
        BY <1>2, <2>1, <4>1, <4>2, <4>5
      <4>6. QED BY <1>8, <4>4, <4>5
    <3>2. buffer[l] = Enc(j)[k]
      BY <1>8 DEF Placed
    <3> HIDE DEF l
    <3>3. buffer'[l] = buffer[l]
      BY <1>4, <3>1
    <3>4. QED BY <3>2, <3>3 DEF l
  <2>4. Offset[j] + Width(j) <= Len(buffer')
    BY <1>3, <1>4, <1>5, <2>1, <2>2
  <2>5. QED BY <1>6, <2>3, <2>4 DEF Placed
<1>9. QED BY <1>4, <1>7, <1>8 DEF n

LEMMA WriteStep == IInv /\ WriteField => IInv'
<1> SUFFICES ASSUME IInv, WriteField PROVE IInv'
  OBVIOUS
<1>1. /\ State /\ TypeOK /\ Sizes /\ PayloadInv /\ HeaderInv /\ MessageInv
      /\ HeaderFieldsInv /\ ReadInv
  BY InvState DEF IInv
<1>2. /\ pc \in {"payload", "header"} /\ todo # <<>> /\ todo' = Tail(todo) /\ pc' = pc
      /\ cmd' = cmd /\ fields' = fields /\ got' = got
      /\ writer' = writer /\ reader' = reader /\ genuine' = genuine
  BY DEF WriteField
<1>3. /\ M' = M /\ MsgLen' = MsgLen /\ Offset' = Offset
  BY <1>2, Frozen
<1>4. /\ MsgLen \in Nat /\ MsgLen >= 4 /\ Offset[5] = 24
      /\ \A i \in 1 .. MsgLen + 1 : Offset[i] \in Nat
      /\ \A i \in 1 .. MsgLen : Offset[i + 1] = Offset[i] + Width(i) /\ Width(i) \in Nat
      /\ \A i, j \in 1 .. 5 : i <= j => Offset[i] <= Offset[j]
      /\ \A i \in 5 .. MsgLen + 1 : Offset[i] >= 24
  BY <1>1, Layout
<1>5. /\ buffer \in Seq(Byte) /\ Len(buffer) \in Nat /\ pos \in Nat /\ pos <= Len(buffer)
      /\ todo \in Seq(Field) /\ Len(todo) \in Nat
  BY InvState DEF IInv, TypeOK
<1>6. Len(todo) >= 1
  BY <1>2, <1>5, EmptySeq
<1>7. HeaderInv' /\ PayloadInv' /\ TypeOK'
  <2>1. CASE pc = "payload"
    <3>1. /\ Rest(todo, MsgLen) /\ Len(todo) <= MsgLen - 4
          /\ cmd = "verack" => Len(buffer) = 0 /\ pos = 0
          /\ cmd # "verack" => Len(buffer) = pos /\ pos = Offset[FieldsDone + 1]
          /\ \A i \in 5 .. FieldsDone : Placed(i)
      BY <1>1, <2>1 DEF PayloadInv
    <3>2. cmd # "verack"
      <4>1. cmd = "verack" => MsgLen = 4
        BY <1>1, FieldsOfMessage
      <4>2. QED BY <1>5, <1>6, <3>1, <4>1
    <3>i. PICK i \in Int : i = MsgLen - Len(todo) + 1
      <4>1. MsgLen \in Nat /\ Len(todo) \in Nat
        BY <1>4, <1>5
      <4>2. MsgLen - Len(todo) + 1 \in Int
        BY <4>1
      <4>3. QED BY <4>2
    <3>3. /\ i \in 1 .. MsgLen /\ i >= 5 /\ Head(todo) = M[i]
          /\ todo' \in Seq(Field) /\ Len(todo') = Len(todo) - 1 /\ Rest(Tail(todo), MsgLen)
      <4>1. MsgLen \in 0 .. MsgLen
        BY <1>4
      <4>2. /\ MsgLen - Len(todo) + 1 \in 1 .. MsgLen
            /\ Head(todo) = M[MsgLen - Len(todo) + 1]
            /\ Tail(todo) \in Seq(Field) /\ Len(Tail(todo)) = Len(todo) - 1
            /\ Rest(Tail(todo), MsgLen)
        BY <1>1, <1>2, <1>5, <3>1, <4>1, NextField
      <4>3. i >= 5
        BY <1>4, <1>5, <3>1, <3>i
      <4>4. QED BY <1>2, <3>i, <4>2, <4>3
    <3>4. FieldsDone = i - 1 /\ FieldsDone' = i
      BY <1>3, <1>4, <1>5, <3>3, <3>i DEF FieldsDone
    <3>5. pos = Offset[i] /\ Len(buffer) = pos
      <4>1. FieldsDone + 1 = i
        BY <3>3, <3>4
      <4>2. QED BY <3>1, <3>2, <4>1
    <3>6. buffer' = Write(buffer, pos, Enc(i)) /\ pos' = pos + Len(Enc(i))
      BY <3>3 DEF WriteField, Enc
    <3>7. Len(Enc(i)) = Width(i) /\ Offset[i + 1] = Offset[i] + Width(i)
          /\ Width(i) \in Nat /\ Offset[i] \in Nat
      <4>1. i \in 1 .. MsgLen + 1
        BY <1>4, <3>3
      <4>2. QED BY <1>1, <1>4, <3>3, <4>1, Encoded
    <3>8. /\ buffer' \in Seq(Byte)
          /\ Len(buffer') = IF Offset[i + 1] > Len(buffer) THEN Offset[i + 1] ELSE Len(buffer)
          /\ Placed(i)'
          /\ \A j \in 1 .. MsgLen :
               /\ Placed(j)
               /\ Offset[j + 1] <= Offset[i] \/ Offset[i + 1] <= Offset[j]
               => Placed(j)'
      <4>1. State /\ buffer \in Seq(Byte) /\ i \in 1 .. MsgLen
        BY <1>1, <1>5, <3>3
      <4>2. pos = Offset[i] /\ pos <= Len(buffer) /\ buffer' = Write(buffer, pos, Enc(i))
        BY <1>5, <3>5, <3>6
      <4>3. cmd' = cmd /\ writer' = writer /\ fields' = fields
        BY <1>2
      <4>4. QED BY <4>1, <4>2, <4>3, FieldWritten
    <3>9. pos' = Offset[i + 1] /\ Len(buffer') = pos'
      BY <3>5, <3>6, <3>7, <3>8
    <3>10. \A j \in 5 .. FieldsDone' : Placed(j)'
      <4> SUFFICES ASSUME NEW j \in 5 .. i PROVE Placed(j)'
        BY <3>4
      <4>1. CASE j = i
        BY <3>8, <4>1
      <4>2. CASE j # i
        <5>1. j \in 5 .. FieldsDone /\ j \in 1 .. MsgLen
          BY <1>4, <3>3, <3>4, <4>2
        <5>2. Placed(j)
          BY <3>1, <5>1
        <5>3. Offset[j + 1] <= Offset[i]
          BY <1>4, <3>5, <5>1, <5>2 DEF Placed
        <5>4. QED BY <3>8, <5>1, <5>2, <5>3
      <4>3. QED BY <4>1, <4>2
    <3>11. PayloadInv'
      <4>1. Rest(todo, MsgLen)'
        BY <1>2, <1>3, <3>3 DEF Rest
      <4>2. Len(todo') <= MsgLen' - 4
        BY <1>3, <1>4, <1>5, <3>1, <3>3
      <4>3. pos' = Offset'[FieldsDone' + 1]
        BY <1>3, <3>4, <3>9
      <4>4. QED BY <1>2, <3>2, <3>9, <3>10, <4>1, <4>2, <4>3 DEF PayloadInv
    <3>12. HeaderInv'
      BY <1>2, <2>1 DEF HeaderInv
    <3>13. TypeOK'
      <4>1. pos' \in 0 .. Len(buffer')
        BY <3>5, <3>7, <3>9
      <4>2. QED BY <1>1, <1>2, <3>3, <3>8, <4>1 DEF TypeOK
    <3>14. QED BY <3>11, <3>12, <3>13
  <2>2. CASE pc = "header"
    <3>1. /\ Rest(todo, 4) /\ pos = Offset[HeaderDone + 1]
          /\ cmd = "verack" => Len(buffer) = pos
          /\ cmd # "verack" => Len(buffer) = Offset[MsgLen + 1]
          /\ \A i \in 1 .. HeaderDone : Placed(i)
          /\ \A i \in 5 .. MsgLen : Placed(i)
      BY <1>1, <2>2 DEF HeaderInv
    <3>i. PICK i \in Int : i = 4 - Len(todo) + 1
      <4>1. 4 - Len(todo) + 1 \in Int
        BY <1>5
      <4>2. QED BY <4>1
    <3>2. /\ i \in 1 .. 4 /\ Head(todo) = M[i]
          /\ todo' \in Seq(Field) /\ Len(todo') = Len(todo) - 1 /\ Rest(Tail(todo), 4)
      <4>1. 4 \in 0 .. MsgLen
        BY <1>4
      <4>2. /\ 4 - Len(todo) + 1 \in 1 .. 4
            /\ Head(todo) = M[4 - Len(todo) + 1]
            /\ Tail(todo) \in Seq(Field) /\ Len(Tail(todo)) = Len(todo) - 1
            /\ Rest(Tail(todo), 4)
        BY <1>1, <1>2, <1>5, <3>1, <4>1, NextField
      <4>3. QED BY <1>2, <3>i, <4>2
    <3>3. HeaderDone = i - 1 /\ HeaderDone' = i
      BY <1>5, <3>2, <3>i DEF HeaderDone
    <3>4. pos = Offset[i]
      <4>1. HeaderDone + 1 = i
        BY <3>2, <3>3
      <4>2. QED BY <3>1, <4>1
    <3>5. i \in 1 .. MsgLen /\ i \in 1 .. 5 /\ i + 1 \in 1 .. 5
      <4>1. MsgLen \in Nat /\ MsgLen >= 4 /\ i \in 1 .. 4
        BY <1>4, <3>2
      <4>2. QED BY <4>1
    <3>6. buffer' = Write(buffer, pos, Enc(i)) /\ pos' = pos + Len(Enc(i))
      BY <3>2 DEF WriteField, Enc
    <3>7. /\ Len(Enc(i)) = Width(i) /\ Offset[i + 1] = Offset[i] + Width(i)
          /\ Width(i) \in Nat /\ Offset[i] \in Nat /\ Offset[i + 1] <= 24
      <4>1. i \in 1 .. MsgLen + 1 /\ 5 \in 1 .. 5
        BY <1>4, <3>5
      <4>2. Offset[i + 1] <= Offset[5]
        BY <1>4, <3>5, <4>1
      <4>3. QED BY <1>1, <1>4, <3>5, <4>1, <4>2, Encoded
    <3>8. /\ buffer' \in Seq(Byte)
          /\ Len(buffer') = IF Offset[i + 1] > Len(buffer) THEN Offset[i + 1] ELSE Len(buffer)
          /\ Placed(i)'
          /\ \A j \in 1 .. MsgLen :
               /\ Placed(j)
               /\ Offset[j + 1] <= Offset[i] \/ Offset[i + 1] <= Offset[j]
               => Placed(j)'
      <4>1. State /\ buffer \in Seq(Byte) /\ i \in 1 .. MsgLen
        BY <1>1, <1>5, <3>5
      <4>2. pos = Offset[i] /\ pos <= Len(buffer) /\ buffer' = Write(buffer, pos, Enc(i))
        BY <1>5, <3>4, <3>6
      <4>3. cmd' = cmd /\ writer' = writer /\ fields' = fields
        BY <1>2
      <4>4. QED BY <4>1, <4>2, <4>3, FieldWritten
    <3>9. pos' = Offset[i + 1]
      BY <3>4, <3>6, <3>7
    <3>10. cmd = "verack" => Len(buffer') = pos'
      BY <3>1, <3>4, <3>7, <3>8, <3>9
    <3>11. cmd # "verack" => Len(buffer') = Offset[MsgLen + 1]
      <4>1. Offset[MsgLen + 1] >= 24 /\ Offset[MsgLen + 1] \in Nat
        <5>1. MsgLen + 1 \in 5 .. MsgLen + 1 /\ MsgLen + 1 \in 1 .. MsgLen + 1
          BY <1>4
        <5>2. QED BY <1>4, <5>1
      <4>2. QED BY <3>1, <3>7, <3>8, <4>1
    <3>12. \A j \in 1 .. HeaderDone' : Placed(j)'
      <4> SUFFICES ASSUME NEW j \in 1 .. i PROVE Placed(j)'
        BY <3>3
      <4>1. CASE j = i
        BY <3>8, <4>1
      <4>2. CASE j # i
        <5>1. j \in 1 .. HeaderDone /\ j \in 1 .. MsgLen /\ j + 1 \in 1 .. 5 /\ j + 1 <= i
          BY <1>4, <3>2, <3>3, <4>2
        <5>2. Placed(j)
          BY <3>1, <5>1
        <5>3. Offset[j + 1] <= Offset[i]
          BY <1>4, <3>5, <5>1
        <5>4. QED BY <3>8, <5>1, <5>2, <5>3
      <4>3. QED BY <4>1, <4>2
    <3>13. \A j \in 5 .. MsgLen : Placed(j)'
      <4> TAKE j \in 5 .. MsgLen
      <4>1. j \in 1 .. MsgLen /\ j \in 5 .. MsgLen + 1
        BY <1>4
      <4>2. Offset[j] >= 24 /\ Offset[j] \in Nat
        BY <1>4, <4>1
      <4>3. Offset[i + 1] <= Offset[j]
        BY <3>7, <4>2
      <4>4. QED BY <3>1, <3>8, <4>1, <4>3
    <3>14. HeaderInv'
      <4>1. Rest(todo, 4)'
        BY <1>2, <1>3, <3>2 DEF Rest
      <4>2. pos' = Offset'[HeaderDone' + 1]
        BY <1>3, <3>3, <3>9
      <4>3. QED BY <1>2, <1>3, <3>10, <3>11, <3>12, <3>13, <4>1, <4>2 DEF HeaderInv
    <3>15. PayloadInv'
      BY <1>2, <2>2 DEF PayloadInv
    <3>16. TypeOK'
      <4>1. Len(buffer') \in Nat /\ pos' \in Nat /\ pos' <= Len(buffer')
        BY <1>5, <3>4, <3>7, <3>8, <3>9
      <4>2. QED BY <1>1, <1>2, <3>2, <3>8, <4>1 DEF TypeOK
    <3>17. QED BY <3>14, <3>15, <3>16
  <2>3. QED BY <1>2, <2>1, <2>2
<1>8. Sizes'
  BY <1>1, <1>2 DEF Sizes
<1>9. MessageInv' /\ ReadInv'
  BY <1>1, <1>2 DEF MessageInv, ReadInv, Sending
<1>10. HeaderFieldsInv'
  BY <1>1, <1>2, <1>3 DEF HeaderFieldsInv
<1>11. QED BY <1>7, <1>8, <1>9, <1>10 DEF IInv

\* The fields of a payload are not those of the header.
LEMMA PayloadNames ==
  ASSUME State, NEW i \in 5 .. MsgLen
  PROVE  M[i] \notin {"magic", "command", "payloadLength", "checksum"}
<1>1. MsgLen \in Nat
  BY Layout
<1>2. CASE cmd = "verack"
  BY <1>1, <1>2, FieldsOfMessage
<1>3. CASE cmd = "nonce"
  <2>1. MsgLen = 5 /\ M[5] = "nonce"
    BY <1>3, FieldsOfMessage
  <2>2. i = 5
    BY <2>1
  <2>3. QED BY <2>1, <2>2
<1>4. CASE cmd = "version"
  <2>1. MsgLen \in {10, 16, 17} /\ M[i] = VersionTable[i - 4]
    BY <1>4, FieldsOfMessage
  <2>2. i - 4 \in 1 .. 13
    BY <2>1
  <2>3. \A k \in 1 .. 13 :
          VersionTable[k] \notin {"magic", "command", "payloadLength", "checksum"}
    BY DEF VersionTable
  <2>4. QED BY <2>1, <2>2, <2>3
<1>5. QED BY <1>2, <1>3, <1>4 DEF State

LEMMA Constants ==
  /\ Magic \in Seq(Byte) /\ Len(Magic) = 4
  /\ \A host \in Hosts : Memory(host, Hash) \in Seq(Byte) /\ Len(Memory(host, Hash)) = 4
  /\ \A c \in DOMAIN Names : Names[c] \in Seq(Byte) /\ Len(Names[c]) = 12
<1>1. ASSUME NEW m \in Nat, NEW w \in Word(m) PROVE w \in Seq(Byte) /\ Len(w) = m
  <2>1. w \in Seq(Byte)
    BY SeqDef DEF Word
  <2>2. QED BY <2>1, LenProperties DEF Word
<1>2. Magic \in Word(4) /\ Hash \in Word(4) /\ \A c \in DOMAIN Names : Names[c] \in Word(12)
  BY SerializationAssumption
<1>3. Hash \in Seq(Byte) /\ Len(Hash) = 4
  BY <1>1, <1>2
<1>4. \A host \in Hosts : Memory(host, Hash) \in Seq(Byte) /\ Len(Memory(host, Hash)) = 4
  BY <1>3, Converted DEF Orders
<1>5. QED BY <1>1, <1>2, <1>4

LEMMA HeaderStep == IInv /\ MakeHeader => IInv'
<1> SUFFICES ASSUME IInv, MakeHeader PROVE IInv'
  OBVIOUS
<1>1. State /\ TypeOK /\ Sizes /\ PayloadInv /\ MessageInv
  BY InvState DEF IInv
<1>2. /\ pc = "payload" /\ todo = <<>> /\ pos' = 0 /\ todo' = HeaderFields /\ pc' = "header"
      /\ cmd' = cmd /\ got' = got /\ writer' = writer /\ reader' = reader
      /\ buffer' = buffer /\ genuine' = genuine
  BY DEF MakeHeader
<1>3. /\ MsgLen \in Nat /\ MsgLen >= 4 /\ Offset[1] = 0 /\ Offset[5] = 24
      /\ cmd = "verack" => MsgLen = 4
  BY <1>1, Layout, FieldsOfMessage
<1>4. Len(todo) = 0 /\ FieldsDone = MsgLen
  BY <1>2, <1>3 DEF FieldsDone
<1>5. /\ cmd = "verack" => Len(buffer) = 0 /\ pos = 0
      /\ cmd # "verack" => Len(buffer) = Offset[MsgLen + 1]
      /\ \A i \in 5 .. MsgLen : Placed(i)
  BY <1>1, <1>2, <1>4 DEF PayloadInv
<1> DEFINE n == Offset[MsgLen + 1] - MESSAGE_HEADER_SIZE
<1>6. n \in Nat
  <2>1. MsgLen + 1 \in 1 .. MsgLen + 1 /\ MsgLen + 1 \in 5 .. MsgLen + 1
    BY <1>3
  <2>2. Offset[MsgLen + 1] \in Nat /\ Offset[MsgLen + 1] >= 24
    BY <1>1, <2>1, Layout
  <2>3. QED BY <2>2 DEF MESSAGE_HEADER_SIZE
<1>7. fields' = [fields EXCEPT !["magic"] = Magic, !["command"] = Names[cmd],
                               !["payloadLength"] = Word32(n),
                               !["checksum"] = Memory(writer, Hash)]
  <2>1. (IF cmd = "verack" THEN 0 ELSE Len(buffer) - MESSAGE_HEADER_SIZE) = n
    BY <1>3, <1>5 DEF MESSAGE_HEADER_SIZE
  <2>2. QED BY <2>1 DEF MakeHeader
<1> HIDE DEF n
<1>8. /\ Magic \in Seq(Byte) /\ Len(Magic) = 4
      /\ Memory(writer, Hash) \in Seq(Byte) /\ Len(Memory(writer, Hash)) = 4
      /\ Names[cmd] \in Seq(Byte) /\ Len(Names[cmd]) = 12
  BY <1>1, Constants DEF TypeOK
<1>9. Word32(n) \in Seq(Byte) /\ Len(Word32(n)) = 4
  BY <1>6, Words
<1>10. fields \in [Field -> Seq(Byte)]
  BY <1>1 DEF TypeOK
<1>11. {"magic", "command", "payloadLength", "checksum", "version", "user_agent"} \subseteq Field
  BY DEF Field, Size
<1>12. /\ fields' \in [Field -> Seq(Byte)]
       /\ \A f \in Field \ {"magic", "command", "payloadLength", "checksum"} :
            fields'[f] = fields[f]
       /\ fields'["magic"] = Magic /\ fields'["command"] = Names[cmd]
       /\ fields'["payloadLength"] = Word32(n)
       /\ fields'["checksum"] = Memory(writer, Hash)
  BY <1>7, <1>8, <1>9, <1>10, <1>11
<1>13. fields'["version"] = fields["version"] /\ fields'["user_agent"] = fields["user_agent"]
  BY <1>11, <1>12
<1>14. Sizes'
  <2>1. ASSUME NEW f \in DOMAIN Size PROVE Len(fields'[f]) = Size[f]
    <3>1. CASE f \in {"magic", "command", "payloadLength", "checksum"}
      <4>1. /\ Size["magic"] = 4 /\ Size["command"] = 12
            /\ Size["payloadLength"] = 4 /\ Size["checksum"] = 4
        BY DEF Size
      <4>2. QED BY <1>8, <1>9, <1>12, <3>1, <4>1
    <3>2. CASE f \notin {"magic", "command", "payloadLength", "checksum"}
      BY <1>1, <1>12, <3>2 DEF Field, Sizes
    <3>3. QED BY <3>1, <3>2
  <2>2. QED BY <1>1, <1>13, <2>1 DEF Sizes
<1>15. M' = M /\ MsgLen' = MsgLen /\ V' = V
  BY <1>2, <1>13 DEF M, MsgLen, V, MessageFields
<1>16. AgentWidth' = AgentWidth
  BY <1>2, <1>13 DEF AgentWidth
<1>17. Offset' = Offset /\ \A i : Width(i)' = Width(i)
  BY <1>2, <1>15, <1>16 DEF Offset, Width
<1>18. \A i \in 5 .. MsgLen : Placed(i)'
  <2> TAKE i \in 5 .. MsgLen
  <2>1. i \in 1 .. MsgLen
    BY <1>3
  <2>2. M[i] \in Field \ {"magic", "command", "payloadLength", "checksum"}
    BY <1>1, <2>1, Layout, PayloadNames
  <2>3. Enc(i)' = Enc(i)
    BY <1>2, <1>12, <1>15, <2>2 DEF Enc
  <2>4. QED BY <1>2, <1>5, <1>17, <2>3 DEF Placed
<1>19. Len(HeaderFields) = 4 /\ Rest(HeaderFields, 4) /\ HeaderFields \in Seq(Field)
  BY <1>1, FreshLists, Lists
<1>20. TypeOK'
  <2>1. pos' \in 0 .. Len(buffer')
    BY <1>2, InvState
  <2>2. QED BY <1>1, <1>2, <1>12, <1>19, <2>1 DEF TypeOK
<1>21. HeaderInv'
  <2>1. Rest(todo, 4)'
    BY <1>2, <1>15, <1>19 DEF Rest
  <2>2. HeaderDone' = 0
    BY <1>2, <1>19 DEF HeaderDone
  <2>3. pos' = Offset'[HeaderDone' + 1] /\ \A i \in 1 .. HeaderDone' : FALSE
    BY <1>2, <1>3, <1>17, <2>2
  <2>4. QED BY <1>2, <1>5, <1>15, <1>17, <1>18, <2>1, <2>3 DEF HeaderInv
<1>22. HeaderFieldsInv'
  BY <1>2, <1>12, <1>15, <1>17 DEF HeaderFieldsInv, n
<1>23. PayloadInv' /\ MessageInv' /\ ReadInv'
  BY <1>1, <1>2 DEF PayloadInv, MessageInv, ReadInv, Sending
<1>24. QED BY <1>14, <1>20, <1>21, <1>22, <1>23 DEF IInv

LEMMA PushStep == IInv /\ PushCommand => IInv'
<1> SUFFICES ASSUME IInv, PushCommand PROVE IInv'
  OBVIOUS
<1>1. State /\ TypeOK /\ Sizes /\ HeaderInv /\ MessageInv /\ HeaderFieldsInv /\ ReadInv
  BY InvState DEF IInv
<1>2. /\ pc = "header" /\ todo = <<>> /\ pc' = "sent" /\ todo' = todo /\ pos' = pos
      /\ cmd' = cmd /\ fields' = fields /\ got' = got /\ buffer' = buffer
      /\ writer' = writer /\ reader' = reader /\ genuine' = genuine
  BY DEF PushCommand
<1>3. /\ M' = M /\ MsgLen' = MsgLen /\ Offset' = Offset
      /\ \A i : Width(i)' = Width(i) /\ Enc(i)' = Enc(i)
  BY <1>2, Frozen
<1>4. /\ MsgLen \in Nat /\ MsgLen >= 4
      /\ cmd = "verack" => MsgLen = 4
  BY <1>1, Layout, FieldsOfMessage
<1>5. HeaderDone = 4
  BY <1>2 DEF HeaderDone
<1>6. /\ \A i \in 1 .. MsgLen : Placed(i)
      /\ Len(buffer) = Offset[MsgLen + 1]
  <2>1. /\ pos = Offset[5]
        /\ cmd = "verack" => Len(buffer) = pos
        /\ cmd # "verack" => Len(buffer) = Offset[MsgLen + 1]
        /\ \A i \in 1 .. 4 : Placed(i)
        /\ \A i \in 5 .. MsgLen : Placed(i)
    BY <1>1, <1>2, <1>5 DEF HeaderInv
  <2>2. Len(buffer) = Offset[MsgLen + 1]
    BY <1>4, <2>1
  <2>3. \A i \in 1 .. MsgLen : i \in 1 .. 4 \/ i \in 5 .. MsgLen
    BY <1>4
  <2>4. QED BY <2>1, <2>2, <2>3
<1>7. \A i \in 1 .. MsgLen : Placed(i)'
  BY <1>2, <1>3, <1>6 DEF Placed
<1>8. MessageInv'
  BY <1>1, <1>2, <1>3, <1>6, <1>7 DEF MessageInv, Sending
<1>9. TypeOK' /\ Sizes' /\ HeaderFieldsInv'
  BY <1>1, <1>2, <1>3 DEF TypeOK, Sizes, HeaderFieldsInv
<1>10. PayloadInv' /\ HeaderInv' /\ ReadInv'
  BY <1>1, <1>2 DEF PayloadInv, HeaderInv, ReadInv
<1>11. QED BY <1>8, <1>9, <1>10 DEF IInv

LEMMA DeliverStep ==
  ASSUME NEW following \in Followings
  PROVE  IInv /\ Deliver(following) => IInv'
<1> SUFFICES ASSUME IInv, Deliver(following) PROVE IInv'
  OBVIOUS
<1>1. State /\ TypeOK /\ Sizes /\ MessageInv /\ HeaderFieldsInv
  BY InvState DEF IInv
<1>2. /\ pc = "sent" /\ pc' = "readHeader" /\ todo' = HeaderFields /\ pos' = 0
      /\ cmd' = cmd /\ fields' = fields /\ got' = got /\ buffer' = buffer \o following
      /\ writer' = writer /\ reader' = reader /\ genuine' = genuine
  BY DEF Deliver, BeginRead
<1>3. /\ M' = M /\ MsgLen' = MsgLen /\ Offset' = Offset
      /\ \A i : Width(i)' = Width(i) /\ Enc(i)' = Enc(i)
  BY <1>2, Frozen
<1>4. buffer \in Seq(Byte) /\ following \in Seq(Byte)
  BY <1>1, SerializationAssumption DEF TypeOK
<1>5. /\ buffer' \in Seq(Byte) /\ Len(buffer') \in Nat /\ Len(buffer) \in Nat
      /\ Len(buffer') >= Len(buffer)
      /\ \A k \in 1 .. Len(buffer) : buffer'[k] = buffer[k]
  BY <1>2, <1>4, ConcatProperties, LenProperties
<1>6. ASSUME NEW i \in 1 .. MsgLen PROVE Placed(i)'
  <2>1. Offset[i] \in Nat /\ Width(i) \in Nat
    <3>1. i \in 1 .. MsgLen + 1
      BY <1>1, Layout
    <3>2. QED BY <1>1, <3>1, Layout
  <2>2. /\ Offset[i] + Width(i) <= Len(buffer)
        /\ \A j \in 1 .. Width(i) : buffer[Offset[i] + j] = Enc(i)[j]
    BY <1>1, <1>2 DEF MessageInv, Sending, Placed
  <2>3. Offset[i] + Width(i) <= Len(buffer')
    BY <1>5, <2>1, <2>2
  <2>4. ASSUME NEW j \in 1 .. Width(i) PROVE buffer'[Offset[i] + j] = Enc(i)[j]
    <3>1. Offset[i] + j \in 1 .. Len(buffer)
      BY <1>5, <2>1, <2>2
    <3>2. QED BY <1>5, <2>2, <3>1
  <2>5. QED BY <1>3, <2>3, <2>4 DEF Placed
<1>7. MessageInv'
  BY <1>2, <1>3, <1>6 DEF MessageInv, Sending
<1>8. Len(HeaderFields) = 4 /\ Rest(HeaderFields, 4) /\ HeaderFields \in Seq(Field)
  BY <1>1, FreshLists, Lists
<1>9. TypeOK'
  <2>1. pos' \in 0 .. Len(buffer')
    BY <1>2, <1>5
  <2>2. QED BY <1>1, <1>2, <1>5, <1>8, <2>1 DEF TypeOK
<1>10. ReadInv'
  <2>1. Rest(todo, 4)'
    BY <1>2, <1>3, <1>8 DEF Rest
  <2>2. HeaderDone' = 0
    BY <1>2, <1>8 DEF HeaderDone
  <2>3. pos' = Offset'[HeaderDone' + 1] /\ \A i \in 1 .. HeaderDone' : FALSE
    BY <1>1, <1>2, <1>3, <2>2, Layout
  <2>4. QED BY <1>2, <2>1, <2>3 DEF ReadInv, GotUpTo
<1>11. Sizes' /\ HeaderFieldsInv'
  BY <1>1, <1>2, <1>3 DEF Sizes, HeaderFieldsInv
<1>12. PayloadInv' /\ HeaderInv'
  BY <1>2 DEF PayloadInv, HeaderInv
<1>13. QED BY <1>7, <1>9, <1>10, <1>11, <1>12 DEF IInv

LEMMA DeliverOtherStep ==
  ASSUME NEW size \in OtherSizes
  PROVE  IInv /\ DeliverOther(size) => IInv'
<1> SUFFICES ASSUME IInv, DeliverOther(size) PROVE IInv'
  OBVIOUS
<1>1. State /\ TypeOK /\ Sizes /\ HeaderFieldsInv
  BY InvState DEF IInv
<1>2. /\ pc = "sent" /\ pc' = "readHeader" /\ todo' = HeaderFields /\ pos' = 0
      /\ cmd' = cmd /\ fields' = fields /\ got' = got
      /\ writer' = writer /\ reader' = reader /\ genuine' = FALSE
  BY DEF DeliverOther, BeginRead
<1>3. MsgLen' = MsgLen /\ Offset' = Offset
  BY <1>2, Frozen
<1> DEFINE ours == WriteCompactSize(writer, Len(fields["user_agent"]))
           a == SubSeq(buffer, 1, AgentAt)
           c == SubSeq(buffer, AgentAt + Len(ours) + 1, Len(buffer))
<1>4. size \in Seq(Byte)
  BY SerializationAssumption
<1>5. buffer' = (a \o size) \o c
  BY DEF DeliverOther
<1>6. buffer' \in Seq(Byte) /\ Len(buffer') \in Nat
  <2>1. buffer \in Seq(Byte)
    BY <1>1 DEF TypeOK
  <2>2. ASSUME NEW p \in Nat, NEW q \in Nat, p >= 1, q <= Len(buffer)
        PROVE  SubSeq(buffer, p, q) \in Seq(Byte)
    <3>1. \A k \in p .. q : buffer[k] \in Byte
      BY <2>1, <2>2, ElementOfSeq
    <3>2. QED BY <3>1, SubSeqProperties
  <2>3. Len(buffer) \in Nat /\ Len(buffer) >= AgentAt
    <3>1. 15 \in 1 .. MsgLen /\ Offset[15] = 104 /\ M[15] = "user_agent"
      BY <1>1, Layout DEF DeliverOther, V
    <3>2. Placed(15)
      BY <1>2, <3>1, InvState DEF IInv, MessageInv, Sending
    <3>3. Width(15) \in Nat
      BY <1>1, <3>1, Layout
    <3>4. QED BY <2>1, <3>1, <3>2, <3>3, LenProperties DEF Placed, AgentAt
  <2>4. Len(ours) \in Nat
    <3>1. fields["user_agent"] \in Seq(Byte)
      BY <1>1 DEF TypeOK, Field
    <3>2. ours \in Seq(Byte)
      BY <1>1, <3>1, SizeBytes, LenProperties DEF State
    <3>3. QED BY <3>2, LenProperties
  <2>5. a \in Seq(Byte) /\ c \in Seq(Byte)
    <3>1. AgentAt \in Nat /\ AgentAt + Len(ours) + 1 \in Nat /\ AgentAt + Len(ours) + 1 >= 1
      BY <2>4 DEF AgentAt
    <3>2. a \in Seq(Byte)
      BY <2>2, <2>3, <3>1
    <3>3. c \in Seq(Byte)
      BY <2>2, <2>3, <3>1
    <3>4. QED BY <3>2, <3>3
  <2> HIDE DEF a, c
  <2>6. (a \o size) \o c \in Seq(Byte)
    BY <1>4, <2>5, ConcatProperties
  <2>7. QED BY <1>5, <2>6, LenProperties
<1>7. TypeOK'
  <2>1. pos' \in 0 .. Len(buffer')
    BY <1>2, <1>6
  <2>2. QED BY <1>1, <1>2, <1>6, <2>1, Lists DEF TypeOK
<1>8. Sizes' /\ HeaderFieldsInv'
  BY <1>1, <1>2, <1>3 DEF Sizes, HeaderFieldsInv
<1>9. PayloadInv' /\ HeaderInv' /\ ReadInv' /\ MessageInv'
  BY <1>2 DEF PayloadInv, HeaderInv, ReadInv, MessageInv, Sending
<1>10. QED BY <1>7, <1>8, <1>9 DEF IInv

-------------------------------------------------------------------------------
(* The host that reads. *)

Read == ReadField \/ ReadAgent

\* Of any message, bytes are read at a position inside the buffer.
LEMMA ReadTypes ==
  ASSUME TypeOK, Read
  PROVE  TypeOK'
<1>1. /\ buffer \in Seq(Byte) /\ pos \in 0 .. Len(buffer) /\ reader \in Hosts
      /\ got \in [Field -> Seq(Byte)] /\ todo \in Seq(Field)
  BY DEF TypeOK
<1>2. /\ todo # <<>> /\ todo' = Tail(todo)
      /\ cmd' = cmd /\ fields' = fields /\ writer' = writer /\ reader' = reader
      /\ buffer' = buffer /\ pc' = pc /\ genuine' = genuine
  BY DEF Read, ReadField, ReadAgent, Reading
<1>3. Head(todo) \in Field /\ Tail(todo) \in Seq(Field)
  BY <1>1, <1>2, HeadTailProperties
<1>4. got' \in [Field -> Seq(Byte)] /\ pos' \in 0 .. Len(buffer)
  <2>1. CASE ReadField
    <3> DEFINE f == Head(todo)
               r == read(pos, Size[f])
    <3>1. f \in DOMAIN Size /\ f \in Field
      BY <1>3, <2>1 DEF ReadField
    <3>2. Size[f] \in Nat
      BY <3>1 DEF Size
    <3>3. r.bytes \in Seq(Byte) /\ r.next \in 0 .. Len(buffer)
      BY <1>1, <3>2, Taken
    <3>4. got' = [got EXCEPT ![f] = Unserialize(reader, f, r.bytes)] /\ pos' = r.next
      BY <2>1 DEF ReadField
    <3> HIDE DEF f, r
    <3>5. Unserialize(reader, f, r.bytes) \in Seq(Byte)
      BY <1>1, <3>1, <3>3, Serialized
    <3>6. QED BY <1>1, <3>1, <3>3, <3>4, <3>5
  <2>2. CASE ReadAgent
    <3> DEFINE n == CompactValue(AgentSize.first, AgentSize.rest)
               r == read(AgentSize.next, n)
    <3>1. AgentSize.first < 255
      BY <2>2 DEF ReadAgent, Accepted
    <3>2. n \in Nat /\ AgentSize.next \in 0 .. Len(buffer)
      BY <1>1, <3>1, AgentSizeBytes
    <3>3. r.bytes \in Seq(Byte) /\ r.next \in 0 .. Len(buffer)
      BY <1>1, <3>2, Taken
    <3>4. got' = [got EXCEPT !["user_agent"] = r.bytes] /\ pos' = r.next
      BY <2>2 DEF ReadAgent
    <3> HIDE DEF r
    <3>5. QED BY <1>1, <3>3, <3>4
  <2>3. QED BY <2>1, <2>2 DEF Read
<1>5. QED BY <1>2, <1>3, <1>4 DEF TypeOK

\* Of a message that is in the buffer as it was written, the next field is read as
\* it was written, to its end.
LEMMA ReadOne ==
  ASSUME IInv, State, NEW i \in 1 .. MsgLen,
         Reading, Head(todo) = M[i], pos = Offset[i], Placed(i)
  PROVE  /\ ~AgentRejected
         /\ Read => /\ pos' = Offset[i + 1]
                    /\ got' = [got EXCEPT ![M[i]] = fields[M[i]]]
<1>1. buffer \in Seq(Byte) /\ reader \in Hosts /\ writer \in Hosts
  BY DEF IInv, TypeOK
<1>2. /\ M[i] \in Field /\ fields[M[i]] \in Seq(Byte)
  BY Encoded
<1>3. CASE M[i] = "user_agent"
  <2>1. "user_agent" \notin DOMAIN Size
    BY DEF Size
  <2>2. LET n == CompactValue(AgentSize.first, AgentSize.rest)
        IN /\ Accepted(AgentSize.first, AgentSize.rest)
           /\ read(AgentSize.next, n).bytes = fields["user_agent"]
           /\ read(AgentSize.next, n).next = Offset[i + 1]
    BY <1>1, <1>3, AgentRead
  <2>3. ~AgentRejected /\ ~ReadField
    BY <1>3, <2>1, <2>2 DEF AgentRejected, ReadField
  <2>4. QED BY <1>3, <2>2, <2>3 DEF Read, ReadAgent
<1>4. CASE M[i] # "user_agent"
  <2>1. M[i] \in DOMAIN Size
    BY <1>2, <1>4 DEF Field
  <2>2. ~AgentRejected /\ ~ReadAgent
    BY <1>4 DEF AgentRejected, ReadAgent
  <2>3. Width(i) = Size[M[i]]
    BY <1>4 DEF Width
  <2>4. /\ read(pos, Size[M[i]]).bytes = Enc(i)
        /\ read(pos, Size[M[i]]).next = Offset[i + 1]
    BY <1>1, <2>3, ReadPlaced
  <2>5. Unserialize(reader, M[i], Enc(i)) = fields[M[i]]
    BY <1>1, <1>2, <2>1, FieldRoundTrip DEF Enc
  <2>6. ReadField => /\ pos' = Offset[i + 1]
                     /\ got' = [got EXCEPT ![M[i]] = fields[M[i]]]
    BY <2>4, <2>5 DEF ReadField
  <2>7. QED BY <2>2, <2>6 DEF Read
<1>5. QED BY <1>3, <1>4

\* One of two lists is read: that of the header, or that of the whole message.
LEMMA ReadAlong ==
  ASSUME IInv, State, genuine, NEW n \in 0 .. MsgLen,
         \A i \in 1 .. MsgLen : Placed(i),
         Reading, Rest(todo, n), pos = Offset[n - Len(todo) + 1], GotUpTo(n - Len(todo))
  PROVE  /\ ~AgentRejected
         /\ Read => /\ Rest(Tail(todo), n)
                    /\ pos' = Offset[n - Len(Tail(todo)) + 1]
                    /\ \A k \in 1 .. n - Len(Tail(todo)) : got'[M[k]] = fields[M[k]]
<1>1. todo \in Seq(Field) /\ todo # <<>> /\ got \in [Field -> Seq(Byte)]
  BY DEF Reading, IInv, TypeOK
<1>2. /\ n - Len(todo) + 1 \in 1 .. n
      /\ Head(todo) = M[n - Len(todo) + 1]
      /\ Tail(todo) \in Seq(Field) /\ Len(Tail(todo)) = Len(todo) - 1
      /\ Rest(Tail(todo), n)
  BY <1>1, NextField
<1>3. MsgLen \in Nat /\ Len(todo) \in Nat
  BY InvState, Layout
<1>4. PICK i \in Int : i = n - Len(todo) + 1
  BY <1>2
<1>5. i \in 1 .. MsgLen /\ Head(todo) = M[i] /\ pos = Offset[i]
  BY <1>2, <1>3, <1>4
<1>6. /\ ~AgentRejected
      /\ Read => /\ pos' = Offset[i + 1]
                 /\ got' = [got EXCEPT ![M[i]] = fields[M[i]]]
  BY <1>5, ReadOne
<1>7. n - Len(Tail(todo)) = i
  BY <1>2, <1>3, <1>4
<1>8. ASSUME Read, NEW k \in 1 .. i PROVE got'[M[k]] = fields[M[k]]
  <2>1. k \in 1 .. MsgLen /\ (k = i \/ k \in 1 .. n - Len(todo))
    BY <1>2, <1>3, <1>4, <1>5
  <2>2. M[k] \in Field
    BY <2>1, Layout
  <2>3. CASE M[k] = M[i]
    BY <1>1, <1>6, <1>8, <2>2, <2>3
  <2>4. CASE M[k] # M[i]
    <3>1. k \in 1 .. n - Len(todo)
      BY <2>1, <2>4
    <3>2. got[M[k]] = fields[M[k]]
      BY <3>1 DEF GotUpTo
    <3>3. QED BY <1>1, <1>6, <1>8, <2>2, <2>4, <3>2
  <2>5. QED BY <2>3, <2>4
<1>9. QED BY <1>2, <1>6, <1>7, <1>8

LEMMA ReadStep == IInv /\ (Read \/ AgentRejected) => IInv'
<1> SUFFICES ASSUME IInv, Read \/ AgentRejected PROVE IInv'
  OBVIOUS
<1>1. State /\ TypeOK /\ Sizes /\ MessageInv /\ HeaderFieldsInv /\ ReadInv
  BY InvState DEF IInv
<1>2. /\ Reading /\ pc \in {"readHeader", "readPayload"}
      /\ cmd' = cmd /\ fields' = fields /\ writer' = writer /\ reader' = reader
      /\ buffer' = buffer /\ genuine' = genuine
  BY DEF Read, ReadField, ReadAgent, AgentRejected, Reading
<1>3. /\ M' = M /\ MsgLen' = MsgLen /\ Offset' = Offset
      /\ \A i : Width(i)' = Width(i) /\ Enc(i)' = Enc(i)
  BY <1>2, Frozen
<1>4. CASE genuine
  <2>1. \A i \in 1 .. MsgLen : Placed(i)
    BY <1>1, <1>2, <1>4 DEF MessageInv
  <2>2. \A i \in 1 .. MsgLen : Placed(i)'
    BY <1>2, <1>3, <2>1 DEF Placed
  <2>3. MsgLen \in Nat /\ MsgLen >= 4
    BY <1>1, Layout
  <2>4. CASE pc = "readHeader"
    <3>1. Rest(todo, 4) /\ pos = Offset[4 - Len(todo) + 1] /\ GotUpTo(4 - Len(todo))
      BY <1>1, <1>4, <2>4 DEF ReadInv, HeaderDone
    <3>2. 4 \in 0 .. MsgLen
      BY <2>3
    <3>3. /\ ~AgentRejected
          /\ Read => /\ Rest(Tail(todo), 4)
                     /\ pos' = Offset[4 - Len(Tail(todo)) + 1]
                     /\ \A k \in 1 .. 4 - Len(Tail(todo)) : got'[M[k]] = fields[M[k]]
      BY <1>1, <1>2, <1>4, <2>1, <3>1, <3>2, ReadAlong
    <3>4. Read /\ todo' = Tail(todo) /\ pc' = pc
      BY <3>3 DEF Read, ReadField, ReadAgent
    <3>5. Rest(todo, 4)'
      BY <1>3, <3>3, <3>4 DEF Rest
    <3>6. ReadInv'
      BY <1>2, <1>3, <2>4, <3>3, <3>4, <3>5 DEF ReadInv, HeaderDone, GotUpTo
    <3>7. MessageInv'
      BY <1>2, <1>3, <2>2, <2>4, <3>4 DEF MessageInv, Sending
    <3>8. PayloadInv' /\ HeaderInv' /\ HeaderFieldsInv' /\ Sizes'
      BY <1>1, <1>2, <1>3, <2>4, <3>4 DEF PayloadInv, HeaderInv, HeaderFieldsInv, Sizes
    <3>9. TypeOK'
      BY <1>1, <3>4, ReadTypes
    <3>10. QED BY <3>6, <3>7, <3>8, <3>9 DEF IInv
  <2>5. CASE pc = "readPayload"
    <3>1. /\ Rest(todo, MsgLen) /\ pos = Offset[MsgLen - Len(todo) + 1]
          /\ GotUpTo(MsgLen - Len(todo))
      BY <1>1, <1>4, <2>5 DEF ReadInv, FieldsDone
    <3>2. MsgLen \in 0 .. MsgLen
      BY <2>3
    <3>3. /\ ~AgentRejected
          /\ Read => /\ Rest(Tail(todo), MsgLen)
                     /\ pos' = Offset[MsgLen - Len(Tail(todo)) + 1]
                     /\ \A k \in 1 .. MsgLen - Len(Tail(todo)) : got'[M[k]] = fields[M[k]]
      BY <1>1, <1>2, <1>4, <2>1, <3>1, <3>2, ReadAlong
    <3>4. Read /\ todo' = Tail(todo) /\ pc' = pc
      BY <3>3 DEF Read, ReadField, ReadAgent
    <3>5. Rest(todo, MsgLen)'
      BY <1>3, <3>3, <3>4 DEF Rest
    <3>6. ReadInv'
      BY <1>2, <1>3, <2>5, <3>3, <3>4, <3>5 DEF ReadInv, FieldsDone, GotUpTo
    <3>7. MessageInv'
      BY <1>2, <1>3, <2>2, <2>5, <3>4 DEF MessageInv, Sending
    <3>8. PayloadInv' /\ HeaderInv' /\ HeaderFieldsInv' /\ Sizes'
      BY <1>1, <1>2, <1>3, <2>5, <3>4 DEF PayloadInv, HeaderInv, HeaderFieldsInv, Sizes
    <3>9. TypeOK'
      BY <1>1, <3>4, ReadTypes
    <3>10. QED BY <3>6, <3>7, <3>8, <3>9 DEF IInv
  <2>6. QED BY <1>2, <2>4, <2>5
<1>5. CASE ~genuine
  <2>1. pc' \in {"readHeader", "readPayload", "terminated"}
    BY <1>2 DEF Read, ReadField, ReadAgent, AgentRejected
  <2>2. TypeOK'
    <3>1. CASE Read
      BY <1>1, <3>1, ReadTypes
    <3>2. CASE AgentRejected
      BY <1>1, <3>2 DEF AgentRejected, TypeOK
    <3>3. QED BY <3>1, <3>2
  <2>3. Sizes' /\ HeaderFieldsInv'
    BY <1>1, <1>2, <1>3 DEF Sizes, HeaderFieldsInv
  <2>4. PayloadInv' /\ HeaderInv' /\ MessageInv' /\ ReadInv'
    BY <1>2, <1>5, <2>1 DEF PayloadInv, HeaderInv, MessageInv, ReadInv, Sending
  <2>5. QED BY <2>2, <2>3, <2>4 DEF IInv
<1>6. QED BY <1>4, <1>5 DEF IInv, TypeOK

\* The command is found by its name, and the version in front of its payload is
\* that of the payload.
LEMMA HeaderReadStep == IInv /\ HeaderRead => IInv'
<1> SUFFICES ASSUME IInv, HeaderRead PROVE IInv'
  OBVIOUS
<1>1. State /\ TypeOK /\ Sizes /\ MessageInv /\ HeaderFieldsInv /\ ReadInv
  BY InvState DEF IInv
<1>2. /\ pc = "readHeader" /\ todo = <<>> /\ pc' = "readPayload" /\ pos' = pos
      /\ cmd' = cmd /\ fields' = fields /\ got' = got /\ buffer' = buffer
      /\ writer' = writer /\ reader' = reader /\ genuine' = genuine
  BY DEF HeaderRead
<1>3. /\ M' = M /\ MsgLen' = MsgLen /\ Offset' = Offset
      /\ \A i : Width(i)' = Width(i) /\ Enc(i)' = Enc(i)
  BY <1>2, Frozen
<1>4. PICK c \in DOMAIN Names :
        got["command"] = Names[c] /\ todo' = PayloadFields(c, AnnouncedVersion)
  BY DEF HeaderRead
<1>5. TypeOK'
  <2>1. todo' \in Seq(Field)
    BY <1>4, Lists, SerializationAssumption
  <2>2. QED BY <1>1, <1>2, <2>1 DEF TypeOK
<1>6. Sizes' /\ HeaderFieldsInv' /\ PayloadInv' /\ HeaderInv'
  BY <1>1, <1>2, <1>3 DEF Sizes, HeaderFieldsInv, PayloadInv, HeaderInv
<1>7. CASE genuine
  <2>1. \A i \in 1 .. MsgLen : Placed(i)
    BY <1>1, <1>2, <1>7 DEF MessageInv
  <2>2. \A i \in 1 .. MsgLen : Placed(i)'
    BY <1>2, <1>3, <2>1 DEF Placed
  <2>3. MessageInv'
    BY <1>2, <1>3, <2>2 DEF MessageInv, Sending
  <2>4. MsgLen \in Nat /\ MsgLen >= 4 /\ Offset[5] = 24
    BY <1>1, Layout
  <2>5. pos = 24 /\ GotUpTo(4)
    <3>1. HeaderDone = 4
      BY <1>2 DEF HeaderDone
    <3>2. pos = Offset[5] /\ GotUpTo(4)
      BY <1>1, <1>2, <1>7, <3>1 DEF ReadInv
    <3>3. QED BY <2>4, <3>2
  <2>6. c = cmd
    <3>1. M[2] = "command"
      BY <1>1, FieldsOfMessage DEF HeaderFields
    <3>2. got["command"] = fields["command"]
      BY <2>5, <3>1 DEF GotUpTo
    <3>3. fields["command"] = Names[cmd] /\ cmd \in DOMAIN Names
      BY <1>1, <1>2 DEF HeaderFieldsInv, TypeOK
    <3>4. QED BY <1>4, <3>2, <3>3, SerializationAssumption
  <2>7. todo' = F
    <3>1. CASE cmd = "version"
      <4>1. 5 \in 1 .. MsgLen /\ M[5] = "version"
        <5>1. MsgLen \in {10, 16, 17} /\ \A i \in 5 .. MsgLen : M[i] = VersionTable[i - 4]
          BY <1>1, <3>1, FieldsOfMessage
        <5>2. 5 \in 5 .. MsgLen
          BY <5>1
        <5>3. M[5] = VersionTable[1]
          BY <5>1, <5>2
        <5>4. QED BY <5>1, <5>3 DEF VersionTable
      <4>2. Width(5) = 4 /\ "version" \in DOMAIN Size
        BY <4>1 DEF Width, Size
      <4>3. buffer \in Seq(Byte) /\ writer \in Hosts /\ reader \in Hosts
            /\ fields["version"] \in Seq(Byte)
        BY <1>1, <4>2 DEF TypeOK, Field
      <4>4. read(24, 4).bytes = Enc(5)
        BY <1>1, <2>1, <2>4, <4>1, <4>2, <4>3, ReadPlaced
      <4>5. Unserialize(reader, "version", Enc(5)) = fields["version"]
        BY <4>1, <4>2, <4>3, FieldRoundTrip DEF Enc
      <4>6. AnnouncedVersion = V
        BY <4>4, <4>5 DEF AnnouncedVersion, V, MESSAGE_HEADER_SIZE
      <4>7. QED BY <1>4, <2>6, <4>6 DEF F
    <3>2. CASE cmd \in {"nonce", "verack"}
      BY <1>4, <2>6, <3>2 DEF F, PayloadFields
    <3>3. QED BY <1>1, <3>1, <3>2 DEF State
  <2>8. Rest(F, MsgLen) /\ Len(F) = MsgLen - 4
    BY <1>1, FreshLists
  <2>9. ReadInv'
    <3>1. Rest(todo, MsgLen)'
      BY <1>3, <2>7, <2>8 DEF Rest
    <3>2. FieldsDone' = 4
      BY <1>3, <2>4, <2>7, <2>8 DEF FieldsDone
    <3>3. GotUpTo(4)'
      BY <1>2, <1>3, <2>5 DEF GotUpTo
    <3>4. pos' = Offset'[FieldsDone' + 1] /\ GotUpTo(FieldsDone)'
      BY <1>2, <1>3, <2>4, <2>5, <3>2, <3>3 DEF GotUpTo
    <3>5. QED BY <1>2, <3>1, <3>4 DEF ReadInv
  <2>10. QED BY <1>5, <1>6, <2>3, <2>9 DEF IInv
<1>8. CASE ~genuine
  <2>1. MessageInv' /\ ReadInv'
    BY <1>2, <1>8 DEF MessageInv, ReadInv, Sending
  <2>2. QED BY <1>5, <1>6, <2>1 DEF IInv
<1>9. QED BY <1>7, <1>8

LEMMA PayloadReadStep == IInv /\ PayloadRead => IInv'
<1> SUFFICES ASSUME IInv, PayloadRead PROVE IInv'
  OBVIOUS
<1>1. State /\ TypeOK /\ Sizes /\ MessageInv /\ HeaderFieldsInv /\ ReadInv
  BY InvState DEF IInv
<1>2. /\ pc = "readPayload" /\ todo = <<>> /\ pc' = "done" /\ pos' = pos /\ todo' = todo
      /\ cmd' = cmd /\ fields' = fields /\ got' = got /\ buffer' = buffer
      /\ writer' = writer /\ reader' = reader /\ genuine' = genuine
  BY DEF PayloadRead
<1>3. M' = M /\ MsgLen' = MsgLen /\ Offset' = Offset
  BY <1>2, Frozen
<1>4. FieldsDone = MsgLen
  BY <1>1, <1>2, Layout DEF FieldsDone
<1>5. ReadInv'
  <2>1. genuine => pos = Offset[MsgLen + 1] /\ GotUpTo(MsgLen)
    BY <1>1, <1>2, <1>4 DEF ReadInv
  <2>2. QED BY <1>2, <1>3, <2>1 DEF ReadInv, GotUpTo
<1>6. TypeOK' /\ Sizes' /\ HeaderFieldsInv'
  BY <1>1, <1>2, <1>3 DEF TypeOK, Sizes, HeaderFieldsInv
<1>7. PayloadInv' /\ HeaderInv' /\ MessageInv'
  BY <1>2 DEF PayloadInv, HeaderInv, MessageInv, Sending
<1>8. QED BY <1>5, <1>6, <1>7 DEF IInv

LEMMA StutterStep == IInv /\ UNCHANGED vars => IInv'
<1> SUFFICES ASSUME IInv, UNCHANGED vars PROVE IInv'
  OBVIOUS
<1>1. /\ cmd' = cmd /\ fields' = fields /\ got' = got /\ writer' = writer
      /\ reader' = reader /\ buffer' = buffer /\ pos' = pos /\ todo' = todo
      /\ pc' = pc /\ genuine' = genuine
  BY DEF vars
<1>2. /\ M' = M /\ MsgLen' = MsgLen /\ Offset' = Offset
      /\ \A i : Width(i)' = Width(i) /\ Enc(i)' = Enc(i)
  BY <1>1, Frozen
<1>3. \A i : Placed(i)' = Placed(i)
  BY <1>1, <1>2 DEF Placed
<1>4. HeaderDone' = HeaderDone /\ FieldsDone' = FieldsDone
  BY <1>1, <1>2 DEF HeaderDone, FieldsDone
<1>5. PayloadInv' /\ HeaderInv'
  BY <1>1, <1>2, <1>3, <1>4 DEF IInv, PayloadInv, HeaderInv, Rest
<1>6. MessageInv' /\ HeaderFieldsInv'
  BY <1>1, <1>2, <1>3 DEF IInv, MessageInv, Sending, HeaderFieldsInv
<1>7. ReadInv'
  BY <1>1, <1>2, <1>4 DEF IInv, ReadInv, Rest, GotUpTo
<1>8. TypeOK' /\ Sizes'
  BY <1>1 DEF IInv, TypeOK, Sizes
<1>9. QED BY <1>5, <1>6, <1>7, <1>8 DEF IInv

LEMMA StepInv == IInv /\ [Next]_vars => IInv'
<1> SUFFICES ASSUME IInv, [Next]_vars PROVE IInv'
  OBVIOUS
<1>1. CASE BeginCommand
  BY <1>1, BeginStep
<1>2. CASE WriteField
  BY <1>2, WriteStep
<1>3. CASE MakeHeader
  BY <1>3, HeaderStep
<1>4. CASE PushCommand
  BY <1>4, PushStep
<1>5. ASSUME NEW following \in Followings, Deliver(following) PROVE IInv'
  BY <1>5, DeliverStep
<1>6. ASSUME NEW size \in OtherSizes, DeliverOther(size) PROVE IInv'
  BY <1>6, DeliverOtherStep
<1>7. CASE Read \/ AgentRejected
  BY <1>7, ReadStep
<1>8. CASE HeaderRead
  BY <1>8, HeaderReadStep
<1>9. CASE PayloadRead
  BY <1>9, PayloadReadStep
<1>10. CASE UNCHANGED vars
  BY <1>10, StutterStep
<1>11. QED
  BY <1>1, <1>2, <1>3, <1>4, <1>5, <1>6, <1>7, <1>8, <1>9, <1>10
     DEF Next, Writing, Delivery, Read

\* How long the agent is on the wire, a message is far below what payloadLength,
\* an uint32_t, can say.
LEMMA LengthFits ==
  ASSUME State
  PROVE  Offset[MsgLen + 1] - 24 \in Nat /\ Offset[MsgLen + 1] - 24 < 4294967296
<1> DEFINE agent == fields["user_agent"]
           n == Len(agent)
           size == WriteCompactSize(writer, n)
<1>1. agent \in Seq(Byte) /\ n \in Nat /\ n <= MAX_SIZE
  <2>1. agent \in Seq(Byte)
    BY DEF State, Field
  <2>2. QED BY <2>1, LenProperties DEF State, Sizes
<1>2. size \in Seq(Byte) /\ Len(size) = 1 + SizeWidth(size[1])
  BY <1>1, SizeRoundTrip DEF State
<1>3. SizeWidth(size[1]) \in Nat /\ SizeWidth(size[1]) <= 8
  BY DEF SizeWidth
<1>4. AgentWidth = Len(size) + n
  <2>1. Serialize(writer, "user_agent", agent) = size \o agent
    BY DEF Serialize, Arrays
  <2> HIDE DEF agent, size
  <2>2. Len(size \o agent) = Len(size) + Len(agent)
    BY <1>1, <1>2, ConcatProperties
  <2>3. QED BY <2>1, <2>2 DEF AgentWidth, agent
<1> HIDE DEF agent, n, size
<1>5. AgentWidth \in Nat /\ AgentWidth <= n + 9
  BY <1>1, <1>2, <1>3, <1>4
<1>6. MsgLen \in Nat /\ MsgLen >= 4 /\ Offset[MsgLen + 1] <= 109 + AgentWidth
  BY Layout
<1>7. Offset[MsgLen + 1] \in Nat /\ Offset[MsgLen + 1] >= 24
  <2>1. MsgLen + 1 \in 1 .. MsgLen + 1 /\ MsgLen + 1 \in 5 .. MsgLen + 1
    BY <1>6
  <2>2. QED BY <2>1, Layout
<1>8. n + 118 < 4294967296
  BY <1>1 DEF MAX_SIZE
<1>9. QED BY <1>1, <1>5, <1>6, <1>7, <1>8

\* What is read is bytes, and the positions of CVectorWriter and CVectorReader stay
\* within their buffers (the assertions of stream.h), though a reader is given no
\* limit but the end of the buffer and a peer may write any size of the agent.
THEOREM TypeCorrect == Spec => []TypeOK
<1>1. IInv => TypeOK
  BY DEF IInv
<1>2. QED BY <1>1, InitInv, StepInv, PTL DEF Spec

\* Of every object, whatever its agent and its version, on hosts of any two orders
\* of bytes, behind whatever was left in vSendBuffer and in front of whatever
\* follows: each field is read as it was written, and the reader ends at the end of
\* the message.
THEOREM RoundTripAlways == Spec => []RoundTrip
<1>1. IInv => RoundTrip
  <2> SUFFICES ASSUME IInv, genuine, pc \in {"done", "terminated"}
               PROVE  /\ pc = "done"
                      /\ pos = MESSAGE_HEADER_SIZE + Value32(fields["payloadLength"])
                      /\ \A i \in DOMAIN MessageFields :
                           got[MessageFields[i]] = fields[MessageFields[i]]
    BY DEF RoundTrip
  <2>1. State /\ ReadInv /\ HeaderFieldsInv
    BY InvState DEF IInv
  <2>2. pc = "done" /\ pos = Offset[MsgLen + 1] /\ GotUpTo(MsgLen)
    BY <2>1 DEF ReadInv
  <2>3. fields["payloadLength"] = Word32(Offset[MsgLen + 1] - 24)
    BY <2>1, <2>2 DEF HeaderFieldsInv, MESSAGE_HEADER_SIZE
  <2>4. Value32(fields["payloadLength"]) = Offset[MsgLen + 1] - 24
    BY <2>1, <2>3, LengthFits, Words
  <2>5. pos = 24 + (Offset[MsgLen + 1] - 24)
    <3>1. pos \in Nat
      BY InvState
    <3>2. QED BY <2>2, <3>1
  <2>6. DOMAIN MessageFields = 1 .. MsgLen
    BY <2>1, FieldsOfMessage, LenProperties DEF M, MsgLen
  <2>7. \A i \in DOMAIN MessageFields : got[MessageFields[i]] = fields[MessageFields[i]]
    BY <2>2, <2>6 DEF GotUpTo, M
  <2>8. QED BY <2>2, <2>4, <2>5, <2>7 DEF MESSAGE_HEADER_SIZE
<1>2. QED BY <1>1, InitInv, StepInv, PTL DEF Spec

-------------------------------------------------------------------------------
(* The bytes of a message. *)

\* Between the hash and the header there is only the memory of the host.
Checksum == pc \notin {"start", "payload"} => fields["checksum"] = Memory(writer, Hash)

LEMMA ChecksumStep == IInv /\ Checksum /\ [Next]_vars => Checksum'
<1> SUFFICES ASSUME IInv, Checksum, [Next]_vars PROVE Checksum'
  OBVIOUS
<1>1. fields \in [Field -> Seq(Byte)] /\ "checksum" \in Field
  BY DEF IInv, TypeOK, Field, Size
<1>2. CASE MakeHeader
  BY <1>1, <1>2 DEF MakeHeader, Checksum
<1>3. CASE BeginCommand
  BY <1>3 DEF BeginCommand, Checksum
<1>4. CASE WriteField \/ PushCommand
  BY <1>4 DEF WriteField, PushCommand, Checksum
<1>5. CASE Delivery
  BY <1>5 DEF Delivery, Deliver, DeliverOther, BeginRead, Checksum
<1>6. CASE ReadField \/ ReadAgent \/ AgentRejected
  BY <1>6 DEF ReadField, ReadAgent, AgentRejected, Reading, Checksum
<1>7. CASE HeaderRead \/ PayloadRead \/ UNCHANGED vars
  BY <1>7 DEF HeaderRead, PayloadRead, vars, Checksum
<1>8. QED BY <1>2, <1>3, <1>4, <1>5, <1>6, <1>7 DEF Next, Writing

\* A size is written alike by all hosts.
LEMMA SizeOnWire ==
  ASSUME NEW host \in Hosts, NEW n \in Nat
  PROVE  WriteCompactSize(host, n) = WriteCompactSize("little", n)
<1>1. \A word \in Seq(Byte) :
        ser_writedata(host, "little", word) = word /\ ser_writedata("little", "little", word) = word
  BY WireOrder DEF Hosts
<1>2. CASE n < 253
  BY <1>2 DEF WriteCompactSize
<1>3. CASE n >= 253 /\ n <= 65535
  <2>1. Word16(n) \in Seq(Byte)
    BY <1>3, Words
  <2>2. QED BY <1>1, <1>3, <2>1 DEF WriteCompactSize
<1>4. CASE n > 65535
  <2>1. Word32(n) \in Seq(Byte)
    BY Words
  <2>2. QED BY <1>1, <1>4, <2>1 DEF WriteCompactSize
<1>5. QED BY <1>2, <1>3, <1>4

\* What a host writes of a field is what the protocol has there, but that the
\* checksum is what the memory of the host makes of the hash.
LEMMA WireField ==
  ASSUME State, fields["checksum"] = Memory(writer, Hash), NEW i \in 1 .. MsgLen
  PROVE  Enc(i) = OnWire(M[i], Memory(writer, Hash))
<1> DEFINE f == M[i]
           x == fields[M[i]]
<1>1. f \in Field /\ x \in Seq(Byte)
  BY Encoded
<1>2. Enc(i) = Serialize(writer, f, x) /\ writer \in Hosts
  BY DEF Enc, State
<1>3. x = fields[f]
  OBVIOUS
<1> HIDE DEF f, x
<1>4. ser_writedata(writer, "little", x) = x /\ ser_writedata(writer, "big", x) = bswap(x)
  BY <1>1, <1>2, WireOrder
<1>5. CASE f \in {"mePort", "youPort"}
  <2>1. Serialize(writer, f, x) = bswap(x)
    BY <1>4, <1>5 DEF Serialize, Arrays, OrderOf
  <2>2. bswap(x) = Reverse(x)
    <3>1. Len(x) \in Nat
      BY <1>1, LenProperties
    <3>2. \A j \in 1 .. Len(x) : Len(x) + 1 - j = (Len(x) - j) + 1
      BY <3>1
    <3>3. QED BY <3>2 DEF bswap, Reverse
  <2>3. QED BY <1>2, <1>3, <1>5, <2>1, <2>2 DEF OnWire, f
<1>6. CASE f = "user_agent"
  <2>1. x \in Seq(Byte) /\ Len(x) \in Nat
    BY <1>1, LenProperties
  <2>2. WriteCompactSize(writer, Len(x)) = WriteCompactSize("little", Len(x))
    BY <2>1, SizeOnWire, <1>2
  <2>3. QED BY <1>2, <1>3, <1>6, <2>2 DEF Serialize, Arrays, OnWire, f
<1>7. CASE f = "checksum"
  <2>1. x = Memory(writer, Hash)
    BY <1>3, <1>7
  <2>2. Serialize(writer, f, x) = x
    BY <1>4, <1>7 DEF Serialize, Arrays, OrderOf
  <2>3. QED BY <1>2, <1>7, <2>1, <2>2 DEF OnWire, f
<1>8. CASE f \notin {"mePort", "youPort", "user_agent", "checksum"}
  <2>1. Serialize(writer, f, x) = x
    BY <1>4, <1>8 DEF Serialize, Arrays, OrderOf
  <2>2. QED BY <1>2, <1>3, <1>8, <2>1 DEF OnWire, f
<1>9. QED BY <1>5, <1>6, <1>7, <1>8

LEMMA MessageLaid ==
  ASSUME IInv, Checksum, pc = "sent"
  PROVE  Laid(Byte, buffer,
              [i \in DOMAIN MessageFields |-> OnWire(MessageFields[i], Memory(writer, Hash))], Offset)
<1> DEFINE parts == [i \in DOMAIN MessageFields |-> OnWire(MessageFields[i], Memory(writer, Hash))]
           n == MsgLen
<1>1. /\ State /\ fields["checksum"] = Memory(writer, Hash)
      /\ \A i \in 1 .. n : Placed(i)
      /\ Len(buffer) = Offset[n + 1]
      /\ buffer \in Seq(Byte)
  BY InvState DEF IInv, TypeOK, Checksum, MessageInv, Sending
<1>2. n \in Nat /\ DOMAIN MessageFields = 1 .. n
  BY <1>1, Layout, FieldsOfMessage, LenProperties DEF M, MsgLen
<1>3. \A i \in 1 .. n : parts[i] = Enc(i)
  BY <1>1, <1>2, WireField DEF M
<1>4. \A i \in 1 .. n : Enc(i) \in Seq(Byte) /\ Len(Enc(i)) = Width(i)
  BY <1>1, Encoded
<1>5. parts = [i \in 1 .. n |-> parts[i]]
  BY <1>2
<1> HIDE DEF parts
<1>6. parts \in Seq(Seq(Byte)) /\ Len(parts) = n
  <2> HIDE DEF n
  <2>1. parts \in [1 .. n -> Seq(Byte)]
    BY <1>3, <1>4, <1>5
  <2>2. parts \in Seq(Seq(Byte))
    BY <1>2, <2>1, SeqDef
  <2>3. QED BY <1>2, <2>1, <2>2, LenProperties
<1>7. /\ \A i \in 1 .. n + 1 : Offset[i] \in Nat
      /\ \A i \in 1 .. n : Offset[i + 1] = Offset[i] + Width(i)
      /\ Offset[1] = 0
  BY <1>1, Layout
<1>8. ASSUME NEW i \in 1 .. n
      PROVE  /\ Offset[i + 1] = Offset[i] + Len(parts[i])
             /\ \A j \in 1 .. Len(parts[i]) : buffer[Offset[i] + j] = parts[i][j]
  <2>1. parts[i] = Enc(i) /\ Len(Enc(i)) = Width(i) /\ Placed(i)
    BY <1>1, <1>3, <1>4
  <2>2. Offset[i + 1] = Offset[i] + Width(i)
    BY <1>7
  <2>3. QED BY <2>1, <2>2 DEF Placed
<1> HIDE DEF n
<1>9. Laid(Byte, buffer, parts, Offset)
  BY <1>1, <1>6, <1>7, <1>8 DEF Laid
<1>10. QED BY <1>9 DEF parts

LEMMA InitChecksum == Init => Checksum
BY DEF Init, Checksum

\* The bytes of every message are those of the protocol, field by field, whatever
\* host writes it, whatever vSendBuffer held before and however long the agent, but
\* for the checksum, which a big-endian host swaps (message.h:26).
THEOREM MessageOnWire == Spec => [](pc = "sent" => buffer = Wire(Memory(writer, Hash)))
<1>1. IInv /\ Checksum => (pc = "sent" => buffer = Wire(Memory(writer, Hash)))
  BY MessageLaid, FlattenParts DEF Wire
<1>2. QED BY <1>1, InitChecksum, ChecksumStep, InitInv, StepInv, PTL DEF Spec

\* A little-endian host sends the protocol's message, and its header tells the
\* length of what follows (network.cpp:149-208).
THEOREM WireFormatAlways == Spec => []WireFormat
<1>1. IInv /\ (pc = "sent" => buffer = Wire(Memory(writer, Hash))) => WireFormat
  <2> SUFFICES ASSUME IInv, pc = "sent", writer = "little", buffer = Wire(Memory(writer, Hash))
               PROVE  /\ buffer = Wire(Hash)
                      /\ Len(buffer) = MESSAGE_HEADER_SIZE + Value32(fields["payloadLength"])
    BY DEF WireFormat
  <2>1. buffer = Wire(Hash)
    BY DEF Memory
  <2>2. /\ State /\ Len(buffer) = Offset[MsgLen + 1] /\ Len(buffer) \in Nat
        /\ fields["payloadLength"] = Word32(Offset[MsgLen + 1] - 24)
    BY InvState DEF IInv, MessageInv, Sending, HeaderFieldsInv, MESSAGE_HEADER_SIZE
  <2>3. Value32(fields["payloadLength"]) = Offset[MsgLen + 1] - 24
    BY <2>2, LengthFits, Words
  <2>4. QED BY <2>1, <2>2, <2>3 DEF MESSAGE_HEADER_SIZE
<1>2. QED BY <1>1, MessageOnWire, InitInv, StepInv, PTL DEF Spec
===============================================================================
