--------------------------- MODULE AddrMessageProofs ---------------------------
(* Proofs of AddrMessage's invariants, for every number of addresses, every
   length of what follows the message and every width of the number. *)
EXTENDS AddrMessage, SequenceLemmas

\* What a field of n bytes leaves the reader at.
LEMMA ReadStays ==
  ASSUME size \in Nat, NEW pos \in 0 .. size, NEW n \in Nat
  PROVE  /\ read(pos, n).at \in Nat \cup {Zeros}
         /\ read(pos, n).next \in 0 .. size
         /\ pos + n <= size => read(pos, n) = [at |-> pos, next |-> pos + n]
BY DEF read, Zeros

\* The digits of a number that fits stay within its width.
LEMMA DigitsFit ==
  ASSUME count \in 0 .. CountMax, NEW byte \in 0 .. 255, ~TooLarge(byte)
  PROVE  /\ count * 128 + (byte % 128) \in 0 .. CountMax
         /\ Another(byte) => count * 128 + (byte % 128) + 1 \in 0 .. CountMax
<1>1. /\ CountMax \in Nat
      /\ CountMax % 128 = 127
  BY AddrMessageAssumption
<1>2. byte % 128 \in 0 .. 127
  OBVIOUS
<1>3. count <= CountMax \div 128
  BY <1>1 DEF TooLarge
<1>4. CountMax = 128 * (CountMax \div 128) + 127
  BY <1>1
<1>5. count * 128 + (byte % 128) <= CountMax
  BY <1>1, <1>2, <1>3, <1>4
<1>6. Another(byte) => count * 128 + (byte % 128) # CountMax
  BY DEF TooLarge
<1> QED
  BY <1>1, <1>2, <1>5, <1>6

LEMMA SentNat ==
  ASSUME sent \in Counts
  PROVE  sent \in Nat /\ sent <= MostSent
BY AddrMessageAssumption

LEMMA BytesInRange == Bytes \subseteq 0 .. 255
BY AddrMessageAssumption

\* Every value a byte can have is one.
LEMMA ByteInRange ==
  ASSUME TypeOK, NEW byte, byte \in ByteAt(readPos)
  PROVE  byte \in 0 .. 255
<1>1. CASE readPos < Len(CompactSize(sent))
  <2>1. sent \in Nat /\ sent <= 65535
    BY SentNat DEF TypeOK, MostSent
  <2>2. \A i \in 1 .. Len(CompactSize(sent)) : CompactSize(sent)[i] \in 0 .. 255
    <3>1. CASE sent < 253
      BY <2>1, <3>1 DEF CompactSize
    <3>2. CASE sent >= 253
      <4>1. sent % 256 \in 0 .. 255
        BY <2>1
      <4>2. sent \div 256 \in Nat /\ sent \div 256 <= 255
        BY <2>1
      <4> QED
        BY <2>1, <3>2, <4>1, <4>2 DEF CompactSize
    <3> QED
      BY <2>1, <3>1, <3>2
  <2>3. Len(CompactSize(sent)) \in Nat
    BY DEF CompactSize
  <2>4. readPos + 1 \in 1 .. Len(CompactSize(sent))
    BY <1>1, <2>3 DEF TypeOK
  <2> QED
    BY <1>1, <2>2, <2>4 DEF ByteAt
<1>2. CASE ~(readPos < Len(CompactSize(sent)))
  <2>1. byte = 0 \/ byte \in Bytes
    BY <1>2 DEF ByteAt
  <2>2. byte = 0 => byte \in 0 .. 255
    OBVIOUS
  <2> QED
    BY <2>1, <2>2, BytesInRange, Zenon
<1> QED
  BY <1>1, <1>2

\* An address has 26 bytes, or 30 with nTime.
LEMMA AddrSizes ==
  ASSUME version \in Versions
  PROVE  \/ TimeSize = 0 /\ AddrSize = 26
         \/ TimeSize = 4 /\ AddrSize = 30
BY DEF TimeSize, AddrSize, ServicesSize, IpSize, PortSize

-------------------------------------------------------------------------------
LEMMA TypeInit == Init => TypeOK
<1> SUFFICES ASSUME Init PROVE TypeOK
  OBVIOUS
<1>1. sent \in Nat
  BY SentNat DEF Init
<1>2. AddrSize \in Nat
  BY AddrSizes DEF Init
<1>3. Len(CompactSize(sent)) \in Nat
  BY DEF CompactSize
<1>4. sent * AddrSize \in Nat
  BY <1>1, <1>2
<1>5. size \in Nat
  BY <1>3, <1>4, AddrMessageAssumption DEF Init
<1> QED
  BY <1>5, AddrMessageAssumption DEF Init, TypeOK

LEMMA TypeStep == TypeOK /\ [Next]_vars => TypeOK'
<1> SUFFICES ASSUME TypeOK, [Next]_vars PROVE TypeOK'
  OBVIOUS
<1>1. ASSUME NEW byte \in 0 .. 255, ReadDigit(byte)
      PROVE  readPos' \in 0 .. size /\ digits' \in Seq(0 .. 255)
  BY <1>1, ReadStays DEF ReadDigit, TypeOK
<1>2. ASSUME NEW byte \in 0 .. 255, MoreDigits(byte)
      PROVE  TypeOK'
  BY <1>1, <1>2, DigitsFit DEF MoreDigits, ReadDigit, TypeOK
<1>3. ASSUME NEW byte \in 0 .. 255, LastDigit(byte)
      PROVE  TypeOK'
  BY <1>1, <1>3, DigitsFit DEF LastDigit, ReadDigit, TypeOK
<1>4. ASSUME NEW byte \in 0 .. 255, CountTooLarge(byte)
      PROVE  TypeOK'
  BY <1>1, <1>4 DEF CountTooLarge, ReadDigit, TypeOK
<1>5. CASE ReadAddr
  <2>1. AddrStart \in 0 .. size
    BY ReadStays, AddrSizes DEF AddrStart, TypeOK
  <2>2. read(AddrStart, ServicesSize).next \in 0 .. size
    BY <2>1, ReadStays DEF ServicesSize, TypeOK
  <2> DEFINE ip == read(read(AddrStart, ServicesSize).next, IpSize)
             port == read(ip.next, PortSize)
  <2>3. ip.at \in Nat \cup {Zeros} /\ ip.next \in 0 .. size
    BY <2>2, ReadStays DEF IpSize, TypeOK
  <2>4. port.at \in Nat \cup {Zeros} /\ port.next \in 0 .. size
    BY <2>3, ReadStays DEF PortSize, TypeOK
  <2>5. /\ added' = Append(added, [ip |-> ip.at, port |-> port.at])
        /\ readPos' = port.next
        /\ UNCHANGED <<sent, version, size, count, pc, digits>>
    BY <1>5 DEF ReadAddr
  <2> HIDE DEF ip, port
  <2> QED
    BY <2>3, <2>4, <2>5 DEF TypeOK
<1>6. CASE AddrsRead
  BY <1>6 DEF AddrsRead, TypeOK
<1>7. CASE UNCHANGED vars
  BY <1>7 DEF vars, TypeOK
<1> QED
  BY <1>2, <1>3, <1>4, <1>5, <1>6, <1>7 DEF Next

\* The reader never leaves the buffer, as CVectorReader::read asserts, and the
\* number of addresses never exceeds its width.
THEOREM TypeCorrect == Spec => []TypeOK
BY TypeInit, TypeStep, PTL DEF Spec

-------------------------------------------------------------------------------
\* Of a message with less than 128 addresses the number is one byte, and the
\* reader is always where the next address begins.
Aligned ==
  sent < 128 =>
    /\ size >= 1 + sent * AddrSize
    /\ pc # "terminated"
    /\ pc = "count" => readPos = 0 /\ count = 0 /\ added = <<>>
    /\ pc \in {"addrs", "done"} =>
         /\ count = sent
         /\ Len(added) <= sent
         /\ readPos = 1 + Len(added) * AddrSize
    /\ \A k \in 1 .. Len(added) : added[k] = Sent(k)
    /\ pc = "done" => Len(added) = sent

LEMMA OneByte ==
  ASSUME sent \in Nat, sent < 128
  PROVE  CompactSize(sent) = <<sent>>
BY DEF CompactSize

LEMMA AlignedInit == Init => Aligned
<1> SUFFICES ASSUME Init, sent < 128 PROVE Aligned
  BY DEF Aligned
<1>1. sent \in Nat
  BY SentNat DEF Init
<1>2. Len(CompactSize(sent)) = 1
  BY <1>1, OneByte
<1>3. AddrSize \in Nat
  BY AddrSizes DEF Init
<1>4. sent * AddrSize \in Nat
  BY <1>1, <1>3
<1>5. size >= 1 + sent * AddrSize
  BY <1>2, <1>4, AddrMessageAssumption DEF Init
<1> QED
  BY <1>5 DEF Init, Aligned

\* A step leaves the message and the version alone, so Sent and AddrSize too.
LEMMA MessageKept ==
  ASSUME UNCHANGED <<sent, version>>
  PROVE  AddrSize' = AddrSize /\ \A k \in Nat : Sent(k)' = Sent(k)
BY DEF Sent, AddrSize, TimeSize, CompactSize, ServicesSize, IpSize, PortSize

\* The number of addresses is read from one byte.
LEMMA CountRead ==
  ASSUME TypeOK, Aligned, sent < 128, NEW byte \in 0 .. 255, ReadDigit(byte)
  PROVE  ~TooLarge(byte) /\ ~Another(byte) /\ byte % 128 = sent /\ readPos' = 1
<1>1. sent \in Nat
  BY SentNat DEF TypeOK
<1>2. readPos = 0 /\ count = 0
  BY DEF Aligned, ReadDigit
<1>3. byte = sent
  <2>1. CompactSize(sent) = <<sent>>
    BY <1>1, OneByte
  <2>2. readPos < Len(CompactSize(sent)) /\ CompactSize(sent)[readPos + 1] = sent
    BY <1>2, <2>1
  <2>3. byte \in ByteAt(readPos)
    BY DEF ReadDigit
  <2> QED
    BY <2>2, <2>3, Zenon DEF ByteAt
<1>4. ~Another(byte)
  BY <1>1, <1>3 DEF Another
<1>5. CountMax \div 128 \in Nat
  BY AddrMessageAssumption
<1>6. ~TooLarge(byte)
  BY <1>2, <1>4, <1>5 DEF TooLarge
<1>7. sent * AddrSize \in Nat
  BY <1>1, AddrSizes DEF TypeOK
<1>8. readPos' = 1
  BY <1>2, <1>7, ReadStays DEF ReadDigit, Aligned, TypeOK
<1> QED
  BY <1>1, <1>3, <1>4, <1>6, <1>8

\* The next address is read in full, from where the peer wrote it.
LEMMA AddrRead ==
  ASSUME TypeOK, Aligned, sent < 128, ReadAddr
  PROVE  /\ added' = Append(added, Sent(Len(added) + 1))
         /\ readPos' = 1 + (Len(added) + 1) * AddrSize
<1> DEFINE i == Len(added)
<1>1. sent \in Nat /\ i \in Nat /\ size \in Nat
  BY SentNat DEF TypeOK
<1>2. i < sent /\ readPos = 1 + i * AddrSize /\ size >= 1 + sent * AddrSize
  BY <1>1 DEF Aligned, ReadAddr
<1>3. Len(CompactSize(sent)) = 1
  BY <1>1, OneByte
<1> DEFINE start == readPos + TimeSize + 8
           ip == read(read(AddrStart, ServicesSize).next, IpSize)
           port == read(ip.next, PortSize)
<1>4. /\ TimeSize \in Nat
      /\ readPos \in Nat
      /\ start + 18 = 1 + (i + 1) * AddrSize
      /\ start + 18 <= size
      /\ Sent(i + 1) = [ip |-> start, port |-> start + 16]
  <2>1. CASE TimeSize = 0 /\ AddrSize = 26
    BY <1>1, <1>2, <1>3, <2>1 DEF Sent, ServicesSize, IpSize
  <2>2. CASE TimeSize = 4 /\ AddrSize = 30
    BY <1>1, <1>2, <1>3, <2>2 DEF Sent, ServicesSize, IpSize
  <2> QED
    BY <2>1, <2>2, AddrSizes DEF TypeOK
<1> HIDE DEF i
<1>5. AddrStart = readPos + TimeSize
  <2>1. readPos \in 0 .. size /\ readPos + TimeSize <= size
    BY <1>1, <1>4
  <2>2. read(readPos, TimeSize) = [at |-> readPos, next |-> readPos + TimeSize]
    BY <1>1, <1>4, <2>1, ReadStays
  <2> QED
    BY <1>4, <2>2 DEF AddrStart
<1>6. read(AddrStart, ServicesSize).next = start
  BY <1>1, <1>4, <1>5, ReadStays DEF ServicesSize
<1>7. ip = [at |-> start, next |-> start + 16]
  BY <1>1, <1>4, <1>6, ReadStays DEF IpSize
<1>8. port = [at |-> start + 16, next |-> start + 18]
  BY <1>1, <1>4, <1>7, ReadStays DEF PortSize
<1>9. /\ added' = Append(added, [ip |-> ip.at, port |-> port.at])
      /\ readPos' = port.next
  BY DEF ReadAddr
<1> QED
  BY <1>4, <1>7, <1>8, <1>9 DEF i

LEMMA AlignedStep == TypeOK /\ Aligned /\ [Next]_vars => Aligned'
<1> SUFFICES ASSUME TypeOK, Aligned, [Next]_vars, sent' < 128 PROVE Aligned'
  BY DEF Aligned
<1>1. UNCHANGED <<sent, version, size>>
  BY DEF Next, vars, MoreDigits, LastDigit, CountTooLarge, ReadDigit, ReadAddr, AddrsRead
<1>2. sent < 128
  BY <1>1
<1>3. AddrSize' = AddrSize /\ \A k \in Nat : Sent(k)' = Sent(k)
  BY <1>1, MessageKept
<1>4. AddrSize \in Nat /\ sent \in Nat
  BY AddrSizes, SentNat DEF TypeOK
<1>5. ASSUME NEW byte \in 0 .. 255, MoreDigits(byte) \/ CountTooLarge(byte)
      PROVE  FALSE
  BY <1>2, <1>5, CountRead DEF MoreDigits, CountTooLarge
<1>6. ASSUME NEW byte \in 0 .. 255, LastDigit(byte)
      PROVE  Aligned'
  <2>1. byte % 128 = sent /\ readPos' = 1
    BY <1>2, <1>6, CountRead DEF LastDigit
  <2>2. count = 0 /\ added = <<>>
    BY <1>2, <1>6 DEF Aligned, LastDigit, ReadDigit
  <2>3. count' = sent /\ added' = <<>> /\ pc' = "addrs"
    BY <1>4, <1>6, <2>1, <2>2 DEF LastDigit, ReadDigit
  <2>4. readPos' = 1 + Len(added') * AddrSize
    BY <1>4, <2>1, <2>3
  <2> QED
    BY <1>1, <1>2, <1>3, <1>4, <2>3, <2>4 DEF Aligned
<1>7. CASE ReadAddr
  <2>1. /\ added' = Append(added, Sent(Len(added) + 1))
        /\ readPos' = 1 + (Len(added) + 1) * AddrSize
    BY <1>2, <1>7, AddrRead
  <2>2. added \in Seq([ip : Nat \cup {Zeros}, port : Nat \cup {Zeros}])
    BY DEF TypeOK
  <2>3. Len(added') = Len(added) + 1
    BY <2>1, <2>2
  <2>4. \A k \in 1 .. Len(added') : added'[k] = Sent(k)
    BY <1>2, <2>1, <2>2, <2>3 DEF Aligned
  <2>5. pc = "addrs" /\ pc' = pc /\ count' = count /\ Len(added) < sent
    BY <1>2, <1>7 DEF ReadAddr, Aligned
  <2> QED
    BY <1>1, <1>2, <1>3, <1>4, <2>1, <2>2, <2>3, <2>4, <2>5 DEF Aligned
<1>8. CASE AddrsRead
  <2>1. added \in Seq([ip : Nat \cup {Zeros}, port : Nat \cup {Zeros}])
    BY DEF TypeOK
  <2> QED
    BY <1>1, <1>2, <1>3, <1>4, <1>8, <2>1 DEF AddrsRead, Aligned
<1>9. CASE UNCHANGED vars
  <2>1. added \in Seq([ip : Nat \cup {Zeros}, port : Nat \cup {Zeros}])
    BY DEF TypeOK
  <2> QED
    BY <1>1, <1>2, <1>3, <1>4, <1>9, <2>1 DEF vars, Aligned
<1> QED
  BY <1>5, <1>6, <1>7, <1>8, <1>9 DEF Next

\* Of a message with less than 128 addresses exactly the listed ones are added,
\* in order, for every such number, both formats and whatever follows.
THEOREM AddrsStaySent == Spec => []AddrsSent
<1>1. TypeOK /\ Aligned => AddrsSent
  <2> SUFFICES ASSUME TypeOK, Aligned, sent < 128 PROVE AddrsSent
    BY DEF AddrsSent
  <2>1. sent \in Nat
    BY SentNat DEF TypeOK
  <2> QED
    BY <2>1 DEF AddrsSent, Aligned, TypeOK
<1> QED
  BY <1>1, TypeInit, TypeStep, AlignedInit, AlignedStep, PTL DEF Spec
-------------------------------------------------------------------------------
(* The number that is read. *)

LEMMA Powers ==
  /\ Power \in [Nat -> Int] /\ Power[0] = 1
  /\ \A i \in Nat : Power[i + 1] = 128 * Power[i]
<1> DEFINE step == [x \in Nat \X Int |-> 128 * x[2]]
           Is(p) == p = [i \in Nat |-> IF i = 0 THEN 1 ELSE 128 * p[i - 1]]
<1>1. step \in [Nat \X Int -> Int]
  OBVIOUS
<1>2. \A i \in Nat, v \in Int : step[<<i, v>>] = 128 * v
  OBVIOUS
<1>3. 1 \in Int
  OBVIOUS
<1> HIDE DEF step
<1>4. PICK p : RecursionOnNat(Int, 1, step, p)
  BY <1>1, <1>3, RecursionOnNatExists
<1>5. /\ p \in [Nat -> Int] /\ p[0] = 1
      /\ \A i \in Nat : p[i + 1] = 128 * p[i]
  <2>1. p \in [Nat -> Int] /\ p[0] = 1
    BY <1>4 DEF RecursionOnNat
  <2>2. ASSUME NEW i \in Nat PROVE p[i + 1] = 128 * p[i]
    <3>1. i + 1 \in Nat /\ p[i] \in Int
      BY <2>1
    <3>2. p[i + 1] = step[<<i + 1, p[i]>>]
      BY <1>4 DEF RecursionOnNat
    <3>3. step[<<i + 1, p[i]>>] = 128 * p[i]
      BY <1>2, <3>1
    <3>4. QED BY <3>2, <3>3
  <2>3. QED BY <2>1, <2>2
<1>6. Is(p)
  <2>1. ASSUME NEW i \in Nat PROVE p[i] = IF i = 0 THEN 1 ELSE 128 * p[i - 1]
    <3>1. CASE i = 0
      BY <1>5, <3>1
    <3>2. CASE i # 0
      <4>1. i - 1 \in Nat /\ (i - 1) + 1 = i
        BY <3>2
      <4>2. p[(i - 1) + 1] = 128 * p[i - 1]
        BY <1>5, <4>1
      <4>3. QED BY <3>2, <4>1, <4>2
    <3>3. QED BY <3>1, <3>2
  <2> DEFINE q == [i \in Nat |-> IF i = 0 THEN 1 ELSE 128 * p[i - 1]]
  <2>2. p = q
    BY <2>1, <1>5
  <2>3. QED BY <2>2
<1>7. Is(Power)
  <2>1. Power = CHOOSE q : Is(q)
    BY DEF Power
  <2> HIDE DEF Is
  <2>2. QED BY <1>6, <2>1
<1>8. \A i \in Nat : Power[i] = IF i = 0 THEN 1 ELSE 128 * Power[i - 1]
  BY <1>7, Zenon
<1> DEFINE S == {i \in Nat : Power[i] = p[i]}
<1>9. \A i \in Nat : i \in S
  <2>1. 0 \in S
    BY <1>5, <1>8
  <2>2. ASSUME NEW i \in Nat, i \in S PROVE i + 1 \in S
    <3>1. i + 1 \in Nat /\ i + 1 # 0 /\ i + 1 - 1 = i
      OBVIOUS
    <3>2. Power[i + 1] = 128 * Power[i]
      BY <1>8, <3>1
    <3>3. QED BY <1>5, <2>2, <3>1, <3>2
  <2> HIDE DEF S
  <2>3. QED BY <2>1, <2>2, Induction
<1>10. \A i \in Nat : Power[i] = p[i]
  BY <1>9
<1>11. Power = [i \in Nat |-> Power[i]]
  BY <1>7
<1>12. Power \in [Nat -> Int]
  BY <1>5, <1>10, <1>11
<1>13. QED BY <1>5, <1>5, <1>10, <1>12

\* The i-th term of the sum, and its partial sums.
Term(a, i) == Power[i] * ((a[Len(a) - i] % 128) + 1)
Sums(a, f) ==
  /\ f \in [0 .. Len(a) - 1 -> Int]
  /\ f[0] = a[Len(a)] % 128
  /\ \A i \in 1 .. Len(a) - 1 : f[i] = f[i - 1] + Term(a, i)

LEMMA SevenBits ==
  ASSUME NEW x \in 0 .. 255
  PROVE  x % 128 \in Int
OBVIOUS

LEMMA TermType ==
  ASSUME NEW a \in Seq(0 .. 255), NEW i \in 0 .. Len(a) - 1
  PROVE  Term(a, i) \in Int /\ a[Len(a) - i] % 128 \in Int
<1>1. Len(a) - i \in 1 .. Len(a) /\ i \in Nat
  BY LenProperties
<1>2. a[Len(a) - i] \in 0 .. 255
  BY <1>1, ElementOfSeq
<1>3. a[Len(a) - i] % 128 \in Int
  BY <1>2, SevenBits
<1>4. Power[i] \in Int
  BY <1>1, Powers
<1>5. QED BY <1>3, <1>4 DEF Term

LEMMA SumsExist ==
  ASSUME NEW a \in Seq(0 .. 255), a # <<>>
  PROVE  \E f : Sums(a, f)
<1> DEFINE n == Len(a) - 1
           step == [x \in Nat \X Int |-> IF x[1] <= n THEN x[2] + Term(a, x[1]) ELSE 0]
           base == a[Len(a)] % 128
<1>1. n \in Nat /\ Len(a) - 0 = Len(a) /\ 0 \in 0 .. n
  BY EmptySeq
<1>2. base \in Int
  BY <1>1, TermType
<1>3. \A i \in 0 .. n : Term(a, i) \in Int
  BY TermType
<1>4. step \in [Nat \X Int -> Int]
  BY <1>3
<1>5. ASSUME NEW i \in 1 .. n, NEW v \in Int PROVE step[<<i, v>>] = v + Term(a, i)
  BY <1>1
<1> HIDE DEF step, n, base
<1>6. PICK f : Recursion(Int, n, base, step, f)
  BY <1>1, <1>2, <1>4, RecursionExists
<1>7. f \in [0 .. n -> Int] /\ f[0] = base
  BY <1>6 DEF Recursion
<1>8. ASSUME NEW i \in 1 .. n PROVE f[i] = f[i - 1] + Term(a, i)
  <2>1. f[i - 1] \in Int
    BY <1>1, <1>7
  <2>2. f[i] = step[<<i, f[i - 1]>>]
    BY <1>6 DEF Recursion
  <2>3. QED BY <1>5, <2>1, <2>2
<1>9. QED BY <1>7, <1>8 DEF Sums, n, base

LEMMA DocumentedSum ==
  ASSUME NEW a \in Seq(0 .. 255), a # <<>>
  PROVE  \E f : Sums(a, f) /\ Documented(a) = f[Len(a) - 1]
<1> DEFINE n == Len(a) - 1
           Is(f) == f = [i \in 0 .. n |->
                           IF i = 0 THEN a[Len(a)] % 128
                           ELSE f[i - 1] + Power[i] * ((a[Len(a) - i] % 128) + 1)]
           g == CHOOSE f : Is(f)
<1>1. n \in Nat /\ Len(a) - 0 = Len(a) /\ 0 \in 0 .. n
  BY EmptySeq
<1>2. PICK f : Sums(a, f)
  BY SumsExist
<1>3. Is(f)
  <2> DEFINE h == [i \in 0 .. n |->
                     IF i = 0 THEN a[Len(a)] % 128
                     ELSE f[i - 1] + Power[i] * ((a[Len(a) - i] % 128) + 1)]
  <2>1. f = [i \in 0 .. n |-> f[i]]
    BY <1>2 DEF Sums
  <2>2. \A i \in 0 .. n : f[i] = h[i]
    <3>1. SUFFICES ASSUME NEW i \in 0 .. n PROVE f[i] = h[i]
      OBVIOUS
    <3>2. i # 0 => i \in 1 .. n
      BY <1>1
    <3>3. QED BY <1>2, <3>2 DEF Sums, Term
  <2> HIDE DEF n
  <2>3. f = h
    BY <2>1, <2>2
  <2>4. QED BY <2>3
<1>4. Documented(a) = g[n]
  BY DEF Documented
<1>5. Is(g)
  <2> HIDE DEF Is
  <2>1. QED BY <1>3
<1> HIDE DEF g
<1>6. \A i \in 0 .. n : g[i] = IF i = 0 THEN a[Len(a)] % 128 ELSE g[i - 1] + Term(a, i)
  BY <1>5, Zenon DEF Term
<1> HIDE DEF n, Is
<1> DEFINE S == {i \in Nat : i <= n => g[i] \in Int}
<1>7. 0 \in S
  BY <1>1, <1>6, TermType DEF n
<1>8. ASSUME NEW i \in Nat, i \in S PROVE i + 1 \in S
  <2>1. SUFFICES ASSUME i + 1 <= n PROVE g[i + 1] \in Int
    OBVIOUS
  <2>2. i + 1 \in 0 .. n /\ i + 1 # 0 /\ i + 1 - 1 = i /\ i <= n
    BY <1>1, <2>1
  <2>3. Term(a, i + 1) \in Int
    BY <2>2, TermType DEF n
  <2>4. g[i + 1] = g[i] + Term(a, i + 1)
    BY <1>6, <2>2
  <2>5. QED BY <1>8, <2>2, <2>3, <2>4
<1> HIDE DEF S
<1>9. \A i \in Nat : i \in S
  BY <1>7, <1>8, Induction
<1>10. \A i \in 0 .. n : g[i] \in Int
  BY <1>1, <1>9 DEF S
<1>11. g \in [0 .. n -> Int]
  <2>1. g = [i \in 0 .. n |-> g[i]]
    BY <1>5 DEF Is
  <2>2. QED BY <1>10, <2>1
<1>12. Sums(a, g)
  <2>1. \A i \in 1 .. n : i \in 0 .. n /\ i # 0
    BY <1>1
  <2>2. QED BY <1>1, <1>6, <1>11, <2>1 DEF Sums, n
<1>13. QED BY <1>4, <1>12 DEF n

\* One more byte: seven more bits, and one more of all that are shorter.
LEMMA DocumentedAppend ==
  ASSUME NEW a \in Seq(0 .. 255), NEW b \in 0 .. 255
  PROVE  LET more == Append(a, b)
         IN /\ Documented(a) \in Int \/ a = <<>>
            /\ a = <<>> => Documented(more) = b % 128
            /\ a # <<>> => Documented(more) = 128 * (Documented(a) + 1) + (b % 128)
<1> DEFINE more == Append(a, b)
           n == Len(a)
<1>1. n \in Nat /\ more \in Seq(0 .. 255) /\ more # <<>> /\ Len(more) = n + 1
  BY AppendProperties, LenProperties
<1>2. more[n + 1] = b /\ \A i \in 1 .. n : more[i] = a[i]
  BY AppendProperties
<1> HIDE DEF more
<1>3. PICK g : Sums(more, g) /\ Documented(more) = g[n]
  <2>1. Len(more) - 1 = n
    BY <1>1
  <2>2. PICK g : Sums(more, g) /\ Documented(more) = g[Len(more) - 1]
    BY <1>1, DocumentedSum
  <2>3. QED BY <2>1, <2>2
<1>4. g[0] = b % 128 /\ \A i \in 1 .. n : g[i] = g[i - 1] + Term(more, i)
  <2>1. Len(more) - 1 = n
    BY <1>1
  <2>2. QED BY <1>1, <1>2, <1>3, <2>1 DEF Sums
<1>5. CASE a = <<>>
  BY <1>3, <1>4, <1>5 DEF more
<1>6. CASE a # <<>>
  <2>1. n >= 1
    BY <1>6, EmptySeq
  <2>2. PICK f : Sums(a, f) /\ Documented(a) = f[n - 1]
    BY <1>6, DocumentedSum
  <2>3. /\ f \in [0 .. n - 1 -> Int] /\ f[0] = a[n] % 128
        /\ \A i \in 1 .. n - 1 : f[i] = f[i - 1] + Term(a, i)
    BY <2>2 DEF Sums
  <2>4. ASSUME NEW i \in 1 .. n
        PROVE  Term(more, i) = 128 * Term(a, i - 1)
    <3>1. i - 1 \in Nat /\ n - (i - 1) \in 1 .. n /\ n + 1 - i = n - (i - 1) /\ (i - 1) + 1 = i
      BY <1>1
    <3> DEFINE d == (a[n - (i - 1)] % 128) + 1
               pow == Power[i - 1]
    <3>2. more[n + 1 - i] = a[n - (i - 1)]
      BY <1>2, <3>1
    <3>3. Term(more, i) = Power[i] * d /\ Term(a, i - 1) = pow * d
      BY <1>1, <3>2 DEF Term
    <3>4. Power[i] = 128 * pow /\ pow \in Int
      BY <3>1, Powers
    <3>5. d \in Int
      <4>1. a[n - (i - 1)] \in 0 .. 255
        BY <3>1, ElementOfSeq
      <4>2. a[n - (i - 1)] % 128 \in Int
        BY <4>1, SevenBits
      <4>3. QED BY <4>2
    <3> HIDE DEF d, pow
    <3>6. (128 * pow) * d = 128 * (pow * d)
      BY <3>4, <3>5
    <3>7. QED BY <3>3, <3>4, <3>6
  <2> DEFINE S == {i \in Nat : i + 1 <= n => g[i + 1] = 128 * (f[i] + 1) + (b % 128)}
  <2>5. 0 \in S
    <3>1. g[1] = g[0] + 128 * Term(a, 0)
      <4>1. 1 \in 1 .. n /\ 1 - 1 = 0
        BY <1>1, <2>1
      <4>2. QED BY <1>4, <2>4, <4>1
    <3>2. Term(a, 0) = f[0] + 1
      <4>1. n - 0 = n /\ 0 \in 0 .. n - 1
        BY <1>1, <2>1
      <4>2. a[n] % 128 \in Int
        BY <4>1, TermType
      <4>3. Power[0] = 1
        BY Powers
      <4>4. QED BY <2>3, <4>1, <4>2, <4>3 DEF Term
    <3>3. f[0] \in Int /\ b % 128 \in Int
      BY <1>1, <2>1, <2>3
    <3>4. g[0 + 1] = 128 * (f[0] + 1) + (b % 128)
      BY <1>4, <3>1, <3>2, <3>3
    <3>5. QED BY <3>4
  <2>6. ASSUME NEW i \in Nat, i \in S PROVE i + 1 \in S
    <3>1. SUFFICES ASSUME i + 2 <= n
                   PROVE  g[i + 2] = 128 * (f[i + 1] + 1) + (b % 128)
      <4>1. i + 1 + 1 = i + 2
        OBVIOUS
      <4>2. QED BY <4>1
    <3>2. /\ i + 2 \in 1 .. n /\ i + 2 - 1 = i + 1 /\ i + 1 \in 1 .. n - 1
          /\ i + 1 - 1 = i /\ i \in 0 .. n - 1 /\ i + 1 <= n
      BY <1>1, <3>1
    <3>3. g[i + 2] = g[i + 1] + 128 * Term(a, i + 1)
      BY <1>4, <2>4, <3>2
    <3>4. f[i + 1] = f[i] + Term(a, i + 1) /\ f[i] \in Int
      <4>1. f[i + 1] = f[i + 1 - 1] + Term(a, i + 1)
        BY <2>3, <3>2
      <4>2. f[i] \in Int
        BY <2>3, <3>2
      <4>3. QED BY <3>2, <4>1, <4>2
    <3>5. g[i + 1] = 128 * (f[i] + 1) + (b % 128)
      BY <2>6, <3>2
    <3>6. Term(a, i + 1) \in Int /\ b % 128 \in Int
      <4>1. i + 1 \in 0 .. Len(a) - 1
        BY <3>2
      <4>2. QED BY <4>1, TermType
    <3> HIDE DEF S
    <3>7. QED BY <3>3, <3>4, <3>5, <3>6
  <2> HIDE DEF S
  <2>7. n - 1 \in S
    <3>1. n - 1 \in Nat
      BY <1>1, <2>1
    <3>2. QED BY <2>5, <2>6, <3>1, Induction
  <2>8. g[n] = 128 * (f[n - 1] + 1) + (b % 128)
    <3>1. n - 1 + 1 = n /\ n <= n
      BY <1>1
    <3>2. QED BY <2>7, <3>1 DEF S
  <2>9. f[n - 1] \in Int
    BY <1>1, <2>1, <2>3
  <2>10. QED BY <1>3, <1>6, <2>2, <2>8, <2>9 DEF more
<1>7. QED BY <1>5, <1>6

\* While more digits follow, count is ahead of the formula by the increment that
\* the next digit is added to.
Decoded ==
  /\ pc = "count" => count = IF digits = <<>> THEN 0 ELSE Documented(digits) + 1
  /\ pc \in {"addrs", "done"} => count = Documented(digits)

\* The number without the new digit, shifted, and the new digit.
LEMMA DigitRead ==
  ASSUME TypeOK, Decoded, NEW byte \in 0 .. 255, ReadDigit(byte)
  PROVE  /\ digits' = Append(digits, byte) /\ digits' # <<>>
         /\ Documented(digits') = count * 128 + (byte % 128)
<1>1. digits \in Seq(0 .. 255) /\ digits' = Append(digits, byte)
  BY DEF TypeOK, ReadDigit
<1>2. digits' # <<>>
  BY <1>1, AppendProperties
<1>3. count = IF digits = <<>> THEN 0 ELSE Documented(digits) + 1
  BY DEF Decoded, ReadDigit
<1>4. byte % 128 \in Int
  BY SevenBits
<1>5. CASE digits = <<>>
  <2>1. Documented(digits') = byte % 128
    BY <1>1, <1>5, DocumentedAppend
  <2>2. QED BY <1>1, <1>2, <1>3, <1>4, <1>5, <2>1
<1>6. CASE digits # <<>>
  <2>1. /\ Documented(digits) \in Int
        /\ Documented(digits') = 128 * (Documented(digits) + 1) + (byte % 128)
    BY <1>1, <1>6, DocumentedAppend
  <2>2. QED BY <1>1, <1>2, <1>3, <1>4, <1>6, <2>1
<1>7. QED BY <1>5, <1>6

LEMMA DecodedStep == TypeOK /\ Decoded /\ [Next]_vars => Decoded'
<1> SUFFICES ASSUME TypeOK, Decoded, [Next]_vars PROVE Decoded'
  OBVIOUS
<1>1. ASSUME NEW byte \in 0 .. 255, MoreDigits(byte)
      PROVE  Decoded'
  <2>1. /\ ReadDigit(byte) /\ count' = count * 128 + (byte % 128) + 1
        /\ pc = "count" /\ pc' = "count"
    BY <1>1 DEF MoreDigits, ReadDigit
  <2>2. digits' # <<>> /\ count' = Documented(digits') + 1
    BY <2>1, DigitRead
  <2>3. QED BY <2>1, <2>2 DEF Decoded
<1>2. ASSUME NEW byte \in 0 .. 255, LastDigit(byte)
      PROVE  Decoded'
  <2>1. ReadDigit(byte) /\ count' = count * 128 + (byte % 128) /\ pc' = "addrs"
    BY <1>2 DEF LastDigit
  <2>2. count' = Documented(digits')
    BY <2>1, DigitRead
  <2>3. QED BY <2>1, <2>2 DEF Decoded
<1>3. ASSUME NEW byte \in 0 .. 255, CountTooLarge(byte)
      PROVE  Decoded'
  BY <1>3 DEF CountTooLarge, Decoded
<1>4. CASE ReadAddr \/ AddrsRead \/ UNCHANGED vars
  BY <1>4 DEF ReadAddr, AddrsRead, vars, Decoded
<1>5. QED BY <1>1, <1>2, <1>3, <1>4 DEF Next

\* The number ReadVarInt returns is the one serialize.h:313 says its bytes encode:
\* the formula adds up powers of 128 from the last byte, the loop shifts and
\* increments from the first; for any number of bytes, padded ones included, that
\* is not rejected as too large.
THEOREM CountAsDocumented == Spec => []CountDocumented
<1>1. Init => Decoded
  BY DEF Init, Decoded
<1>2. Decoded => CountDocumented
  BY DEF Decoded, CountDocumented
<1>3. QED
  BY <1>1, <1>2, TypeInit, TypeStep, DecodedStep, PTL DEF Spec
===============================================================================
