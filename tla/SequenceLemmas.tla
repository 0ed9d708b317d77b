---------------------------- MODULE SequenceLemmas ----------------------------
(***************************************************************************)
(* Facts about numbers and sequences that the proofs share: induction, and *)
(* with it what FlattenSeq makes of a sequence of messages or of fields;   *)
(* the range of a queue that grows at its end and shrinks at its head; two *)
(* queues that an element moves between.                                   *)
(*                                                                         *)
(* The library's induction theorems take the induction hypothesis as an    *)
(* operator.  Here it is a set, the numbers it holds of.                   *)
(***************************************************************************)
EXTENDS Integers, FiniteSets, Functions, SequencesExt, SequenceTheorems,
        FiniteSetTheorems, WellFoundedInduction, TLAPS

-------------------------------------------------------------------------------
(* Induction. *)

\* The least number outside S would have a predecessor in S.
LEMMA Induction ==
  ASSUME NEW S, 0 \in S, \A n \in Nat : n \in S => n + 1 \in S
  PROVE  \A n \in Nat : n \in S
<1> DEFINE R == OpToRel(<, Nat)
           T == Nat \ S
<1>1. SUFFICES ASSUME T # {} PROVE FALSE
  OBVIOUS
<1>2. IsWellFoundedOn(R, Nat)
  BY NatLessThanWellFounded
<1>3. PICK x \in T : \A y \in T : ~(<<y, x>> \in R)
  <2> HIDE DEF R, T
  <2>1. T \subseteq Nat
    BY DEF T
  <2>2. QED BY <1>1, <1>2, <2>1, WFMin
<1>4. x \in Nat \ {0} /\ x - 1 \in Nat
  OBVIOUS
<1>5. x - 1 \in S
  <2>1. <<x - 1, x>> \in R
    BY <1>4 DEF OpToRel
  <2>2. QED BY <1>3, <1>4, <2>1
<1>6. QED BY <1>4, <1>5

\* f is defined on 0 .. n by recursion: from base, and by step from the index and
\* the value before it.
Recursion(D, n, base, step, f) ==
  /\ f \in [0 .. n -> D]
  /\ f[0] = base
  /\ \A i \in 1 .. n : f[i] = step[<<i, f[i - 1]>>]

LEMMA RecursionExists ==
  ASSUME NEW D, NEW base \in D, NEW step \in [Nat \X D -> D]
  PROVE  \A n \in Nat : \E f : Recursion(D, n, base, step, f)
<1> DEFINE S == {n \in Nat : \E f : Recursion(D, n, base, step, f)}
<1>1. 0 \in S
  <2> DEFINE f == [i \in 0 .. 0 |-> base]
  <2>1. Recursion(D, 0, base, step, f)
    BY DEF Recursion
  <2>2. QED BY <2>1
<1>2. ASSUME NEW n \in Nat, n \in S PROVE n + 1 \in S
  <2>1. PICK f : Recursion(D, n, base, step, f)
    BY <1>2
  <2>2. f \in [0 .. n -> D] /\ f[0] = base /\ \A i \in 1 .. n : f[i] = step[<<i, f[i - 1]>>]
    BY <2>1 DEF Recursion
  <2> DEFINE last == step[<<n + 1, f[n]>>]
             g == [i \in 0 .. n + 1 |-> IF i = n + 1 THEN last ELSE f[i]]
  <2>3. last \in D
    BY <2>2
  <2>4. \A i \in 0 .. n : g[i] = f[i]
    OBVIOUS
  <2>5. g[n + 1] = last
    OBVIOUS
  <2>6. g \in [0 .. n + 1 -> D]
    BY <2>2, <2>3
  <2> HIDE DEF g
  <2>7. ASSUME NEW i \in 1 .. n + 1 PROVE g[i] = step[<<i, g[i - 1]>>]
    <3>1. CASE i = n + 1
      BY <2>4, <2>5, <3>1
    <3>2. CASE i # n + 1
      <4>1. i \in 1 .. n /\ i \in 0 .. n /\ i - 1 \in 0 .. n
        BY <3>2
      <4>2. QED BY <2>2, <2>4, <4>1
    <3>3. QED BY <3>1, <3>2
  <2>8. g[0] = base
    BY <2>2, <2>4
  <2>9. Recursion(D, n + 1, base, step, g)
    BY <2>6, <2>7, <2>8 DEF Recursion
  <2>10. QED BY <2>9
<1> HIDE DEF S
<1>3. \A n \in Nat : n \in S
  BY <1>1, <1>2, Induction
<1>4. QED BY <1>3 DEF S

\* Two such functions agree where both are defined.
LEMMA RecursionAgrees ==
  ASSUME NEW D, NEW base, NEW step, NEW m \in Nat, NEW n \in Nat, m <= n, NEW f, NEW g,
         Recursion(D, m, base, step, f), Recursion(D, n, base, step, g)
  PROVE  \A i \in 0 .. m : f[i] = g[i]
<1> DEFINE S == {i \in Nat : i <= m => f[i] = g[i]}
<1>1. 0 \in S
  BY DEF Recursion
<1>2. ASSUME NEW i \in Nat, i \in S PROVE i + 1 \in S
  <2>1. SUFFICES ASSUME i + 1 <= m PROVE f[i + 1] = g[i + 1]
    OBVIOUS
  <2>2. i + 1 \in 1 .. m /\ i + 1 \in 1 .. n /\ i + 1 - 1 = i /\ i <= m
    BY <2>1
  <2>3. f[i + 1] = step[<<i + 1, f[i]>>] /\ g[i + 1] = step[<<i + 1, g[i]>>]
    BY <2>2 DEF Recursion
  <2>4. QED BY <1>2, <2>2, <2>3
<1> HIDE DEF S
<1>3. \A i \in Nat : i \in S
  BY <1>1, <1>2, Induction
<1>4. QED BY <1>3 DEF S

\* So there is one on all numbers.
RecursionOnNat(D, base, step, f) ==
  /\ f \in [Nat -> D]
  /\ f[0] = base
  /\ \A i \in Nat : f[i + 1] = step[<<i + 1, f[i]>>]

LEMMA RecursionOnNatExists ==
  ASSUME NEW D, NEW base \in D, NEW step \in [Nat \X D -> D]
  PROVE  \E f : RecursionOnNat(D, base, step, f)
<1> DEFINE F(n) == CHOOSE h : Recursion(D, n, base, step, h)
           f == [n \in Nat |-> F(n)[n]]
<1>1. \A n \in Nat : Recursion(D, n, base, step, F(n))
  BY RecursionExists
<1> HIDE DEF F
<1>2. ASSUME NEW n \in Nat PROVE f[n] \in D
  <2>1. F(n) \in [0 .. n -> D]
    BY <1>1 DEF Recursion
  <2>2. QED BY <2>1
<1>3. f[0] = base
  BY <1>1 DEF Recursion
<1>4. ASSUME NEW n \in Nat PROVE f[n + 1] = step[<<n + 1, f[n]>>]
  <2>1. n + 1 \in Nat /\ n <= n + 1 /\ n \in 0 .. n /\ n + 1 \in 1 .. n + 1 /\ n + 1 - 1 = n
    OBVIOUS
  <2>2. Recursion(D, n, base, step, F(n)) /\ Recursion(D, n + 1, base, step, F(n + 1))
    BY <1>1, <2>1
  <2>3. F(n)[n] = F(n + 1)[n]
    <3> DEFINE g == F(n)
               h == F(n + 1)
               k == n + 1
    <3>1. k \in Nat /\ n <= k /\ Recursion(D, n, base, step, g) /\ Recursion(D, k, base, step, h)
      BY <2>1, <2>2
    <3> HIDE DEF g, h, k
    <3>2. \A i \in 0 .. n : g[i] = h[i]
      BY <3>1, RecursionAgrees
    <3>3. QED BY <2>1, <3>2 DEF g, h, k
  <2>4. F(n + 1)[n + 1] = step[<<n + 1, F(n + 1)[n]>>]
    BY <2>1, <2>2 DEF Recursion
  <2>5. QED BY <2>1, <2>3, <2>4
<1>5. RecursionOnNat(D, base, step, f)
  BY <1>2, <1>3, <1>4 DEF RecursionOnNat
<1>6. QED BY <1>5

-------------------------------------------------------------------------------
(* Queues. *)

LEMMA RangeAppend ==
  ASSUME NEW S, NEW s \in Seq(S), NEW x \in S
  PROVE  Range(Append(s, x)) = Range(s) \cup {x}
BY AppendProperties, LenProperties, SMT DEF Range

LEMMA RangeTail ==
  ASSUME NEW S, NEW s \in Seq(S), s # <<>>
  PROVE  Range(s) = Range(Tail(s)) \cup {Head(s)}
<1>1. /\ Tail(s) \in Seq(S)
      /\ Len(Tail(s)) = Len(s) - 1
      /\ \A i \in 1 .. Len(Tail(s)) : Tail(s)[i] = s[i + 1]
      /\ Len(s) \in Nat \ {0}
  BY HeadTailProperties, EmptySeq
<1>2. DOMAIN s = 1 .. Len(s) /\ DOMAIN Tail(s) = 1 .. Len(s) - 1
  BY <1>1, LenProperties
<1>3. Head(s) = s[1]
  OBVIOUS
<1>4. ASSUME NEW i \in 1 .. Len(s)
      PROVE  s[i] \in Range(Tail(s)) \cup {Head(s)}
  <2>1. CASE i = 1
    BY <1>3, <2>1
  <2>2. CASE i # 1
    <3>1. i - 1 \in 1 .. Len(s) - 1 /\ Tail(s)[i - 1] = s[i]
      BY <1>1, <2>2
    <3>2. QED BY <1>2, <3>1 DEF Range
  <2>3. QED BY <2>1, <2>2
<1>5. ASSUME NEW i \in 1 .. Len(s) - 1
      PROVE  Tail(s)[i] \in Range(s)
  BY <1>1, <1>2 DEF Range
<1>6. Head(s) \in Range(s)
  BY <1>1, <1>2, <1>3 DEF Range
<1>7. QED BY <1>2, <1>4, <1>5, <1>6 DEF Range

LEMMA RangeSize ==
  ASSUME NEW S, NEW s \in Seq(S)
  PROVE  IsFiniteSet(Range(s)) /\ Cardinality(Range(s)) <= Len(s)
<1>1. Len(s) \in Nat /\ DOMAIN s = 1 .. Len(s) /\ s \in [1 .. Len(s) -> Range(s)]
  BY LenProperties DEF Range
<1>2. s \in Surjection(1 .. Len(s), Range(s))
  BY <1>1 DEF Surjection, Range
<1>3. IsFiniteSet(1 .. Len(s)) /\ Cardinality(1 .. Len(s)) = Len(s)
  BY <1>1, FS_Interval
<1>4. QED BY <1>2, <1>3, FS_Surjection

LEMMA RangeConcat ==
  ASSUME NEW S, NEW s \in Seq(S), NEW t \in Seq(S)
  PROVE  Range(s \o t) = Range(s) \cup Range(t)
<1>1. /\ s \o t \in Seq(S) /\ Len(s \o t) = Len(s) + Len(t)
      /\ \A i \in 1 .. Len(s) + Len(t) :
           (s \o t)[i] = IF i <= Len(s) THEN s[i] ELSE t[i - Len(s)]
      /\ Len(s) \in Nat /\ Len(t) \in Nat
  BY ConcatProperties, LenProperties
<1>2. /\ DOMAIN (s \o t) = 1 .. Len(s) + Len(t)
      /\ DOMAIN s = 1 .. Len(s) /\ DOMAIN t = 1 .. Len(t)
  BY <1>1, LenProperties
<1>3. ASSUME NEW i \in 1 .. Len(s) + Len(t)
      PROVE  (s \o t)[i] \in Range(s) \cup Range(t)
  <2>1. CASE i <= Len(s)
    BY <1>1, <1>2, <2>1 DEF Range
  <2>2. CASE i > Len(s)
    <3>1. i - Len(s) \in 1 .. Len(t) /\ (s \o t)[i] = t[i - Len(s)]
      BY <1>1, <2>2
    <3>2. QED BY <1>2, <3>1 DEF Range
  <2>3. QED BY <1>1, <2>1, <2>2
<1>4. ASSUME NEW i \in 1 .. Len(s) PROVE s[i] \in Range(s \o t)
  <2>1. i \in 1 .. Len(s) + Len(t) /\ (s \o t)[i] = s[i]
    BY <1>1
  <2>2. QED BY <1>2, <2>1 DEF Range
<1>5. ASSUME NEW i \in 1 .. Len(t) PROVE t[i] \in Range(s \o t)
  <2>1. /\ Len(s) + i \in 1 .. Len(s) + Len(t)
        /\ (s \o t)[Len(s) + i] = t[Len(s) + i - Len(s)]
        /\ Len(s) + i - Len(s) = i
    BY <1>1
  <2>2. QED BY <1>2, <2>1 DEF Range
<1>6. QED BY <1>2, <1>3, <1>4, <1>5 DEF Range

\* The two parts of a sequence.
LEMMA Split ==
  ASSUME NEW S, NEW s \in Seq(S), NEW n \in 0 .. Len(s)
  PROVE  /\ SubSeq(s, 1, n) \in Seq(S) /\ Len(SubSeq(s, 1, n)) = n
         /\ SubSeq(s, n + 1, Len(s)) \in Seq(S)
         /\ Len(SubSeq(s, n + 1, Len(s))) = Len(s) - n
         /\ SubSeq(s, 1, n) \o SubSeq(s, n + 1, Len(s)) = s
<1>1. Len(s) \in Nat /\ \A i \in 1 .. Len(s) : s[i] \in S
  BY LenProperties, ElementOfSeq
<1>2. SubSeq(s, 1, n) \in Seq(S) /\ Len(SubSeq(s, 1, n)) = n
  BY <1>1, SubSeqProperties
<1>3. /\ SubSeq(s, n + 1, Len(s)) \in Seq(S)
      /\ Len(SubSeq(s, n + 1, Len(s))) = Len(s) - n
  BY <1>1, SubSeqProperties
<1>4. SubSeq(s, 1, n) \o SubSeq(s, n + 1, Len(s)) = SubSeq(s, 1, Len(s))
  <2>1. /\ 1 \in 1 .. Len(s) + 1 /\ n \in 1 - 1 .. Len(s)
        /\ Len(s) \in n .. Len(s)
    BY <1>1
  <2>2. QED BY <2>1, ConcatAdjacentSubSeq
<1>5. QED BY <1>2, <1>3, <1>4, SubSeqFull

\* The head of one queue becomes the end of the one before it.
LEMMA MoveHead ==
  ASSUME NEW S, NEW s \in Seq(S), NEW t \in Seq(S), t # <<>>
  PROVE  Append(s, Head(t)) \o Tail(t) = s \o t
<1>1. Head(t) \in S /\ Tail(t) \in Seq(S) /\ <<Head(t)>> \in Seq(S)
  BY HeadTailProperties
<1>2. Append(s, Head(t)) = s \o <<Head(t)>>
  BY <1>1, AppendIsConcat
<1>3. (s \o <<Head(t)>>) \o Tail(t) = s \o (<<Head(t)>> \o Tail(t))
  BY <1>1, ConcatAssociative
<1>4. <<Head(t)>> \o Tail(t) = t
  BY HeadTailAppend
<1>5. QED BY <1>2, <1>3, <1>4

LEMMA AppendLast ==
  ASSUME NEW S, NEW s \in Seq(S), NEW t \in Seq(S), NEW x \in S
  PROVE  s \o Append(t, x) = Append(s \o t, x)
<1>1. <<x>> \in Seq(S) /\ s \o t \in Seq(S)
  BY ConcatProperties
<1>2. Append(t, x) = t \o <<x>> /\ Append(s \o t, x) = (s \o t) \o <<x>>
  BY <1>1, AppendIsConcat
<1>3. QED BY <1>1, <1>2, ConcatAssociative

-------------------------------------------------------------------------------
(* FlattenSeq. *)

\* f[i] is the concatenation of the first i sequences, for each i up to n.
Partial(seqs, n, f) ==
  f = [i \in 1 .. n |-> IF i = 1 THEN seqs[i] ELSE f[i - 1] \o seqs[i]]

LEMMA PartialStep ==
  ASSUME NEW seqs, NEW n \in Nat, NEW f, Partial(seqs, n, f), NEW i \in 1 .. n
  PROVE  f[i] = IF i = 1 THEN seqs[i] ELSE f[i - 1] \o seqs[i]
<1>1. f = [j \in 1 .. n |-> IF j = 1 THEN seqs[j] ELSE f[j - 1] \o seqs[j]]
  BY DEF Partial
<1>2. QED BY <1>1, Zenon

LEMMA PartialExists ==
  ASSUME NEW seqs
  PROVE  \A n \in Nat : \E f : Partial(seqs, n, f)
<1> DEFINE S == {n \in Nat : \E f : Partial(seqs, n, f)}
<1>1. 0 \in S
  <2> DEFINE f == [i \in 1 .. 0 |-> 0]
  <2>1. Partial(seqs, 0, f)
    BY DEF Partial
  <2>2. QED BY <2>1
<1>2. ASSUME NEW n \in Nat, n \in S
      PROVE  n + 1 \in S
  <2>1. PICK f : Partial(seqs, n, f)
    BY <1>2
  <2> DEFINE last == IF n = 0 THEN seqs[1] ELSE f[n] \o seqs[n + 1]
             g == [i \in 1 .. n + 1 |-> IF i = n + 1 THEN last ELSE f[i]]
             h == [i \in 1 .. n + 1 |-> IF i = 1 THEN seqs[i] ELSE g[i - 1] \o seqs[i]]
  <2>2. ASSUME NEW i \in 1 .. n + 1 PROVE g[i] = h[i]
    <3>1. CASE i = n + 1 /\ n = 0
      BY <3>1
    <3>2. CASE i = n + 1 /\ n # 0
      <4>1. i - 1 = n /\ n \in 1 .. n + 1 /\ n # n + 1 /\ i # 1
        BY <3>2
      <4>2. g[n] = f[n]
        BY <4>1
      <4>3. QED BY <3>2, <4>1, <4>2
    <3>3. CASE i # n + 1
      <4>1. i \in 1 .. n /\ g[i] = f[i]
        BY <3>3
      <4>2. f[i] = IF i = 1 THEN seqs[i] ELSE f[i - 1] \o seqs[i]
        BY <2>1, <4>1, PartialStep
      <4>3. i # 1 => i - 1 \in 1 .. n + 1 /\ i - 1 # n + 1
        BY <4>1
      <4>4. i # 1 => g[i - 1] = f[i - 1]
        BY <4>3
      <4>5. QED BY <4>1, <4>2, <4>4
    <3>4. QED BY <3>1, <3>2, <3>3
  <2>3. g = h
    BY <2>2
  <2>4. Partial(seqs, n + 1, g)
    BY <2>3 DEF Partial
  <2>5. QED BY <2>4
<1> HIDE DEF S
<1>3. \A n \in Nat : n \in S
  BY <1>1, <1>2, Induction
<1>4. QED BY <1>3 DEF S

\* It depends on nothing but the sequences themselves.
LEMMA PartialAgrees ==
  ASSUME NEW s, NEW t, NEW f, NEW g, NEW m \in Nat, NEW n \in Nat,
         m <= n, Partial(s, m, f), Partial(t, n, g), \A i \in 1 .. m : s[i] = t[i]
  PROVE  \A i \in 1 .. m : f[i] = g[i]
<1> DEFINE S == {i \in Nat : i \in 1 .. m => f[i] = g[i]}
<1>1. 0 \in S
  OBVIOUS
<1>2. ASSUME NEW i \in Nat, i \in S PROVE i + 1 \in S
  <2>1. SUFFICES ASSUME i + 1 \in 1 .. m PROVE f[i + 1] = g[i + 1]
    OBVIOUS
  <2>2. i + 1 \in 1 .. m /\ i + 1 \in 1 .. n /\ i + 1 - 1 = i
    BY <2>1
  <2>3. f[i + 1] = IF i + 1 = 1 THEN s[i + 1] ELSE f[i] \o s[i + 1]
    BY <2>2, PartialStep
  <2>4. g[i + 1] = IF i + 1 = 1 THEN t[i + 1] ELSE g[i] \o t[i + 1]
    BY <2>2, PartialStep
  <2>5. s[i + 1] = t[i + 1]
    BY <2>1
  <2>6. i + 1 # 1 => f[i] = g[i]
    BY <1>2, <2>1
  <2>7. QED BY <2>3, <2>4, <2>5, <2>6
<1> HIDE DEF S
<1>3. \A i \in Nat : i \in S
  BY <1>1, <1>2, Induction
<1>4. QED BY <1>3 DEF S

\* What FlattenSeq computes.
LEMMA FlattenPartial ==
  ASSUME NEW seqs, NEW n \in Nat, Len(seqs) = n, n # 0,
         NEW f, Partial(seqs, n, f)
  PROVE  FlattenSeq(seqs) = f[n]
<1> DEFINE g == CHOOSE h : Partial(seqs, n, h)
<1>1. Partial(seqs, n, g)
  OBVIOUS
<1>2. FlattenSeq(seqs) = g[n]
  BY DEF FlattenSeq, Partial
<1>3. g[n] = f[n]
  <2> HIDE DEF g
  <2>1. \A i \in 1 .. n : g[i] = f[i]
    BY <1>1, PartialAgrees
  <2>2. QED BY <2>1
<1>4. QED BY <1>2, <1>3

LEMMA FlattenEmpty == FlattenSeq(<<>>) = <<>>
BY DEF FlattenSeq

\* One sequence more is what follows the others.
LEMMA FlattenAppend ==
  ASSUME NEW T, NEW seqs \in Seq(Seq(T)), NEW x \in Seq(T)
  PROVE  FlattenSeq(Append(seqs, x)) = FlattenSeq(seqs) \o x
<1> DEFINE n == Len(seqs)
           more == Append(seqs, x)
<1>1. n \in Nat
  BY LenProperties
<1>2. /\ Len(more) = n + 1
      /\ \A i \in 1 .. n : more[i] = seqs[i]
      /\ more[n + 1] = x
  BY AppendProperties
<1> HIDE DEF more
<1>3. n + 1 \in Nat /\ n + 1 # 0 /\ n + 1 \in 1 .. n + 1
  BY <1>1
<1>4. PICK g : Partial(more, n + 1, g)
  BY <1>3, PartialExists
<1>5. FlattenSeq(more) = g[n + 1]
  BY <1>3, <1>2, <1>4, FlattenPartial
<1>6. g[n + 1] = IF n + 1 = 1 THEN more[n + 1] ELSE g[n + 1 - 1] \o more[n + 1]
  BY <1>3, <1>4, PartialStep
<1>7. CASE n = 0
  <2>1. seqs = <<>>
    BY <1>7, EmptySeq
  <2>2. FlattenSeq(seqs) \o x = x
    BY <2>1, FlattenEmpty, ConcatEmptySeq
  <2>3. FlattenSeq(more) = x
    BY <1>2, <1>5, <1>6, <1>7
  <2>4. QED BY <2>2, <2>3 DEF more
<1>8. CASE n # 0
  <2>1. PICK f : Partial(seqs, n, f)
    BY <1>1, PartialExists
  <2>2. FlattenSeq(seqs) = f[n]
    BY <1>1, <1>8, <2>1, FlattenPartial
  <2>3. f[n] = g[n]
    <3> HIDE DEF n
    <3>1. n + 1 \in Nat /\ n <= n + 1 /\ n <= n /\ n \in 1 .. n
      BY <1>1, <1>8
    <3>2. \A i \in 1 .. n : seqs[i] = more[i]
      BY <1>2
    <3>3. \A i \in 1 .. n : f[i] = g[i]
      <4> DEFINE k == n + 1
      <4>1. k \in Nat /\ n <= k /\ Partial(more, k, g)
        BY <1>3, <1>4, <3>1
      <4> HIDE DEF k
      <4>2. QED BY <1>1, <2>1, <3>2, <4>1, PartialAgrees
    <3>4. QED BY <3>1, <3>3
  <2>4. n + 1 # 1 /\ n + 1 - 1 = n
    BY <1>1, <1>8
  <2>5. FlattenSeq(more) = f[n] \o x
    BY <1>2, <1>5, <1>6, <2>3, <2>4
  <2>6. QED BY <2>2, <2>5 DEF more
<1>9. QED BY <1>7, <1>8

LEMMA FlattenSingle ==
  ASSUME NEW T, NEW x \in Seq(T)
  PROVE  FlattenSeq(<<x>>) = x
<1>1. <<x>> = Append(<<>>, x) /\ <<>> \in Seq(Seq(T))
  OBVIOUS
<1>2. FlattenSeq(<<x>>) = <<>> \o x
  BY <1>1, FlattenAppend, FlattenEmpty
<1>3. QED BY <1>2, ConcatEmptySeq

LEMMA FlattenType ==
  ASSUME NEW T
  PROVE  \A seqs \in Seq(Seq(T)) : FlattenSeq(seqs) \in Seq(T)
<1> DEFINE S == {n \in Nat : \A seqs \in Seq(Seq(T)) :
                   Len(seqs) = n => FlattenSeq(seqs) \in Seq(T)}
<1>1. 0 \in S
  <2>1. \A seqs \in Seq(Seq(T)) : Len(seqs) = 0 => seqs = <<>>
    BY EmptySeq
  <2>2. <<>> \in Seq(T)
    BY EmptySeq
  <2>3. QED BY <2>1, <2>2, FlattenEmpty
<1>2. ASSUME NEW n \in Nat, n \in S PROVE n + 1 \in S
  <2>1. SUFFICES ASSUME NEW seqs \in Seq(Seq(T)), Len(seqs) = n + 1
                 PROVE  FlattenSeq(seqs) \in Seq(T)
    OBVIOUS
  <2>2. seqs # <<>>
    BY <2>1
  <2>3. PICK s \in Seq(Seq(T)), x \in Seq(T) : seqs = Append(s, x)
    BY <2>2, SequenceEmptyOrAppend
  <2>4. Len(s) = n
    <3>1. Len(s) \in Nat /\ Len(seqs) = Len(s) + 1
      BY <2>3, AppendProperties, LenProperties
    <3>2. QED BY <2>1, <3>1
  <2>5. FlattenSeq(s) \in Seq(T)
    BY <1>2, <2>4
  <2>6. QED BY <2>3, <2>5, FlattenAppend, ConcatProperties
<1> HIDE DEF S
<1>3. \A n \in Nat : n \in S
  BY <1>1, <1>2, Induction
<1>4. QED BY <1>3, LenProperties DEF S

LEMMA FlattenConcat ==
  ASSUME NEW T, NEW s \in Seq(Seq(T))
  PROVE  \A t \in Seq(Seq(T)) : FlattenSeq(s \o t) = FlattenSeq(s) \o FlattenSeq(t)
<1> DEFINE S == {n \in Nat : \A t \in Seq(Seq(T)) : Len(t) = n =>
                   FlattenSeq(s \o t) = FlattenSeq(s) \o FlattenSeq(t)}
<1>1. 0 \in S
  <2>1. SUFFICES ASSUME NEW t \in Seq(Seq(T)), Len(t) = 0
                 PROVE  FlattenSeq(s \o t) = FlattenSeq(s) \o FlattenSeq(t)
    OBVIOUS
  <2>2. t = <<>>
    BY <2>1, EmptySeq
  <2>3. s \o t = s
    BY <2>2, ConcatEmptySeq
  <2>4. FlattenSeq(s) \o <<>> = FlattenSeq(s)
    BY FlattenType, ConcatEmptySeq
  <2>5. QED BY <2>2, <2>3, <2>4, FlattenEmpty
<1>2. ASSUME NEW n \in Nat, n \in S PROVE n + 1 \in S
  <2>1. SUFFICES ASSUME NEW t \in Seq(Seq(T)), Len(t) = n + 1
                 PROVE  FlattenSeq(s \o t) = FlattenSeq(s) \o FlattenSeq(t)
    OBVIOUS
  <2>2. t # <<>>
    BY <2>1
  <2>3. PICK u \in Seq(Seq(T)), x \in Seq(T) : t = Append(u, x)
    BY <2>2, SequenceEmptyOrAppend
  <2>4. Len(u) = n
    <3>1. Len(u) \in Nat /\ Len(t) = Len(u) + 1
      BY <2>3, AppendProperties, LenProperties
    <3>2. QED BY <2>1, <3>1
  <2>5. FlattenSeq(s \o u) = FlattenSeq(s) \o FlattenSeq(u)
    BY <1>2, <2>4
  <2>6. s \o t = Append(s \o u, x) /\ s \o u \in Seq(Seq(T))
    BY <2>3, AppendLast, ConcatProperties
  <2>7. FlattenSeq(s \o t) = (FlattenSeq(s) \o FlattenSeq(u)) \o x
    BY <2>5, <2>6, FlattenAppend
  <2>8. FlattenSeq(t) = FlattenSeq(u) \o x
    BY <2>3, FlattenAppend
  <2>9. FlattenSeq(s) \in Seq(T) /\ FlattenSeq(u) \in Seq(T)
    BY FlattenType
  <2>10. QED BY <2>7, <2>8, <2>9, ConcatAssociative
<1> HIDE DEF S
<1>3. \A n \in Nat : n \in S
  BY <1>1, <1>2, Induction
<1>4. QED BY <1>3, LenProperties DEF S

\* b begins with v, and goes on with x.
LEMMA OneMorePart ==
  ASSUME NEW T, NEW b, NEW v \in Seq(T), NEW x \in Seq(T),
         NEW m \in Nat, Len(v) = m,
         \A j \in 1 .. m : v[j] = b[j], \A j \in 1 .. Len(x) : b[m + j] = x[j]
  PROVE  \A j \in 1 .. m + Len(x) : (v \o x)[j] = b[j]
<1>1. Len(x) \in Nat
  BY LenProperties
<1>2. \A j \in 1 .. m + Len(x) : (v \o x)[j] = IF j <= m THEN v[j] ELSE x[j - m]
  BY ConcatProperties
<1>3. SUFFICES ASSUME NEW j \in 1 .. m + Len(x) PROVE (v \o x)[j] = b[j]
  OBVIOUS
<1>4. CASE j <= m
  BY <1>1, <1>2, <1>4
<1>5. CASE ~(j <= m)
  <2>1. j - m \in 1 .. Len(x) /\ m + (j - m) = j
    BY <1>1, <1>5
  <2>2. b[m + (j - m)] = x[j - m]
    BY <2>1
  <2>3. QED BY <1>2, <1>5, <2>1, <2>2
<1>6. QED BY <1>4, <1>5

LEMMA FlattenHead ==
  ASSUME NEW T, NEW s \in Seq(Seq(T)), s # <<>>
  PROVE  FlattenSeq(s) = Head(s) \o FlattenSeq(Tail(s))
<1>1. Head(s) \in Seq(T) /\ Tail(s) \in Seq(Seq(T)) /\ <<Head(s)>> \in Seq(Seq(T))
  BY HeadTailProperties
<1>2. s = <<Head(s)>> \o Tail(s)
  OBVIOUS
<1>3. FlattenSeq(s) = FlattenSeq(<<Head(s)>>) \o FlattenSeq(Tail(s))
  <2>1. \A t \in Seq(Seq(T)) :
          FlattenSeq(<<Head(s)>> \o t) = FlattenSeq(<<Head(s)>>) \o FlattenSeq(t)
    BY <1>1, FlattenConcat
  <2>2. QED BY <1>1, <1>2, <2>1, Zenon
<1>4. QED BY <1>1, <1>3, FlattenSingle

\* b has the parts at offsets that begin with 0, each where the one before it
\* ends, and nothing behind them.
Laid(T, b, parts, at) ==
  /\ b \in Seq(T) /\ parts \in Seq(Seq(T))
  /\ \A i \in 1 .. Len(parts) + 1 : at[i] \in Nat
  /\ at[1] = 0 /\ at[Len(parts) + 1] = Len(b)
  /\ \A i \in 1 .. Len(parts) :
       /\ at[i + 1] = at[i] + Len(parts[i])
       /\ \A j \in 1 .. Len(parts[i]) : b[at[i] + j] = parts[i][j]

\* u is the beginning of b, up to the end of part n.
Begins(T, b, at, n, u) ==
  u \in Seq(T) /\ Len(u) = at[n + 1] /\ \A j \in 1 .. at[n + 1] : u[j] = b[j]

LEMMA PartBegins ==
  ASSUME NEW T, NEW b, NEW parts, NEW at, Laid(T, b, parts, at),
         NEW n \in Nat, n + 1 <= Len(parts),
         Begins(T, b, at, n, FlattenSeq(SubSeq(parts, 1, n)))
  PROVE  Begins(T, b, at, n + 1, FlattenSeq(SubSeq(parts, 1, n + 1)))
<1> DEFINE m == at[n + 1]
           x == parts[n + 1]
           a == SubSeq(parts, 1, n)
           v == FlattenSeq(a)
           w == FlattenSeq(SubSeq(parts, 1, n + 1))
<1>1. parts \in Seq(Seq(T)) /\ Len(parts) \in Nat
  BY LenProperties DEF Laid
<1>2. /\ 1 \in 1 .. Len(parts) /\ n + 1 \in 1 .. Len(parts)
      /\ n + 1 \in 1 .. Len(parts) + 1 /\ n + 1 - 1 = n /\ n + 1 + 1 = n + 2
  BY <1>1
<1>3. x \in Seq(T) /\ Len(x) \in Nat /\ m \in Nat
  BY <1>1, <1>2, ElementOfSeq, LenProperties DEF Laid
<1>4. v \in Seq(T) /\ Len(v) = m /\ \A j \in 1 .. m : v[j] = b[j]
  BY DEF Begins
<1>5. at[n + 2] = m + Len(x) /\ \A j \in 1 .. Len(x) : b[m + j] = x[j]
  BY <1>2 DEF Laid
<1>6. SubSeq(parts, 1, n + 1) = Append(a, x) /\ a \in Seq(Seq(T))
  <2>1. n + 1 \in 1 .. Len(parts) /\ 1 \in 1 .. Len(parts) /\ n + 1 \in 1 .. Len(parts)
    BY <1>2
  <2>2. SubSeq(parts, 1, n + 1) = SubSeq(parts, 1, n + 1 - 1) \o <<x>>
    BY <1>1, <2>1, SubSeqRecursiveSecond
  <2>3. a \in Seq(Seq(T))
    <3>1. \A i \in 1 .. n : parts[i] \in Seq(T)
      BY <1>1, ElementOfSeq
    <3>2. QED BY <3>1, SubSeqProperties
  <2>4. QED BY <1>2, <1>3, <2>2, <2>3, AppendIsConcat
<1>7. w = v \o x
  BY <1>3, <1>6, FlattenAppend
<1> HIDE DEF a, m, v, w, x
<1>8. v \o x \in Seq(T) /\ Len(v \o x) = m + Len(x)
  BY <1>3, <1>4, ConcatProperties
<1>9. \A j \in 1 .. m + Len(x) : (v \o x)[j] = b[j]
  <2>1. \A j \in 1 .. m + Len(x) : (v \o x)[j] = IF j <= m THEN v[j] ELSE x[j - m]
    BY <1>3, <1>4, ConcatProperties
  <2>2. SUFFICES ASSUME NEW j \in 1 .. m + Len(x) PROVE (v \o x)[j] = b[j]
    OBVIOUS
  <2>3. CASE j <= m
    BY <1>3, <1>4, <2>1, <2>3
  <2>4. CASE ~(j <= m)
    <3>1. j - m \in 1 .. Len(x) /\ m + (j - m) = j
      BY <1>3, <2>4
    <3>2. b[m + (j - m)] = x[j - m]
      BY <1>5, <3>1
    <3>3. QED BY <2>1, <2>4, <3>1, <3>2
  <2>5. QED BY <2>3, <2>4
<1>10. Begins(T, b, at, n + 1, w)
  BY <1>2, <1>5, <1>7, <1>8, <1>9 DEF Begins
<1>11. QED BY <1>10 DEF w

\* Then it is what FlattenSeq makes of the parts.
LEMMA FlattenParts ==
  ASSUME NEW T, NEW b, NEW parts, NEW at, Laid(T, b, parts, at)
  PROVE  b = FlattenSeq(parts)
<1> DEFINE S == {n \in Nat : n <= Len(parts) =>
                   Begins(T, b, at, n, FlattenSeq(SubSeq(parts, 1, n)))}
           l == Len(parts)
           u == FlattenSeq(parts)
<1>1. b \in Seq(T) /\ parts \in Seq(Seq(T)) /\ l \in Nat
  BY LenProperties DEF Laid
<1>2. 0 \in S
  <2>1. FlattenSeq(SubSeq(parts, 1, 0)) = <<>>
    <3>1. 1 \in Int /\ 0 \in Int /\ 0 < 1
      OBVIOUS
    <3>2. SubSeq(parts, 1, 0) = <<>>
      BY ONLY <3>1, SubSeqEmpty
    <3>3. QED BY <3>2, FlattenEmpty
  <2>2. at[0 + 1] = 0
    BY DEF Laid
  <2>3. Begins(T, b, at, 0, <<>>)
    BY <2>2, EmptySeq DEF Begins
  <2>4. QED BY <2>1, <2>3
<1>3. ASSUME NEW n \in Nat, n \in S PROVE n + 1 \in S
  <2>1. SUFFICES ASSUME n + 1 <= Len(parts)
                 PROVE  Begins(T, b, at, n + 1, FlattenSeq(SubSeq(parts, 1, n + 1)))
    OBVIOUS
  <2>2. n <= Len(parts)
    BY <1>1, <2>1
  <2>3. QED BY <1>3, <2>1, <2>2, PartBegins
<1> HIDE DEF S
<1>4. l \in S
  BY <1>1, <1>2, <1>3, Induction
<1>5. Begins(T, b, at, l, u)
  <2>1. SubSeq(parts, 1, Len(parts)) = parts
    BY <1>1, SubSeqFull
  <2>2. Begins(T, b, at, l, FlattenSeq(SubSeq(parts, 1, l)))
    <3>1. l <= Len(parts)
      BY <1>1
    <3> HIDE DEF l
    <3>2. QED BY <1>4, <3>1 DEF S
  <2>3. QED BY <2>1, <2>2
<1>6. at[l + 1] = Len(b)
  BY DEF Laid
<1> HIDE DEF l, u
<1>7. u \in Seq(T) /\ Len(u) = Len(b) /\ \A j \in 1 .. Len(u) : u[j] = b[j]
  BY <1>5, <1>6 DEF Begins
<1>8. u = b
  BY <1>1, <1>7, SeqEqual
<1>9. QED BY <1>8 DEF u
===============================================================================
