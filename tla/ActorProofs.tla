---------------------------- MODULE ActorProofs ----------------------------
(***************************************************************************)
(* Proofs about WAL and Actor, for any messages, senders, mailbox capacity *)
(* and incarnations, and any number of crashes and of writes cut short.    *)
(*                                                                         *)
(* The log first: the reader of WAL is a recursive function from the end   *)
(* of the file to its beginning, so its rounds are shown to define it      *)
(* (ReaderDef), then what it does at a whole record (ReadRecord) and over  *)
(* the writes in front of the first torn one (IntactPrefix).  Then the     *)
(* actor: types, the file as the concatenation of its writes (FileInv),    *)
(* and where the copies of a message are (OnceInv).                        *)
(***************************************************************************)
EXTENDS Actor, WellFoundedInduction, NaturalsInduction, TLAPS

-----------------------------------------------------------------------------
(* Induction over the natural numbers, for a set *)

LEMMA LeastElement ==
    ASSUME NEW T \in SUBSET Nat, T # {}
    PROVE  \E x \in T : \A y \in T : x <= y
  <1> DEFINE R == OpToRel(<, Nat)
  <1>1. IsWellFoundedOn(R, Nat)
    BY NatLessThanWellFounded
  <1>2. \A x, y \in Nat : x < y => <<x, y>> \in R
    BY DEF OpToRel
  <1> HIDE DEF R
  <1>3. PICK x \in T : \A y \in T : ~(<<y, x>> \in R)
    BY <1>1, WFMin
  <1>4. ASSUME NEW y \in T PROVE x <= y
    <2>1. ~(y < x)
      BY <1>2, <1>3, Zenon
    <2> QED BY ONLY <2>1, x \in Nat, y \in Nat
  <1> QED BY <1>4

LEMMA Induct ==
    ASSUME NEW S \in SUBSET Nat, 0 \in S, \A n \in S : n + 1 \in S
    PROVE  \A n \in Nat : n \in S
  <1> SUFFICES ASSUME Nat \ S # {} PROVE FALSE
    OBVIOUS
  <1>1. PICK x \in Nat \ S : \A y \in Nat \ S : x <= y
    BY LeastElement, Zenon
  <1>2. x \in Nat /\ x \notin S /\ x # 0
    BY <1>1
  <1>3. x - 1 \in Nat /\ ~(x <= x - 1) /\ (x - 1) + 1 = x
    BY <1>2
  <1>4. x - 1 \in S
    BY <1>1, <1>3
  <1> QED BY <1>2, <1>3, <1>4

-----------------------------------------------------------------------------
(* The header *)

\* Uint32 undoes PutUint32, of a number of 32 bits.
LEMMA HeaderRoundTrip ==
    ASSUME NEW n \in Nat, n \div 65536 < 65536
    PROVE  /\ PutUint32(n) \in Seq(Byte) /\ Len(PutUint32(n)) = 4
           /\ Uint32(PutUint32(n)) = n
  <1> DEFINE a == n \div 256
             b == n \div 65536
             c == n \div 16777216
  <1>1. a \in Nat /\ b \in Nat /\ c \in Nat
    OBVIOUS
  <1>2. n = 256 * a + (n % 256) /\ n % 256 \in Byte
    BY DEF Byte
  <1>3. b = a \div 256 /\ c = b \div 256
    OBVIOUS
  <1> HIDE DEF a, b, c
  <1>4. /\ a = 256 * b + (a % 256) /\ a % 256 \in Byte
        /\ b = 256 * c + (b % 256) /\ b % 256 \in Byte
    BY <1>1, <1>3 DEF Byte
  <1>5. c = c % 256 /\ c % 256 \in Byte
    <2>1. b < 65536
      BY DEF b
    <2>2. c < 256
      BY <1>1, <1>4, <2>1 DEF Byte
    <2> QED BY <1>1, <2>2 DEF Byte
  <1>6. PutUint32(n) = <<n % 256, a % 256, b % 256, c % 256>>
    BY DEF PutUint32, a, b, c
  <1>7. /\ PutUint32(n) \in Seq(Byte) /\ Len(PutUint32(n)) = 4
        /\ Uint32(PutUint32(n)) =
             (n % 256) + 256 * ((a % 256) + 256 * ((b % 256) + 256 * (c % 256)))
    BY <1>2, <1>4, <1>5, <1>6 DEF Uint32
  <1>8. (n % 256) + 256 * ((a % 256) + 256 * ((b % 256) + 256 * (c % 256))) = n
    BY <1>1, <1>2, <1>4, <1>5
  <1> QED BY <1>7, <1>8

-----------------------------------------------------------------------------
(* The reader *)

\* What Replay may return.
Result == [ok : BOOLEAN, recs : Seq(Seq(Byte))]

LEMMA ReaderIs ==
    ASSUME NEW f, NEW sh
    PROVE  Reader(f, sh) =
             CHOOSE From : From = [p \in 1 .. Len(f) + 1 |-> Round(f, sh, p, From)]
  BY DEF Reader

\* Where a header is complete, the length it gives is a number.
LEMMA HeaderFacts ==
    ASSUME NEW f \in Seq(Byte), NEW p \in 1 .. Len(f) + 1,
           ~(PayloadAt(p) > Len(f) + 1)
    PROVE  /\ PayloadAt(p) \in 1 .. Len(f) + 1 /\ PayloadAt(p) > p
           /\ PayloadLen(f, p) \in Nat
           /\ RecordEnd(f, p) \in Nat /\ RecordEnd(f, p) > p
  <1> DEFINE h == SubSeq(f, p, PayloadAt(p) - 1)
  <1>1. /\ Len(f) \in Nat /\ DOMAIN f = 1 .. Len(f) /\ p \in Int
        /\ \A i \in 1 .. Len(f) : f[i] \in Byte
    OBVIOUS
  <1>2. PayloadAt(p) = p + 4 /\ PayloadAt(p) \in 1 .. Len(f) + 1
    BY <1>1 DEF PayloadAt, HeaderLen
  <1>3. \A i \in 1 .. 4 : h[i] = f[p + (i - 1)] /\ p + (i - 1) \in 1 .. Len(f)
    BY <1>1, <1>2
  <1> HIDE DEF h
  <1>4. ASSUME NEW i \in 1 .. 4 PROVE h[i] \in Nat
    <2>1. h[i] = f[p + (i - 1)] /\ p + (i - 1) \in 1 .. Len(f)
      BY <1>3
    <2>2. f[p + (i - 1)] \in Byte
      BY <1>1, <2>1
    <2>3. \A b \in Byte : b \in Nat
      BY ONLY DEF Byte
    <2> QED BY ONLY <2>1, <2>2, <2>3, Zenon
  <1>5. Uint32(h) \in Nat
    <2> DEFINE a == h[1]
               b == h[2]
               c == h[3]
               d == h[4]
    <2>1. a \in Nat /\ b \in Nat /\ c \in Nat /\ d \in Nat
      BY <1>4
    <2> HIDE DEF a, b, c, d
    <2>2. a + 256 * (b + 256 * (c + 256 * d)) \in Nat
      BY ONLY <2>1
    <2> QED BY ONLY <2>2 DEF a, b, c, d, Uint32
  <1>6. PayloadLen(f, p) \in Nat
    BY <1>5 DEF h, PayloadLen
  <1> QED BY <1>1, <1>2, <1>6 DEF RecordEnd

\* A round only looks at the rounds after it.
LEMMA RoundLocal ==
    ASSUME NEW f \in Seq(Byte), NEW sh, NEW p \in 1 .. Len(f) + 1, NEW G, NEW H,
           \A q \in 1 .. Len(f) + 1 : q > p => G[q] = H[q]
    PROVE  Round(f, sh, p, G) = Round(f, sh, p, H)
  <1>1. CASE p > Len(f) \/ PayloadAt(p) > Len(f) + 1
    BY <1>1, Zenon DEF Round
  <1>2. CASE ~(PayloadAt(p) > Len(f) + 1)
    <2>1. /\ PayloadAt(p) \in 1 .. Len(f) + 1 /\ PayloadAt(p) > p
          /\ RecordEnd(f, p) \in Nat /\ RecordEnd(f, p) > p
      BY <1>2, HeaderFacts
    <2>2. G[PayloadAt(p)] = H[PayloadAt(p)]
      BY <2>1
    <2>3. \/ RecordEnd(f, p) > Len(f) + 1
          \/ G[RecordEnd(f, p)] = H[RecordEnd(f, p)]
      BY <2>1
    <2> QED BY <2>2, <2>3, Zenon DEF Round
  <1> QED BY <1>1, <1>2, Zenon

\* The loop is what its rounds say.
LEMMA ReaderDef ==
    ASSUME NEW f \in Seq(Byte), NEW sh
    PROVE  \A p \in 1 .. Len(f) + 1 :
             Reader(f, sh)[p] = Round(f, sh, p, Reader(f, sh))
  <1> DEFINE N == Len(f) + 1
             Good(k, G) == \A p \in 1 .. N : p > N - k => G[p] = Round(f, sh, p, G)
             S == {k \in Nat : \E G : Good(k, G)}
  <1>0. N \in Nat
    OBVIOUS
  <1>1. 0 \in S
    <2>1. \A p \in 1 .. N : ~(p > N - 0)
      BY <1>0
    <2>2. Good(0, f)
      BY <2>1
    <2> QED BY <2>2
  <1>2. ASSUME NEW k \in S PROVE k + 1 \in S
    <2>1. PICK G : Good(k, G)
      BY <1>2
    <2> DEFINE G2 == [p \in 1 .. N |-> Round(f, sh, p, G)]
    <2>2. ASSUME NEW p \in 1 .. N, p > N - (k + 1)
          PROVE  G2[p] = Round(f, sh, p, G2)
      <3>1. \A q \in 1 .. N : q > p => q > N - k
        BY <1>0, <1>2, <2>2
      <3>2. \A q \in 1 .. N : q > p => G[q] = G2[q]
        BY <2>1, <3>1
      <3> HIDE DEF G2
      <3>3. Round(f, sh, p, G) = Round(f, sh, p, G2)
        BY <3>2, RoundLocal
      <3> QED BY <3>3 DEF G2
    <2> HIDE DEF G2
    <2>3. Good(k + 1, G2)
      BY <2>2
    <2>4. k + 1 \in Nat
      BY <1>2
    <2> HIDE DEF Good
    <2> QED BY <2>3, <2>4
  <1>3. N \in S
    <2> HIDE DEF S
    <2>1. S \in SUBSET Nat
      BY DEF S
    <2> QED BY <1>0, <1>1, <1>2, <2>1, Induct
  <1>4. PICK G : \A p \in 1 .. N : G[p] = Round(f, sh, p, G)
    <2>1. \A p \in 1 .. N : p > N - N
      BY <1>0
    <2> QED BY <1>3, <2>1
  <1> DEFINE G2 == [p \in 1 .. N |-> Round(f, sh, p, G)]
  <1>5. G2 = [p \in 1 .. N |-> Round(f, sh, p, G2)]
    <2>1. \A q \in 1 .. N : G[q] = G2[q]
      BY <1>4
    <2> HIDE DEF G2
    <2>2. \A p \in 1 .. N : Round(f, sh, p, G) = Round(f, sh, p, G2)
      BY <2>1, RoundLocal
    <2> QED BY <2>2 DEF G2
  <1>6. Reader(f, sh) = [p \in 1 .. N |-> Round(f, sh, p, Reader(f, sh))]
    <2> HIDE DEF G2
    <2> QED BY <1>5, ReaderIs
  <1> QED BY <1>6

LEMMA RoundType ==
    ASSUME NEW f \in Seq(Byte), NEW sh \in Result, NEW p \in 1 .. Len(f) + 1,
           NEW G, \A q \in 1 .. Len(f) + 1 : q > p => G[q] \in Result
    PROVE  Round(f, sh, p, G) \in Result
  <1> DEFINE e == RecordEnd(f, p)
  <1>1. Read(<<>>) \in Result /\ ReadError \in Result
    BY DEF Read, ReadError, Result
  <1>2. CASE p > Len(f) \/ PayloadAt(p) > Len(f) + 1
    BY <1>1, <1>2, Zenon DEF Round
  <1>3. CASE ~(p > Len(f)) /\ ~(PayloadAt(p) > Len(f) + 1)
    <2>1. /\ PayloadAt(p) \in 1 .. Len(f) + 1 /\ PayloadAt(p) > p
          /\ e \in Nat /\ e > p
      BY <1>3, HeaderFacts
    <2>2. G[PayloadAt(p)] \in Result
      BY <2>1
    <2>3. CASE PayloadLen(f, p) = 0
      BY <1>3, <2>2, <2>3, Zenon DEF Round
    <2>4. CASE ~(PayloadLen(f, p) = 0) /\ (e > Len(f) + 1 \/ ~G[e].ok)
      BY <1>1, <1>3, <2>4, Zenon DEF Round
    <2>5. CASE ~(PayloadLen(f, p) = 0) /\ ~(e > Len(f) + 1 \/ ~G[e].ok)
      <3>1. Round(f, sh, p, G) = Read(<<Payload(f, p)>> \o G[e].recs)
        BY <1>3, <2>5, Zenon DEF Round
      <3> HIDE DEF e
      <3>2. Payload(f, p) \in Seq(Byte)
        <4>1. e - 1 \in 0 .. Len(f) /\ PayloadAt(p) \in Nat /\ PayloadAt(p) >= 1
          BY <2>1, <2>5
        <4> QED BY <4>1 DEF Payload, e
      <3>3. G[e].recs \in Seq(Seq(Byte))
        <4>1. e \in 1 .. Len(f) + 1 /\ e > p
          BY <2>1, <2>5
        <4>2. G[e] \in Result
          BY <4>1
        <4> QED BY <4>2 DEF Result
      <3> DEFINE b == Payload(f, p)
      <3> HIDE DEF b
      <3>4. <<b>> \o G[e].recs \in Seq(Seq(Byte))
        <4>1. b \in Seq(Byte)
          BY <3>2 DEF b
        <4> QED BY ONLY <3>3, <4>1
      <3>5. Read(<<b>> \o G[e].recs) \in Result
        BY ONLY <3>4 DEF Read, Result
      <3> QED BY ONLY <3>1, <3>5 DEF b
    <2> QED BY <2>3, <2>4, <2>5
  <1> QED BY <1>2, <1>3, Zenon

LEMMA ReaderType ==
    ASSUME NEW f \in Seq(Byte), NEW sh \in Result
    PROVE  \A p \in 1 .. Len(f) + 1 : Reader(f, sh)[p] \in Result
  <1> DEFINE N == Len(f) + 1
             R == Reader(f, sh)
             S == {k \in Nat : \A p \in 1 .. N : p > N - k => R[p] \in Result}
  <1>0. N \in Nat
    OBVIOUS
  <1>d. \A p \in 1 .. N : R[p] = Round(f, sh, p, R)
    BY ReaderDef, Zenon
  <1> HIDE DEF R
  <1>1. 0 \in S
    BY <1>0
  <1>2. ASSUME NEW k \in S PROVE k + 1 \in S
    <2>1. ASSUME NEW p \in 1 .. N, p > N - (k + 1)
          PROVE  R[p] \in Result
      <3>1. \A q \in 1 .. N : q > p => q > N - k
        BY <1>0, <1>2, <2>1
      <3>2. \A q \in 1 .. N : q > p => R[q] \in Result
        BY <1>2, <3>1
      <3>3. Round(f, sh, p, R) \in Result
        BY <3>2, RoundType
      <3> QED BY <1>d, <3>3
    <2> QED BY <1>2, <2>1
  <1>3. N \in S
    <2>1. S \in SUBSET Nat
      OBVIOUS
    <2> HIDE DEF S
    <2> QED BY <1>0, <1>1, <1>2, <2>1, Induct
  <1>4. \A p \in 1 .. N : p > N - N
    BY <1>0
  <1> QED BY <1>3, <1>4 DEF R

\* A payload whose length a header can hold: one below 4 GiB.
Fits(b) == Len(b) \div 65536 < 65536

LEMMA SameSeq ==
    ASSUME NEW T, NEW s \in Seq(T), NEW t \in Seq(T), Len(s) = Len(t),
           \A j \in 1 .. Len(s) : s[j] = t[j]
    PROVE  s = t
  OBVIOUS

LEMMA ConcatAssoc ==
    ASSUME NEW T, NEW s \in Seq(T), NEW t \in Seq(T), NEW u \in Seq(T)
    PROVE  (s \o t) \o u = s \o (t \o u)
  BY SMTT(60)

LEMMA Slice ==
    ASSUME NEW T, NEW s \in Seq(T), NEW a \in Nat, NEW n \in Nat,
           a >= 1, a + n <= Len(s) + 1
    PROVE  /\ SubSeq(s, a, a + n - 1) \in Seq(T)
           /\ Len(SubSeq(s, a, a + n - 1)) = n
           /\ \A j \in 1 .. n : SubSeq(s, a, a + n - 1)[j] = s[a + (j - 1)]
  BY SMTT(60)

LEMMA Concat ==
    ASSUME NEW T, NEW s \in Seq(T), NEW t \in Seq(T)
    PROVE  /\ s \o t \in Seq(T) /\ Len(s \o t) = Len(s) + Len(t)
           /\ \A j \in 1 .. Len(s) : (s \o t)[j] = s[j]
           /\ \A j \in 1 .. Len(t) : (s \o t)[Len(s) + j] = t[j]
  OBVIOUS

\* The bytes of a whole record, where the file has them.
LEMMA RecordBytes ==
    ASSUME NEW f \in Seq(Byte), NEW p \in Nat \ {0},
           NEW b \in Seq(Byte), b # <<>>, Fits(b),
           p + Len(Record(b)) <= Len(f) + 1,
           \A j \in 1 .. Len(Record(b)) : f[p + (j - 1)] = Record(b)[j]
    PROVE  /\ p \in 1 .. Len(f) /\ PayloadAt(p) <= Len(f) + 1
           /\ PayloadLen(f, p) = Len(b) /\ Len(b) > 0
           /\ RecordEnd(f, p) = p + Len(Record(b))
           /\ Payload(f, p) = b
  <1> DEFINE c == PutUint32(Len(b))
  <1>0. Len(f) \in Nat /\ Len(b) \in Nat /\ Len(b) > 0
    OBVIOUS
  <1>1. c \in Seq(Byte) /\ Len(c) = 4 /\ Uint32(c) = Len(b)
    BY <1>0, HeaderRoundTrip DEF Fits
  <1>2. Record(b) = c \o b
    BY DEF Record
  <1> HIDE DEF c
  <1>3. /\ Len(Record(b)) = 4 + Len(b)
        /\ \A j \in 1 .. 4 : Record(b)[j] = c[j]
        /\ \A j \in 1 .. Len(b) : Record(b)[4 + j] = b[j]
    <2>1. /\ Len(c \o b) = Len(c) + Len(b)
          /\ \A j \in 1 .. Len(c) : (c \o b)[j] = c[j]
          /\ \A j \in 1 .. Len(b) : (c \o b)[Len(c) + j] = b[j]
      <3>1. c \in Seq(Byte) /\ b \in Seq(Byte)
        BY <1>1
      <3>2. \A s, t \in Seq(Byte) :
              /\ Len(s \o t) = Len(s) + Len(t)
              /\ \A j \in 1 .. Len(s) : (s \o t)[j] = s[j]
              /\ \A j \in 1 .. Len(t) : (s \o t)[Len(s) + j] = t[j]
        BY ONLY Concat
      <3> QED BY ONLY <3>1, <3>2, Zenon
    <2> QED BY ONLY <1>1, <1>2, <2>1, Zenon
  <1>4. /\ p + 4 + Len(b) <= Len(f) + 1
        /\ \A j \in 1 .. 4 : f[p + (j - 1)] = c[j]
        /\ \A j \in 1 .. Len(b) : f[p + 4 + (j - 1)] = b[j]
    <2>1. p + 4 + Len(b) <= Len(f) + 1
      BY <1>0, <1>3
    <2>2. ASSUME NEW j \in 1 .. 4 PROVE f[p + (j - 1)] = c[j]
      <3>1. j \in 1 .. Len(Record(b)) /\ Record(b)[j] = c[j]
        BY <1>0, <1>3, SMTT(40)
      <3> QED BY <3>1, Zenon
    <2>3. ASSUME NEW j \in 1 .. Len(b) PROVE f[p + 4 + (j - 1)] = b[j]
      <3>1. 4 + j \in 1 .. Len(Record(b))
        BY <1>0, <1>3
      <3>2. f[p + ((4 + j) - 1)] = Record(b)[4 + j]
        BY <3>1
      <3>3. p + ((4 + j) - 1) = p + 4 + (j - 1)
        OBVIOUS
      <3> QED BY <1>3, <3>2, <3>3
    <2> QED BY <2>1, <2>2, <2>3
  <1>5. /\ p \in 1 .. Len(f) /\ PayloadAt(p) = p + 4
        /\ PayloadAt(p) <= Len(f) + 1
    <2>1. p + 4 + Len(b) <= Len(f) + 1
      BY <1>4
    <2> QED BY ONLY <1>0, <2>1, p \in Nat \ {0} DEF PayloadAt, HeaderLen
  <1>6. PayloadLen(f, p) = Len(b)
    <2> DEFINE d == SubSeq(f, p, PayloadAt(p) - 1)
    <2>1. \A j \in 1 .. 4 : d[j] = f[p + (j - 1)]
      BY <1>0, <1>5
    <2> HIDE DEF d
    <2>2. \A j \in 1 .. 4 : d[j] = c[j]
      BY <1>4, <2>1
    <2>3. d[1] = c[1] /\ d[2] = c[2] /\ d[3] = c[3] /\ d[4] = c[4]
      BY <2>2
    <2>4. Uint32(d) = Uint32(c)
      BY ONLY <2>3 DEF Uint32
    <2> QED BY <1>1, <2>4 DEF PayloadLen, d
  <1>7. RecordEnd(f, p) = p + Len(Record(b))
    BY <1>0, <1>3, <1>5, <1>6 DEF RecordEnd
  <1>8. Payload(f, p) = b
    <2> DEFINE s == SubSeq(f, p + 4, p + 4 + Len(b) - 1)
    <2>1. /\ s \in Seq(Byte) /\ Len(s) = Len(b)
          /\ \A j \in 1 .. Len(b) : s[j] = f[p + 4 + (j - 1)]
      <3>1. p + 4 \in Nat /\ p + 4 >= 1 /\ p + 4 + Len(b) <= Len(f) + 1
        BY <1>4
      <3>2. \A a, n \in Nat : a >= 1 /\ a + n <= Len(f) + 1 =>
              /\ SubSeq(f, a, a + n - 1) \in Seq(Byte)
              /\ Len(SubSeq(f, a, a + n - 1)) = n
              /\ \A j \in 1 .. n : SubSeq(f, a, a + n - 1)[j] = f[a + (j - 1)]
        BY ONLY f \in Seq(Byte), Slice
      <3> QED BY <1>0, <3>1, <3>2, Zenon
    <2> HIDE DEF s
    <2>2. \A j \in 1 .. Len(b) : s[j] = b[j]
      BY <1>4, <2>1
    <2>3. s = b
      BY ONLY <2>1, <2>2, b \in Seq(Byte)
    <2>4. RecordEnd(f, p) - 1 = p + 4 + Len(b) - 1
      BY <1>0, <1>3, <1>7
    <2>5. Payload(f, p) = s
      BY ONLY <1>5, <2>4 DEF Payload, s
    <2> QED BY <2>3, <2>5
  <1> QED BY <1>0, <1>5, <1>6, <1>7, <1>8

\* The file f has the record of b at byte p, and ends it before byte q.
RecordAt(f, p, b, q) ==
    /\ p \in Nat \ {0} /\ b \in Seq(Byte) /\ b # <<>> /\ Fits(b)
    /\ q = p + Len(Record(b)) /\ q <= Len(f) + 1
    /\ \A j \in 1 .. Len(Record(b)) : f[p + (j - 1)] = Record(b)[j]

\* The reader at a whole record.
LEMMA ReadRecord ==
    ASSUME NEW f \in Seq(Byte), NEW sh \in Result, NEW p, NEW b, NEW q,
           RecordAt(f, p, b, q)
    PROVE  Reader(f, sh)[p] =
             IF Reader(f, sh)[q].ok
               THEN Read(<<b>> \o Reader(f, sh)[q].recs) ELSE ReadError
  <1> DEFINE R == Reader(f, sh)
  <1>0. Len(f) \in Nat
    OBVIOUS
  <1>p. /\ p \in Nat \ {0} /\ b \in Seq(Byte) /\ b # <<>> /\ Fits(b)
        /\ q = p + Len(Record(b)) /\ q <= Len(f) + 1
        /\ \A j \in 1 .. Len(Record(b)) : f[p + (j - 1)] = Record(b)[j]
    BY DEF RecordAt
  <1>1. /\ p \in 1 .. Len(f) /\ PayloadAt(p) <= Len(f) + 1
        /\ PayloadLen(f, p) = Len(b) /\ Len(b) > 0
        /\ RecordEnd(f, p) = q
        /\ Payload(f, p) = b
    BY <1>p, RecordBytes
  <1>2. p \in 1 .. Len(f) + 1 /\ ~(p > Len(f))
    BY <1>0, <1>1
  <1>3. ~(PayloadAt(p) > Len(f) + 1)
    BY <1>0, <1>1, <1>p DEF PayloadAt, HeaderLen
  <1>4. ~(PayloadLen(f, p) = 0)
    BY <1>1
  <1>5. ~(RecordEnd(f, p) > Len(f) + 1)
    <2>1. RecordEnd(f, p) \in Nat
      BY <1>2, <1>3, HeaderFacts
    <2> QED BY <1>0, <1>1, <1>p, <2>1
  <1>6. R[p] = Round(f, sh, p, R)
    BY <1>2, ReaderDef
  <1> HIDE DEF R
  <1> DEFINE e == RecordEnd(f, p)
  <1>7. CASE R[e].ok
    <2>0. Round(f, sh, p, R) = Read(<<Payload(f, p)>> \o R[e].recs)
      BY ONLY <1>2, <1>3, <1>4, <1>5, <1>7, Zenon DEF Round
    <2>1. R[p] = Read(<<Payload(f, p)>> \o R[e].recs)
      BY ONLY <1>6, <2>0, Zenon
    <2> QED BY <1>1, <1>7, <2>1 DEF R
  <1>8. CASE ~R[e].ok
    <2>0. Round(f, sh, p, R) = ReadError
      BY ONLY <1>2, <1>3, <1>4, <1>5, <1>8, Zenon DEF Round
    <2>1. R[p] = ReadError
      BY ONLY <1>6, <2>0, Zenon
    <2> QED BY <1>1, <1>8, <2>1 DEF R
  <1> QED BY <1>7, <1>8

-----------------------------------------------------------------------------
(* Types *)

LEMMA PusherFacts ==
    Starter \in Pushers /\ \A s \in Senders : s \in Pushers /\ s # Starter
  BY ActorAssumption DEF Pushers, ActorAssumption

LEMMA RecoveredType ==
    ASSUME file \in Seq(Byte)
    PROVE  Recovered \in Seq(Seq(Byte))
  <1>1. Read(<<>>) \in Result
    BY DEF Read, Result
  <1>2. 1 \in 1 .. Len(file) + 1
    OBVIOUS
  <1>3. Reader(file, Read(<<>>))[1] \in Result
    BY <1>1, <1>2, ReaderType
  <1> QED BY <1>3 DEF Recovered, Replay, Result

LEMMA PutUint32Type ==
    \A n \in Nat : PutUint32(n) \in Seq(Byte) /\ Len(PutUint32(n)) = 4
  BY DEF PutUint32, Byte

LEMMA BytesType ==
    ASSUME NEW m \in Messages
    PROVE  Bytes(m) \in Seq(Byte)
  <1> DEFINE b == Marshal[m]
  <1>1. b \in Seq(Byte)
    BY ActorAssumption DEF ActorAssumption
  <1> HIDE DEF b
  <1>2. CASE b = <<>>
    BY <1>2 DEF Bytes, Record, b
  <1>3. CASE b # <<>>
    <2> DEFINE c == PutUint32(Len(b))
    <2>2. c \in Seq(Byte)
      BY <1>1, PutUint32Type
    <2> HIDE DEF c
    <2>3. c \o b \in Seq(Byte)
      BY ONLY <1>1, <2>2
    <2>4. Bytes(m) = c \o b
      BY <1>3 DEF Bytes, Record, b, c
    <2> QED BY <2>3, <2>4
  <1> QED BY <1>2, <1>3

LEMMA TypeInit == Init => TypeOK
  <1> SUFFICES ASSUME Init PROVE TypeOK
    OBVIOUS
  <1>1. /\ file \in Seq(Byte) /\ todo \in Seq(Seq(Byte)) /\ mb \in Seq(Messages)
        /\ disk \in Seq(Writes) /\ Len(mb) = 0
    BY DEF Init
  <1>2. /\ pc \in [Pushers -> {"idle", "check", "persist", "enqueue"}]
        /\ msg \in [Pushers -> Messages \cup {NoMessage}]
        /\ \A p \in Pushers : pc[p] # "idle" <=> msg[p] \in Messages
    BY ActorAssumption DEF Init, ActorAssumption
  <1>3. count \in [Messages -> Nat]
    BY DEF Init
  <1>4. /\ runs \in 0 .. MaxRuns /\ Len(mb) <= Capacity
    BY <1>1, ActorAssumption DEF Init, ActorAssumption
  <1>5. /\ wal \in {"none", "open", "closed"}
        /\ start \in {"none", "new", "replay", "started"}
        /\ notify \in {0, 1} /\ closed \in BOOLEAN
        /\ loop \in {"off", "pop", "wait", "panic", "close", "self", "done"}
        /\ stop \in {"idle", "select", "close", "join", "finished"}
        /\ policy \in UsedPolicies
        /\ told \subseteq Messages /\ early \subseteq told
        /\ owed \subseteq Messages /\ lost \subseteq Messages
        /\ damaged \in BOOLEAN
    BY DEF Init
  <1> QED BY <1>1, <1>2, <1>3, <1>4, <1>5 DEF TypeOK

LEMMA FreshType ==
    ASSUME TypeOK, NEW s \in {"none", "new"}, NEW w \in {"open", "none"},
           Fresh(s, w), runs' \in 0 .. MaxRuns
    PROVE  TypeOK'
  <1>1. /\ file' \in Seq(Byte) /\ todo' \in Seq(Seq(Byte)) /\ mb' \in Seq(Messages)
        /\ disk' \in Seq(Writes) /\ Len(mb') = 0
    BY DEF Fresh, TypeOK
  <1>2. /\ pc' \in [Pushers -> {"idle", "check", "persist", "enqueue"}]
        /\ msg' \in [Pushers -> Messages \cup {NoMessage}]
        /\ \A p \in Pushers : pc'[p] # "idle" <=> msg'[p] \in Messages
    BY ActorAssumption DEF Fresh, ActorAssumption
  <1>3. count' \in [Messages -> Nat]
    BY DEF Fresh
  <1>4. /\ start' \in {"none", "new", "replay", "started"}
        /\ wal' \in {"none", "open", "closed"}
        /\ notify' \in {0, 1} /\ closed' \in BOOLEAN
        /\ loop' \in {"off", "pop", "wait", "panic", "close", "self", "done"}
        /\ stop' \in {"idle", "select", "close", "join", "finished"}
        /\ policy' \in UsedPolicies
        /\ told' \subseteq Messages /\ early' \subseteq told'
        /\ owed' \subseteq Messages /\ lost' \subseteq Messages
        /\ damaged' \in BOOLEAN
    BY DEF Fresh, TypeOK
  <1>5. Len(mb') <= Capacity
    BY <1>1, ActorAssumption DEF ActorAssumption
  <1> QED BY <1>1, <1>2, <1>3, <1>4, <1>5 DEF TypeOK

LEMMA DieType == TypeOK /\ Die => TypeOK'
  BY FreshType DEF Die, TypeOK

\* The end of a Push, and a step inside one.
LEMMA ReturnType ==
    ASSUME TypeOK, NEW p \in Pushers, Return(p)
    PROVE  /\ pc' \in [Pushers -> {"idle", "check", "persist", "enqueue"}]
           /\ msg' \in [Pushers -> Messages \cup {NoMessage}]
           /\ \A q \in Pushers : pc'[q] # "idle" <=> msg'[q] \in Messages
  BY ActorAssumption DEF TypeOK, Return, Goto, ActorAssumption

LEMMA GotoType ==
    ASSUME TypeOK, NEW p \in Pushers, pc[p] # "idle",
           NEW l \in {"check", "persist", "enqueue"}, Goto(p, l), msg' = msg
    PROVE  /\ pc' \in [Pushers -> {"idle", "check", "persist", "enqueue"}]
           /\ msg' \in [Pushers -> Messages \cup {NoMessage}]
           /\ \A q \in Pushers : pc'[q] # "idle" <=> msg'[q] \in Messages
  BY DEF TypeOK, Goto

LEMMA BeginType ==
    ASSUME TypeOK, NEW p \in Pushers, NEW m \in Messages,
           msg' = [msg EXCEPT ![p] = m], Goto(p, "check")
    PROVE  /\ pc' \in [Pushers -> {"idle", "check", "persist", "enqueue"}]
           /\ msg' \in [Pushers -> Messages \cup {NoMessage}]
           /\ \A q \in Pushers : pc'[q] # "idle" <=> msg'[q] \in Messages
  BY DEF TypeOK, Goto

LEMMA WriteType ==
    ASSUME TypeOK, NEW m \in Messages, NEW k \in 0 .. Len(Bytes(m)), Write(m, k)
    PROVE  /\ file' \in Seq(Byte)
           /\ disk' \in Seq(Writes)
  <1>1. SubSeq(Bytes(m), 1, k) \in Seq(Byte)
    BY BytesType
  <1>2. [msg |-> m, at |-> Len(file), len |-> k] \in Writes
    BY BytesType DEF TypeOK, Writes
  <1> DEFINE b == SubSeq(Bytes(m), 1, k)
             w == [msg |-> m, at |-> Len(file), len |-> k]
  <1>3. b \in Seq(Byte) /\ w \in Writes
    BY <1>1, <1>2
  <1>4. file' = file \o b /\ disk' = Append(disk, w)
    BY DEF Write
  <1> HIDE DEF b, w
  <1> QED BY <1>3, <1>4 DEF TypeOK

LEMMA AppendRecordType ==
    ASSUME TypeOK, NEW m \in Messages, AppendRecord(m)
    PROVE  /\ file' \in Seq(Byte)
           /\ disk' \in Seq(Writes)
  <1>0. Len(Bytes(m)) \in Nat
    BY BytesType
  <1>1. CASE Write(m, Len(Bytes(m)))
    <2>1. Len(Bytes(m)) \in 0 .. Len(Bytes(m))
      BY <1>0
    <2> QED BY <1>1, <2>1, WriteType
  <1>2. ASSUME NEW k \in Cuts \cap 1 .. Len(Bytes(m)) - 1, Write(m, k)
        PROVE  /\ file' \in Seq(Byte)
               /\ disk' \in Seq(Writes)
    <2>1. k \in 0 .. Len(Bytes(m))
      BY <1>0
    <2> QED BY <1>2, <2>1, WriteType
  <1>3. CASE UNCHANGED <<file, disk>>
    BY <1>3 DEF TypeOK
  <1> QED BY <1>1, <1>2, <1>3 DEF AppendRecord

LEMMA PushCheckType ==
    ASSUME TypeOK, NEW p \in Pushers, PushCheck(p)
    PROVE  TypeOK'
  <1>0. pc[p] # "idle" /\ msg[p] \in Messages
    BY DEF PushCheck, TypeOK
  <1>1. CASE closed /\ Refused(p)
    <2>1. lost' \subseteq Messages
      BY <1>0, <1>1 DEF Refused, TypeOK
    <2>2. Return(p)
      BY <1>1 DEF Refused
    <2> QED BY <2>1, <2>2, ReturnType DEF PushCheck, TypeOK
  <1>2. CASE ~closed /\ Goto(p, IF Persists(p) THEN "persist" ELSE "enqueue")
             /\ UNCHANGED <<msg, lost>>
    <2>1. PICK l \in {"check", "persist", "enqueue"} : Goto(p, l)
      BY <1>2
    <2> QED BY <1>0, <1>2, <2>1, GotoType DEF PushCheck, TypeOK
  <1> QED BY <1>1, <1>2 DEF PushCheck

LEMMA PushPersistType ==
    ASSUME TypeOK, NEW p \in Pushers, PushPersist(p)
    PROVE  TypeOK'
  <1>0. pc[p] # "idle" /\ msg[p] \in Messages /\ AppendRecord(msg[p])
    BY DEF PushPersist, TypeOK
  <1>1. /\ file' \in Seq(Byte)
        /\ disk' \in Seq(Writes)
    BY <1>0, AppendRecordType
  <1>2. Goto(p, "enqueue") /\ msg' = msg
    BY DEF PushPersist
  <1>3. /\ pc' \in [Pushers -> {"idle", "check", "persist", "enqueue"}]
        /\ msg' \in [Pushers -> Messages \cup {NoMessage}]
        /\ \A q \in Pushers : pc'[q] # "idle" <=> msg'[q] \in Messages
    BY <1>0, <1>2, GotoType
  <1> QED BY <1>1, <1>3 DEF PushPersist, TypeOK

LEMMA PushEnqueueType ==
    ASSUME TypeOK, NEW p \in Pushers, PushEnqueue(p)
    PROVE  TypeOK'
  <1>0. pc[p] # "idle" /\ msg[p] \in Messages
    BY DEF PushEnqueue, Enqueue, TypeOK
  <1>1. CASE Return(p) /\ Len(mb) < Capacity /\ mb' = Append(mb, msg[p])
             /\ notify' = 1 /\ owed' = owed \cup {msg[p]} /\ lost' = lost
    <2>1. mb' \in Seq(Messages) /\ Len(mb') <= Capacity
      BY <1>0, <1>1, ActorAssumption DEF TypeOK, ActorAssumption
    <2>2. owed' \subseteq Messages /\ lost' \subseteq Messages
      BY <1>0, <1>1 DEF TypeOK
    <2>3. Return(p) /\ notify' \in {0, 1}
      BY <1>1
    <2> QED BY <2>1, <2>2, <2>3, ReturnType DEF PushEnqueue, Enqueue, TypeOK
  <1>2. CASE Refused(p) /\ UNCHANGED <<mb, notify, owed>>
    <2>1. lost' \subseteq Messages
      BY <1>0, <1>2 DEF Refused, TypeOK
    <2>2. Return(p)
      BY <1>2 DEF Refused
    <2> QED BY <1>2, <2>1, <2>2, ReturnType DEF PushEnqueue, Enqueue, TypeOK
  <1> QED BY <1>1, <1>2 DEF PushEnqueue, Enqueue

LEMMA PushStepType ==
    ASSUME TypeOK, NEW p \in Pushers, PushStep(p)
    PROVE  TypeOK'
  BY PushCheckType, PushPersistType, PushEnqueueType DEF PushStep

LEMMA LoggedType ==
    ASSUME TypeOK
    PROVE  Logged \subseteq Messages
  <1>1. \A i \in DOMAIN disk : disk[i] \in Writes
    BY DEF TypeOK
  <1>2. \A i \in DOMAIN disk : disk[i].msg \in Messages
    BY <1>1 DEF Writes
  <1> QED BY <1>2, Zenon DEF Logged

LEMMA StartReplayType ==
    ASSUME TypeOK, StartReplay
    PROVE  TypeOK'
  <1>1. todo' \in Seq(Seq(Byte))
    BY RecoveredType DEF StartReplay, ReplayLog, TypeOK
  <1>2. owed' \subseteq Messages /\ lost' \subseteq Messages
    BY LoggedType DEF StartReplay, ReplayLog, TypeOK
  <1>3. damaged' \in BOOLEAN
    BY DEF StartReplay, ReplayLog
  <1> QED BY <1>1, <1>2, <1>3 DEF StartReplay, ReplayLog, TypeOK

LEMMA UnmarshalType ==
    ASSUME NEW b, Decodable(b)
    PROVE  Unmarshal(b) \in Messages /\ Marshal[Unmarshal(b)] = b
  BY DEF Decodable, Unmarshal

LEMMA StartPushType ==
    ASSUME TypeOK, StartPush
    PROVE  TypeOK'
  <1>1. todo' \in Seq(Seq(Byte))
    <2>1. todo \in Seq(Seq(Byte)) /\ todo # <<>> /\ todo' = Tail(todo)
      BY DEF StartPush, TypeOK
    <2> QED BY ONLY <2>1
  <1>2. /\ pc' \in [Pushers -> {"idle", "check", "persist", "enqueue"}]
        /\ msg' \in [Pushers -> Messages \cup {NoMessage}]
        /\ \A q \in Pushers : pc'[q] # "idle" <=> msg'[q] \in Messages
    <2>1. CASE Decodable(Head(todo))
      BY <2>1, UnmarshalType, BeginType, PusherFacts DEF StartPush
    <2>2. CASE ~Decodable(Head(todo))
      BY <2>2 DEF StartPush, TypeOK
    <2> QED BY <2>1, <2>2
  <1> QED BY <1>1, <1>2 DEF StartPush, TypeOK

LEMMA HandleType ==
    ASSUME TypeOK, NEW outcome \in {"pop", "panic", "self"}, Handle(outcome)
    PROVE  TypeOK'
  <1>1. mb \in Seq(Messages) /\ mb # <<>> /\ mb' = Tail(mb) /\ Len(mb) <= Capacity
    BY DEF Handle, TypeOK
  <1>2. mb' \in Seq(Messages) /\ Len(mb') <= Capacity /\ Head(mb) \in Messages
    BY ONLY <1>1, ActorAssumption DEF ActorAssumption
  <1>3. count' \in [Messages -> Nat]
    BY <1>2, SMTT(40) DEF Handle, TypeOK
  <1>4. owed' \subseteq Messages
        /\ loop' \in {"off", "pop", "wait", "panic", "close", "self", "done"}
    BY DEF Handle, TypeOK
  <1> QED BY <1>2, <1>3, <1>4, SMTT(40) DEF Handle, TypeOK

\* The steps that leave the mailbox, the log and the senders alone.
LEMMA ControlType ==
    ASSUME TypeOK, \/ StartRun \/ PopNothing \/ Wait \/ RecoverSelect
                   \/ StopCall \/ StopSelect \/ StopJoin
    PROVE  TypeOK'
  <1>1. CASE StartRun
    BY <1>1 DEF StartRun, TypeOK
  <1>2. CASE PopNothing
    BY <1>2 DEF PopNothing, TypeOK
  <1>3. CASE Wait
    BY <1>3 DEF Wait, WaitUntil, TypeOK
  <1>4. CASE RecoverSelect
    BY <1>4 DEF RecoverSelect, BeginStop, TypeOK
  <1>5. CASE StopCall
    BY <1>5 DEF StopCall, BeginStop, StopUnchanged, TypeOK
  <1>6. CASE StopSelect
    BY <1>6 DEF StopSelect, StopUnchanged, TypeOK
  <1>7. CASE StopJoin
    BY <1>7 DEF StopJoin, StopUnchanged, TypeOK
  <1> QED BY <1>1, <1>2, <1>3, <1>4, <1>5, <1>6, <1>7

LEMMA CloseType ==
    ASSUME TypeOK, RecoverClose \/ StopClose
    PROVE  TypeOK'
  <1>1. CASE Die
    BY <1>1, DieType
  <1>2. CASE RecoverClose /\ ~Die
    BY <1>2 DEF RecoverClose, BeginStop, TypeOK
  <1>3. CASE StopClose /\ ~Die
    BY <1>3, ZenonT(60) DEF StopClose, StopUnchanged, TypeOK
  <1> QED BY <1>1, <1>2, <1>3

LEMMA TellType ==
    ASSUME TypeOK, NEW s \in Senders, NEW m \in Messages, Tell(s, m)
    PROVE  TypeOK'
  <1>1. /\ pc' \in [Pushers -> {"idle", "check", "persist", "enqueue"}]
        /\ msg' \in [Pushers -> Messages \cup {NoMessage}]
        /\ \A q \in Pushers : pc'[q] # "idle" <=> msg'[q] \in Messages
    BY BeginType, PusherFacts DEF Tell
  <1>2. told' \subseteq Messages /\ early' \subseteq told'
    BY DEF Tell, TypeOK
  <1> QED BY <1>1, <1>2 DEF Tell, TypeOK

LEMMA NewType ==
    ASSUME TypeOK, NEW w \in {"open", "none"}, New(w)
    PROVE  TypeOK'
  <1>1. runs' \in 0 .. MaxRuns
    BY ActorAssumption DEF New, TypeOK, ActorAssumption
  <1> QED BY <1>1, FreshType DEF New

LEMMA TypeNext == TypeOK /\ [Next]_vars => TypeOK'
  <1> SUFFICES ASSUME TypeOK, [Next]_vars PROVE TypeOK'
    OBVIOUS
  <1>1. ASSUME NEW w \in {"open", "none"}, New(w) PROVE TypeOK'
    BY <1>1, NewType
  <1>2. CASE Crash
    BY <1>2, DieType DEF Crash
  <1>3. ASSUME NEW s \in Senders, PushStep(s) PROVE TypeOK'
    BY <1>3, PushStepType, PusherFacts
  <1>4. ASSUME NEW s \in Senders, NEW m \in Messages, Tell(s, m) PROVE TypeOK'
    BY <1>4, TellType
  <1>5. CASE StartReplay
    BY <1>5, StartReplayType
  <1>6. CASE StartStep
    BY <1>6, StartPushType, ControlType, PushStepType, PusherFacts DEF StartStep
  <1>7. CASE RunStep
    BY <1>7, HandleType, ControlType, CloseType DEF RunStep
  <1>8. CASE StopCall \/ StopStep
    BY <1>8, ControlType, CloseType DEF StopStep
  <1>9. CASE UNCHANGED vars
    BY <1>9 DEF vars, TypeOK
  <1> QED BY <1>1, <1>2, <1>3, <1>4, <1>5, <1>6, <1>7, <1>8, <1>9 DEF Next

(***************************************************************************)
(* Types.  In particular the mailbox never holds more than its capacity,   *)
(* the replay of a longer log by Start included, and what Replay returns   *)
(* is a sequence of byte strings whatever the file holds.                  *)
(***************************************************************************)
THEOREM ActorTypes == Spec => []TypeOK
  BY TypeInit, TypeNext, PTL DEF Spec

-----------------------------------------------------------------------------
(* The file is the writes, one after the other *)

\* Where the i-th write begins, counted from 0.
Pos(i) == IF i = Len(disk) + 1 THEN Len(file) ELSE disk[i].at

WriteInPlace(i) ==
    LET w == disk[i] IN
    /\ Marshal[w.msg] # <<>>
    /\ w.len \in 1 .. Len(Bytes(w.msg))
    /\ Pos(i + 1) = w.at + w.len
    /\ w.at + w.len <= Len(file)
    /\ \A j \in 1 .. w.len : file[w.at + j] = Bytes(w.msg)[j]

FileInv ==
    /\ Pos(1) = 0
    /\ \A i \in DOMAIN disk : WriteInPlace(i)

\* What Push hands to the log encodes to something, and Start logs nothing.
PersistInv ==
    \A p \in Pushers : pc[p] = "persist" => p # Starter /\ Marshal[msg[p]] # <<>>

LEMMA WriteTypes ==
    ASSUME TypeOK, NEW i \in DOMAIN disk
    PROVE  /\ disk[i].msg \in Messages
           /\ disk[i].at \in Nat /\ disk[i].len \in Nat
  <1>1. disk[i] \in Writes
    BY DEF TypeOK
  <1> QED BY <1>1 DEF Writes

LEMMA WriteFile ==
    ASSUME TypeOK, FileInv, NEW m \in Messages, Marshal[m] # <<>>,
           NEW k \in 1 .. Len(Bytes(m)), Write(m, k)
    PROVE  FileInv'
  <1>0. PICK n \in Nat : n = Len(disk)
    BY DEF TypeOK
  <1> DEFINE L == Len(file)
             b == Bytes(m)
             w == [msg |-> m, at |-> L, len |-> k]
  <1>1. /\ L \in Nat /\ b \in Seq(Byte) /\ k \in Nat /\ k <= Len(b) /\ k >= 1
        /\ Len(disk) = n /\ DOMAIN disk = 1 .. n
    BY <1>0, BytesType DEF TypeOK
  <1>2. /\ Len(disk') = n + 1 /\ DOMAIN disk' = 1 .. n + 1 /\ disk'[n + 1] = w
        /\ \A i \in 1 .. n : disk'[i] = disk[i]
    <2> HIDE DEF w
    <2>1. disk' = Append(disk, w)
      BY DEF Write, w
    <2> QED BY <1>0, <2>1 DEF TypeOK
  <1>3. /\ Len(file') = L + k
        /\ \A j \in 1 .. L : file'[j] = file[j]
        /\ \A j \in 1 .. k : file'[L + j] = b[j]
    <2> DEFINE c == SubSeq(b, 1, k)
    <2>1. c \in Seq(Byte) /\ Len(c) = k /\ \A j \in 1 .. k : c[j] = b[j]
      <3> HIDE DEF b
      <3> QED BY <1>1
    <2>2. file' = file \o c
      BY DEF Write
    <2> HIDE DEF c, b
    <2>3. file \in Seq(Byte)
      BY DEF TypeOK
    <2>4. \A s, t \in Seq(Byte) :
              /\ Len(s \o t) = Len(s) + Len(t)
              /\ \A j \in 1 .. Len(s) : (s \o t)[j] = s[j]
              /\ \A j \in 1 .. Len(t) : (s \o t)[Len(s) + j] = t[j]
      BY ONLY Concat
    <2>5. /\ Len(file') = Len(file) + Len(c)
          /\ \A j \in 1 .. Len(file) : file'[j] = file[j]
          /\ \A j \in 1 .. Len(c) : file'[Len(file) + j] = c[j]
      BY ONLY <2>1, <2>2, <2>3, <2>4, Zenon
    <2> QED BY <2>1, <2>5
  <1> HIDE DEF b
  <1>4. \A i \in 1 .. n + 1 : Pos(i)' = Pos(i)
    <2>1. \A i \in 1 .. n : Pos(i)' = Pos(i)
      BY <1>1, <1>2 DEF Pos
    <2>2. Pos(n + 1)' = L /\ Pos(n + 1) = L
      BY <1>1, <1>2 DEF Pos
    <2> QED BY <1>1, <2>1, <2>2
  <1>5. Pos(n + 2)' = L + k
    BY <1>1, <1>2, <1>3 DEF Pos
  <1>6. ASSUME NEW i \in 1 .. n PROVE WriteInPlace(i)'
    <2>1. WriteInPlace(i)
      BY <1>1 DEF FileInv
    <2>2. Pos(i + 1)' = Pos(i + 1) /\ disk'[i] = disk[i]
      BY <1>1, <1>2, <1>4
    <2>3. disk[i].at \in Nat /\ disk[i].len \in Nat
      BY <1>1, WriteTypes
    <2>4. disk[i].at + disk[i].len <= L
      BY <2>1 DEF WriteInPlace
    <2>5. ASSUME NEW j \in 1 .. disk[i].len
          PROVE  file'[disk[i].at + j] = Bytes(disk[i].msg)[j]
      <3>1. disk[i].at + j \in 1 .. L
        BY ONLY <1>1, <2>3, <2>4, <2>5, SMTT(40)
      <3> QED BY <1>3, <2>1, <3>1 DEF WriteInPlace
    <2>6. disk[i].at + disk[i].len <= Len(file')
      BY <1>1, <1>3, <2>3, <2>4
    <2> QED BY <2>1, <2>2, <2>5, <2>6 DEF WriteInPlace, Bytes
  <1>7. WriteInPlace(n + 1)'
    <2>1. disk'[n + 1].msg = m /\ disk'[n + 1].at = L /\ disk'[n + 1].len = k
      BY <1>2
    <2>0. k \in 1 .. Len(b)
      BY DEF b
    <2>2. Pos((n + 1) + 1)' = L + k
      <3>1. (n + 1) + 1 = n + 2
        BY <1>1
      <3> QED BY <1>5, <3>1
    <2>3. L + k <= Len(file')
      BY <1>1, <1>3
    <2> QED BY <1>3, <2>0, <2>1, <2>2, <2>3 DEF WriteInPlace, b, Bytes
  <1>8. Pos(1)' = 0
    BY <1>1, <1>4 DEF FileInv
  <1>9. \A i \in DOMAIN disk' : i \in 1 .. n \/ i = n + 1
    BY <1>1, <1>2
  <1> QED BY <1>6, <1>7, <1>8, <1>9 DEF FileInv

LEMMA FileSame ==
    ASSUME FileInv, UNCHANGED <<file, disk>>
    PROVE  FileInv'
  BY DEF FileInv, WriteInPlace, Pos, Bytes

LEMMA AppendFile ==
    ASSUME TypeOK, FileInv, NEW m \in Messages, Marshal[m] # <<>>, AppendRecord(m)
    PROVE  FileInv'
  <1>0. Len(Bytes(m)) \in Nat /\ Len(Bytes(m)) >= 1
    <2>1. Marshal[m] \in Seq(Byte)
      BY ActorAssumption DEF ActorAssumption
    <2>2. /\ PutUint32(Len(Marshal[m])) \in Seq(Byte)
          /\ Len(PutUint32(Len(Marshal[m]))) = 4
      BY <2>1, PutUint32Type
    <2>3. Bytes(m) = PutUint32(Len(Marshal[m])) \o Marshal[m]
      BY DEF Bytes, Record
    <2> DEFINE b == Marshal[m]
               c == PutUint32(Len(b))
    <2>4. b \in Seq(Byte) /\ c \in Seq(Byte) /\ Len(c) = 4
      BY <2>1, <2>2
    <2> HIDE DEF b, c
    <2>5. Len(c \o b) \in Nat /\ Len(c \o b) >= 1
      <3>1. \A s, t \in Seq(Byte) : Len(s \o t) = Len(s) + Len(t)
        BY ONLY Concat
      <3>2. Len(c \o b) = Len(c) + Len(b)
        BY ONLY <2>4, <3>1, Zenon
      <3>3. Len(b) \in Nat
        BY ONLY <2>4
      <3> QED BY ONLY <2>4, <3>2, <3>3
    <2> QED BY <2>3, <2>5 DEF b, c
  <1>1. CASE Write(m, Len(Bytes(m)))
    <2>1. Len(Bytes(m)) \in 1 .. Len(Bytes(m))
      BY <1>0
    <2> QED BY <1>1, <2>1, WriteFile
  <1>2. ASSUME NEW k \in Cuts \cap 1 .. Len(Bytes(m)) - 1, Write(m, k)
        PROVE  FileInv'
    <2>1. k \in 1 .. Len(Bytes(m))
      BY <1>0
    <2> QED BY <1>2, <2>1, WriteFile
  <1>3. CASE UNCHANGED <<file, disk>>
    BY <1>3, FileSame
  <1> QED BY <1>1, <1>2, <1>3 DEF AppendRecord

\* Only a sender in Push writes.
LEMMA OnlyPersistWrites ==
    ASSUME [Next]_vars, ~\E s \in Senders : PushPersist(s), PersistInv
    PROVE  UNCHANGED <<file, disk>>
  <1>1. ASSUME NEW p \in Pushers, PushStep(p) PROVE UNCHANGED <<file, disk>>
    <2>1. ~PushPersist(p)
      BY PusherFacts DEF PushPersist, PersistInv, Pushers
    <2> QED BY <1>1, <2>1 DEF PushStep, PushCheck, PushEnqueue, Enqueue
  <1>2. CASE StartStep
    BY <1>1, <1>2, PusherFacts DEF StartStep, StartPush, StartRun
  <1>3. CASE RunStep
    BY <1>3 DEF RunStep, Handle, PopNothing, Wait, WaitUntil, RecoverSelect,
                RecoverClose, Die, Fresh
  <1>4. CASE StopCall \/ StopStep
    BY <1>4 DEF StopStep, StopCall, StopSelect, StopClose, StopJoin,
                StopUnchanged, Die, Fresh
  <1>5. ASSUME NEW s \in Senders, PushStep(s) \/ \E m \in Messages : Tell(s, m)
        PROVE  UNCHANGED <<file, disk>>
    BY <1>1, <1>5, PusherFacts DEF Tell
  <1>6. CASE \/ \E w \in {"open", "none"} : New(w)
             \/ Crash \/ StartReplay
    BY <1>6 DEF New, Crash, Die, Fresh, StartReplay, ReplayLog
  <1>7. CASE UNCHANGED vars
    BY <1>7 DEF vars
  <1> QED BY <1>2, <1>3, <1>4, <1>5, <1>6, <1>7 DEF Next

LEMMA FileInit == Init => FileInv /\ PersistInv
  BY DEF Init, FileInv, WriteInPlace, Pos, PersistInv

LEMMA FileNext == TypeOK /\ PersistInv /\ FileInv /\ [Next]_vars => FileInv'
  <1> SUFFICES ASSUME TypeOK, PersistInv, FileInv, [Next]_vars PROVE FileInv'
    OBVIOUS
  <1>1. ASSUME NEW s \in Senders, PushPersist(s) PROVE FileInv'
    <2>1. /\ msg[s] \in Messages /\ Marshal[msg[s]] # <<>>
          /\ AppendRecord(msg[s])
      BY <1>1, PusherFacts DEF TypeOK, PersistInv, PushPersist
    <2> QED BY <2>1, AppendFile
  <1>2. CASE ~\E s \in Senders : PushPersist(s)
    BY <1>2, OnlyPersistWrites, FileSame
  <1> QED BY <1>1, <1>2

\* A push that goes to the log has checked that there is something to log.
LEMMA PersistNext == TypeOK /\ PersistInv /\ [Next]_vars => PersistInv'
  <1> SUFFICES ASSUME TypeOK, PersistInv, [Next]_vars PROVE PersistInv'
    OBVIOUS
  <1>0. pc \in [Pushers -> {"idle", "check", "persist", "enqueue"}]
        /\ msg \in [Pushers -> Messages \cup {NoMessage}]
    BY DEF TypeOK
  <1>1. ASSUME NEW p \in Pushers, PushStep(p) PROVE PersistInv'
    <2>1. CASE PushCheck(p)
      BY <1>0, <2>1 DEF PushCheck, Refused, Return, Goto, Persists, PersistInv
    <2>2. CASE PushPersist(p)
      BY <1>0, <2>2 DEF PushPersist, Goto, PersistInv
    <2>3. CASE PushEnqueue(p)
      BY <1>0, <2>3 DEF PushEnqueue, Enqueue, Refused, Return, Goto, PersistInv
    <2> QED BY <1>1, <2>1, <2>2, <2>3 DEF PushStep
  <1>2. CASE Die \/ \E w \in {"open", "none"} : New(w)
    BY <1>2 DEF Die, New, Fresh, PersistInv
  <1>3. ASSUME NEW s \in Senders, NEW m \in Messages, Tell(s, m) PROVE PersistInv'
    BY <1>0, <1>3 DEF Tell, Goto, PersistInv
  <1>4. CASE StartPush
    BY <1>0, <1>4 DEF StartPush, Goto, PersistInv
  <1>5. CASE UNCHANGED <<pc, msg>>
    BY <1>5 DEF PersistInv
  <1>6. CASE StartReplay \/ StartRun
    BY <1>5, <1>6 DEF StartReplay, ReplayLog, StartRun
  <1>7. CASE RunStep
    BY <1>2, <1>5, <1>7 DEF RunStep, Handle, PopNothing, Wait, WaitUntil,
                            RecoverSelect, RecoverClose
  <1>8. CASE StopCall \/ StopStep
    BY <1>2, <1>5, <1>8 DEF StopStep, StopCall, StopSelect, StopClose, StopJoin,
                            StopUnchanged
  <1>9. CASE UNCHANGED vars
    BY <1>5, <1>9 DEF vars
  <1> QED BY <1>1, <1>2, <1>3, <1>4, <1>6, <1>7, <1>8, <1>9, PusherFacts
          DEF Next, Crash, StartStep

-----------------------------------------------------------------------------
(* What the reader makes of the file *)

\* Every message encodes to less than 4 GiB.
SmallPayloads == \A m \in Messages : Fits(Marshal[m])

TheReader == Reader(file, Read(<<>>))

LEMMA TheReaderType ==
    ASSUME TypeOK
    PROVE  \A p \in 1 .. Len(file) + 1 : TheReader[p] \in Result
  <1>1. Read(<<>>) \in Result
    BY DEF Read, Result
  <1>2. file \in Seq(Byte)
    BY DEF TypeOK
  <1> QED BY <1>1, <1>2, ReaderType DEF TheReader

LEMMA PosType ==
    ASSUME TypeOK, FileInv, NEW i \in 1 .. Len(disk) + 1
    PROVE  Pos(i) \in 0 .. Len(file)
  <1>0. Len(file) \in Nat /\ Len(disk) \in Nat /\ DOMAIN disk = 1 .. Len(disk)
    BY DEF TypeOK
  <1>1. CASE i = Len(disk) + 1
    BY <1>0, <1>1 DEF Pos
  <1>2. CASE i # Len(disk) + 1
    <2>1. i \in DOMAIN disk /\ Pos(i) = disk[i].at
      BY <1>0, <1>2 DEF Pos
    <2>2. disk[i].at \in Nat /\ disk[i].len \in Nat
      BY <2>1, WriteTypes
    <2>3. disk[i].at + disk[i].len <= Len(file)
      BY <2>1 DEF FileInv, WriteInPlace
    <2> QED BY <1>0, <2>1, <2>2, <2>3
  <1> QED BY <1>1, <1>2

\* A whole write is read as its payload and what follows it.
LEMMA WholeWrite ==
    ASSUME TypeOK, FileInv, SmallPayloads, NEW i \in DOMAIN disk, ~IsTorn(disk[i])
    PROVE  LET r == TheReader[Pos(i + 1) + 1]
           IN  TheReader[Pos(i) + 1] =
                 IF r.ok THEN Read(<<Marshal[disk[i].msg]>> \o r.recs) ELSE ReadError
  <1> DEFINE b == Marshal[disk[i].msg]
             p == Pos(i) + 1
             q == Pos(i + 1) + 1
  <1>1. /\ disk[i].msg \in Messages /\ disk[i].at \in Nat /\ disk[i].len \in Nat
        /\ Len(file) \in Nat /\ Len(disk) \in Nat /\ DOMAIN disk = 1 .. Len(disk)
    BY WriteTypes DEF TypeOK
  <1>2. b \in Seq(Byte) /\ Fits(b)
    <2>1. b \in Seq(Byte)
      BY <1>1, ActorAssumption DEF ActorAssumption
    <2>2. Fits(b)
      BY <1>1 DEF SmallPayloads
    <2> QED BY <2>1, <2>2
  <1>3. /\ b # <<>> /\ disk[i].len = Len(Record(b))
        /\ Pos(i + 1) = disk[i].at + disk[i].len
        /\ disk[i].at + disk[i].len <= Len(file)
        /\ \A j \in 1 .. disk[i].len : file[disk[i].at + j] = Record(b)[j]
    BY DEF FileInv, WriteInPlace, IsTorn, Bytes
  <1>4. Pos(i) = disk[i].at
    BY <1>1 DEF Pos
  <1> HIDE DEF b
  <1>5. /\ p \in Nat \ {0} /\ p + Len(Record(b)) <= Len(file) + 1
        /\ q = p + Len(Record(b))
    <2>1. /\ disk[i].at \in Nat /\ disk[i].len \in Nat /\ Len(file) \in Nat
          /\ disk[i].len = Len(Record(b)) /\ Pos(i) = disk[i].at
          /\ Pos(i + 1) = disk[i].at + disk[i].len
          /\ disk[i].at + disk[i].len <= Len(file)
      BY <1>1, <1>3, <1>4
    <2> QED BY ONLY <2>1
  <1>6. \A j \in 1 .. Len(Record(b)) : file[p + (j - 1)] = Record(b)[j]
    <2> SUFFICES ASSUME NEW j \in 1 .. Len(Record(b))
                 PROVE  file[p + (j - 1)] = Record(b)[j]
      OBVIOUS
    <2>1. p + (j - 1) = disk[i].at + j /\ j \in 1 .. disk[i].len
      BY <1>1, <1>3, <1>4
    <2> QED BY <1>3, <2>1
  <1>7. file \in Seq(Byte) /\ Read(<<>>) \in Result
    BY DEF TypeOK, Read, Result
  <1> HIDE DEF p, q
  <1>8. TheReader[p] = IF TheReader[q].ok
                         THEN Read(<<b>> \o TheReader[q].recs) ELSE ReadError
    <2> DEFINE sh == Read(<<>>)
    <2>1. sh \in Result /\ TheReader = Reader(file, sh)
      BY <1>7 DEF TheReader
    <2> HIDE DEF sh
    <2>2. Reader(file, sh)[p] =
            IF Reader(file, sh)[q].ok
              THEN Read(<<b>> \o Reader(file, sh)[q].recs) ELSE ReadError
      <3>1. RecordAt(file, p, b, q)
        BY <1>2, <1>3, <1>5, <1>6 DEF RecordAt
      <3> QED BY ONLY <1>7, <2>1, <3>1, ReadRecord
    <2> QED BY ONLY <2>1, <2>2
  <1> QED BY <1>8 DEF p, q, b

\* The payloads of the first i writes.
FirstPayloads(i) == [j \in 1 .. i |-> Marshal[disk[j].msg]]

LEMMA FirstPayloadsType ==
    ASSUME TypeOK, NEW i \in 0 .. Len(disk)
    PROVE  FirstPayloads(i) \in Seq(Seq(Byte)) /\ Len(FirstPayloads(i)) = i
  <1>1. DOMAIN disk = 1 .. Len(disk) /\ Len(disk) \in Nat
    BY DEF TypeOK
  <1>2. \A j \in 1 .. i : Marshal[disk[j].msg] \in Seq(Byte)
    BY <1>1, WriteTypes, ActorAssumption DEF ActorAssumption
  <1> QED BY <1>2 DEF FirstPayloads

LEMMA NextPayload ==
    ASSUME TypeOK, NEW i \in 0 .. Len(disk), i + 1 \in DOMAIN disk,
           NEW s \in Seq(Seq(Byte))
    PROVE  FirstPayloads(i) \o (<<Marshal[disk[i + 1].msg]>> \o s) =
             FirstPayloads(i + 1) \o s
  <1> DEFINE b == Marshal[disk[i + 1].msg]
             t == FirstPayloads(i)
             u == FirstPayloads(i + 1)
  <1>0. Len(disk) \in Nat /\ DOMAIN disk = 1 .. Len(disk) /\ i + 1 \in 0 .. Len(disk)
    BY DEF TypeOK
  <1>1. t \in Seq(Seq(Byte)) /\ Len(t) = i /\ u \in Seq(Seq(Byte)) /\ Len(u) = i + 1
    BY <1>0, FirstPayloadsType
  <1>2. b \in Seq(Byte)
    BY WriteTypes, ActorAssumption DEF ActorAssumption
  <1>3. \A j \in 1 .. i : u[j] = t[j]
    BY DEF FirstPayloads
  <1>4. u[i + 1] = b
    BY <1>0 DEF FirstPayloads
  <1> HIDE DEF b, t, u
  <1>5. u = t \o <<b>>
    <2> DEFINE v == <<b>>
    <2>1. v \in Seq(Seq(Byte)) /\ Len(v) = 1 /\ v[1] = b
      BY <1>2
    <2> HIDE DEF v
    <2>2. /\ t \o v \in Seq(Seq(Byte)) /\ Len(t \o v) = i + 1
          /\ \A j \in 1 .. i : (t \o v)[j] = t[j]
          /\ (t \o v)[i + 1] = b
      <3>1. \A x, y \in Seq(Seq(Byte)) :
              /\ x \o y \in Seq(Seq(Byte)) /\ Len(x \o y) = Len(x) + Len(y)
              /\ \A j \in 1 .. Len(x) : (x \o y)[j] = x[j]
              /\ \A j \in 1 .. Len(y) : (x \o y)[Len(x) + j] = y[j]
        BY ONLY Concat
      <3>2. /\ t \o v \in Seq(Seq(Byte)) /\ Len(t \o v) = Len(t) + Len(v)
            /\ \A j \in 1 .. Len(t) : (t \o v)[j] = t[j]
            /\ \A j \in 1 .. Len(v) : (t \o v)[Len(t) + j] = v[j]
        BY ONLY <1>1, <2>1, <3>1, Zenon
      <3>3. 1 \in 1 .. 1
        OBVIOUS
      <3> QED BY ONLY <1>1, <2>1, <3>2, <3>3, Zenon
    <2>3. \A j \in 1 .. i + 1 : u[j] = (t \o v)[j]
      <3> HIDE DEF u
      <3>1. \A j \in 1 .. i + 1 : j \in 1 .. i \/ j = i + 1
        BY <1>0
      <3> QED BY <1>3, <1>4, <2>2, <3>1, Zenon
    <2>4. u = t \o v
      <3> DEFINE x == t \o v
      <3>1. /\ u \in Seq(Seq(Byte)) /\ x \in Seq(Seq(Byte)) /\ Len(u) = Len(x)
            /\ \A j \in 1 .. Len(u) : u[j] = x[j]
        BY ONLY <1>1, <2>2, <2>3, Zenon
      <3> HIDE DEF x
      <3>2. u = x
        BY ONLY <3>1, SameSeq, Zenon
      <3> QED BY <3>2 DEF x
    <2> QED BY <2>4 DEF v
  <1>6. (t \o <<b>>) \o s = t \o (<<b>> \o s)
    <2> DEFINE v == <<b>>
    <2>1. v \in Seq(Seq(Byte))
      BY <1>2
    <2> HIDE DEF v
    <2>2. (t \o v) \o s = t \o (v \o s)
      <3>1. \A x, y, z \in Seq(Seq(Byte)) : (x \o y) \o z = x \o (y \o z)
        BY ONLY ConcatAssoc, SMTT(40)
      <3> QED BY ONLY <1>1, <2>1, <3>1, s \in Seq(Seq(Byte)), ZenonT(60)
    <2> QED BY <2>2 DEF v
  <1> QED BY <1>5, <1>6 DEF b, t, u

\* Up to the first torn write the records are read, in order.
LEMMA IntactPrefix ==
    ASSUME TypeOK, FileInv, SmallPayloads, NEW n \in 0 .. Len(disk),
           \A i \in 1 .. n : ~IsTorn(disk[i])
    PROVE  LET r == TheReader[Pos(n + 1) + 1]
           IN  /\ r.ok => TheReader[1] = Read(FirstPayloads(n) \o r.recs)
               /\ ~r.ok => ~TheReader[1].ok
  <1> DEFINE R(i) == TheReader[Pos(i + 1) + 1]
             Good(i) == /\ R(i).ok => TheReader[1] = Read(FirstPayloads(i) \o R(i).recs)
                        /\ ~R(i).ok => ~TheReader[1].ok
             S == {i \in Nat : i <= n => Good(i)}
  <1>0. /\ Len(disk) \in Nat /\ DOMAIN disk = 1 .. Len(disk) /\ n \in Nat
        /\ Len(file) \in Nat
    BY DEF TypeOK
  <1>r. \A i \in 0 .. n : R(i) \in Result
    <2> SUFFICES ASSUME NEW i \in 0 .. n PROVE R(i) \in Result
      OBVIOUS
    <2>1. i + 1 \in 1 .. Len(disk) + 1
      BY <1>0
    <2>2. Pos(i + 1) + 1 \in 1 .. Len(file) + 1
      BY <1>0, <2>1, PosType
    <2> QED BY <2>2, TheReaderType
  <1>1. 0 \in S
    <2>1. R(0) = TheReader[1]
      <3>1. Pos(0 + 1) + 1 = 1
        BY DEF FileInv
      <3> QED BY <3>1
    <2>2. TheReader[1] \in Result
      BY <1>0, <1>r, <2>1
    <2>3. FirstPayloads(0) = <<>>
      BY DEF FirstPayloads
    <2>4. TheReader[1].ok => TheReader[1] = Read(<<>> \o TheReader[1].recs)
      <3>1. ASSUME NEW r \in Result, r.ok PROVE r = Read(<<>> \o r.recs)
        <4>1. r.recs \in Seq(Seq(Byte)) /\ r.ok = TRUE
              /\ r = [ok |-> r.ok, recs |-> r.recs]
          BY <3>1 DEF Result
        <4>2. \A s \in Seq(Seq(Byte)) : <<>> \o s = s
          OBVIOUS
        <4>3. <<>> \o r.recs = r.recs
          BY <4>1, <4>2
        <4> QED BY <4>1, <4>3, Zenon DEF Read
      <3> QED BY <2>2, <3>1
    <2> HIDE DEF R
    <2> QED BY <2>1, <2>3, <2>4
  <1>2. ASSUME NEW i \in S PROVE i + 1 \in S
    <2> SUFFICES ASSUME i + 1 <= n PROVE Good(i + 1)
      OBVIOUS
    <2>1. i \in 0 .. n /\ i + 1 \in DOMAIN disk /\ i \in 0 .. Len(disk) /\ i + 1 \in 1 .. n
          /\ i + 1 \in 0 .. n
      BY <1>0, <1>2
    <2>2. Good(i)
      BY <1>2, <2>1
    <2>3. R(i) = IF R(i + 1).ok
                   THEN Read(<<Marshal[disk[i + 1].msg]>> \o R(i + 1).recs) ELSE ReadError
      BY <2>1, WholeWrite
    <2>4. R(i + 1) \in Result
      BY <1>r, <2>1
    <2> HIDE DEF R
    <2>5. CASE R(i + 1).ok
      <3> DEFINE s == <<Marshal[disk[i + 1].msg]>> \o R(i + 1).recs
      <3>0. R(i) = Read(s)
        BY ONLY <2>3, <2>5, Zenon
      <3> HIDE DEF s
      <3>1. R(i).ok /\ R(i).recs = s
        BY ONLY <3>0 DEF Read
      <3> USE DEF s
      <3>2. R(i + 1).recs \in Seq(Seq(Byte))
        BY <2>4 DEF Result
      <3>3. FirstPayloads(i) \o R(i).recs = FirstPayloads(i + 1) \o R(i + 1).recs
        BY <2>1, <3>1, <3>2, NextPayload, ZenonT(60)
      <3>4. TheReader[1] = Read(FirstPayloads(i) \o R(i).recs)
        BY <2>2, <3>1
      <3>5. TheReader[1] = Read(FirstPayloads(i + 1) \o R(i + 1).recs)
        BY <3>3, <3>4
      <3> QED BY <2>5, <3>5
    <2>6. CASE ~R(i + 1).ok
      <3>1. ~R(i).ok
        BY <2>3, <2>6 DEF ReadError
      <3> QED BY <2>2, <2>6, <3>1
    <2> QED BY <2>5, <2>6
  <1>3. n \in S
    <2>1. S \in SUBSET Nat
      OBVIOUS
    <2> HIDE DEF S
    <2> QED BY <1>0, <1>1, <1>2, <2>1, Induct
  <1> QED BY <1>0, <1>3

LEMMA PayloadsOfPrefix ==
    ASSUME TypeOK, NEW n \in 0 .. Len(disk)
    PROVE  /\ Len(SubSeq(disk, 1, n)) = n
           /\ Payloads(SubSeq(disk, 1, n)) = FirstPayloads(n)
  <1> DEFINE s == SubSeq(disk, 1, n)
  <1>1. /\ disk \in Seq(Writes) /\ Len(disk) \in Nat
    BY DEF TypeOK
  <1>2. /\ s \in Seq(Writes) /\ Len(s) = n /\ DOMAIN s = 1 .. n
        /\ \A j \in 1 .. n : s[j] = disk[j]
    BY <1>1
  <1> HIDE DEF s
  <1>3. Payloads(s) = FirstPayloads(n)
    BY <1>2 DEF Payloads, FirstPayloads
  <1> QED BY <1>2, <1>3 DEF s

LEMMA PayloadsOfAll ==
    ASSUME TypeOK
    PROVE  Payloads(disk) = FirstPayloads(Len(disk))
  BY DEF TypeOK, Payloads, FirstPayloads

\* The reader at the end of the file, and at a header that the file ends in.
LEMMA ReadEnd ==
    ASSUME TypeOK, NEW p \in 1 .. Len(file) + 1, p + HeaderLen > Len(file) + 1
    PROVE  TheReader[p] = Read(<<>>)
  <1> DEFINE sh == Read(<<>>)
  <1>1. file \in Seq(Byte)
    BY DEF TypeOK
  <1>2. TheReader[p] = Round(file, sh, p, TheReader)
    BY <1>1, ReaderDef DEF TheReader
  <1>3. PayloadAt(p) > Len(file) + 1
    BY DEF PayloadAt
  <1>4. Round(file, sh, p, TheReader) = Read(<<>>)
    BY <1>3, Zenon DEF Round
  <1> QED BY <1>2, <1>4, Zenon

LEMMA TornFacts ==
    ASSUME TypeOK
    PROVE  /\ Torn \subseteq 1 .. Len(disk)
           /\ \A i \in 1 .. Len(disk) : i \notin Torn => ~IsTorn(disk[i])
  BY DEF TypeOK, Torn

LEMMA FirstTorn ==
    ASSUME TypeOK, Torn # {}, NEW first,
           first = CHOOSE i \in Torn : \A j \in Torn : i <= j
    PROVE  /\ first \in Torn /\ first \in 1 .. Len(disk)
           /\ \A j \in Torn : first <= j
           /\ \A i \in 1 .. first - 1 : ~IsTorn(disk[i])
  <1>0. Torn \in SUBSET Nat /\ Len(disk) \in Nat
    BY TornFacts DEF TypeOK
  <1>1. \E i \in Torn : \A j \in Torn : i <= j
    BY <1>0, LeastElement, Zenon
  <1>2. first \in Torn /\ \A j \in Torn : first <= j
    BY <1>1, Zenon
  <1>3. first \in 1 .. Len(disk)
    BY <1>2, TornFacts
  <1>4. ASSUME NEW i \in 1 .. first - 1 PROVE ~IsTorn(disk[i])
    <2>1. i \in 1 .. Len(disk) /\ ~(first <= i)
      BY <1>0, <1>3
    <2>2. i \notin Torn
      BY <1>2, <2>1, Zenon
    <2> QED BY <2>1, <2>2, TornFacts
  <1> QED BY <1>2, <1>3, <1>4

LEMMA IntactReplay ==
    ASSUME TypeOK, FileInv, SmallPayloads, Torn = {}
    PROVE  TheReader[1] = Read(Payloads(disk))
  <1> DEFINE n == Len(disk)
             t == FirstPayloads(n)
  <1>0. n \in Nat /\ n \in 0 .. Len(disk) /\ Len(file) \in Nat
    BY DEF TypeOK
  <1>1. \A i \in 1 .. n : ~IsTorn(disk[i])
    BY TornFacts
  <1>2. TheReader[Pos(n + 1) + 1] = Read(<<>>)
    <2>1. Pos(n + 1) = Len(file)
      BY DEF Pos
    <2>2. Len(file) + 1 \in 1 .. Len(file) + 1
          /\ (Len(file) + 1) + HeaderLen > Len(file) + 1
      BY <1>0 DEF HeaderLen
    <2> QED BY <2>1, <2>2, ReadEnd
  <1>3. Read(<<>>).ok /\ Read(<<>>).recs = <<>>
    BY DEF Read
  <1>4. TheReader[1] = Read(t \o <<>>)
    BY <1>0, <1>1, <1>2, <1>3, IntactPrefix
  <1>5. t \o <<>> = t
    <2>1. t \in Seq(Seq(Byte))
      BY <1>0, FirstPayloadsType
    <2> HIDE DEF t
    <2> QED BY ONLY <2>1
  <1> QED BY <1>4, <1>5, PayloadsOfAll

LEMMA ShortEnd ==
    \A a, k, n \in Nat :
      n = a + k /\ k < 4 => a + 1 \in 1 .. n + 1 /\ (a + 1) + 4 > n + 1
  OBVIOUS

LEMMA NotPastEnd == \A k \in Nat : k # k + 1
  OBVIOUS

LEMMA TornReplay ==
    ASSUME TypeOK, FileInv, SmallPayloads, Torn # {}, NEW first,
           first = CHOOSE i \in Torn : \A j \in Torn : i <= j,
           NEW good, good = SubSeq(disk, 1, first - 1)
    PROVE  /\ TheReader[1].ok =>
                /\ Len(TheReader[1].recs) >= Len(good)
                /\ SubSeq(TheReader[1].recs, 1, Len(good)) = Payloads(good)
           /\ Torn = {Len(disk)} /\ disk[Len(disk)].len < HeaderLen
                => TheReader[1] = Read(Payloads(good))
  <1> DEFINE n == first - 1
             r == TheReader[Pos(n + 1) + 1]
             t == FirstPayloads(n)
  <1>0. Len(disk) \in Nat /\ Len(file) \in Nat /\ DOMAIN disk = 1 .. Len(disk)
    BY DEF TypeOK
  <1>1. /\ first \in Torn /\ first \in 1 .. Len(disk)
        /\ \A i \in 1 .. n : ~IsTorn(disk[i])
    BY FirstTorn
  <1>2. n \in 0 .. Len(disk) /\ n \in Nat /\ n + 1 = first
    <2>1. first \in 1 .. Len(disk)
      BY <1>1
    <2> QED BY ONLY <1>0, <2>1
  <1>3. /\ r.ok => TheReader[1] = Read(t \o r.recs)
        /\ ~r.ok => ~TheReader[1].ok
    BY <1>1, <1>2, IntactPrefix
  <1>4. Pos(first) \in 0 .. Len(file) /\ r \in Result
    <2>1. first \in 1 .. Len(disk) + 1
      BY <1>0, <1>1
    <2>2. Pos(first) \in 0 .. Len(file)
      BY <2>1, PosType
    <2>3. Pos(first) + 1 \in 1 .. Len(file) + 1
      BY <1>0, <2>2
    <2> QED BY <1>2, <2>2, <2>3, TheReaderType
  <1>5. t \in Seq(Seq(Byte)) /\ Len(t) = n
    BY <1>2, FirstPayloadsType
  <1>6. Len(good) = n /\ Payloads(good) = t
    BY <1>2, PayloadsOfPrefix
  <1>7. ASSUME TheReader[1].ok
        PROVE  /\ Len(TheReader[1].recs) >= Len(good)
               /\ SubSeq(TheReader[1].recs, 1, Len(good)) = Payloads(good)
    <2>1. TheReader[1].recs = t \o r.recs /\ r.recs \in Seq(Seq(Byte))
      <3>1. r.ok
        BY <1>3, <1>7
      <3> DEFINE s == t \o r.recs
      <3>2. TheReader[1] = Read(s)
        BY <1>3, <3>1
      <3> HIDE DEF r, s
      <3>3. TheReader[1].recs = s
        BY ONLY <3>2 DEF Read
      <3>4. r.recs \in Seq(Seq(Byte))
        BY ONLY <1>4 DEF Result
      <3> QED BY ONLY <3>3, <3>4 DEF s
    <2> DEFINE s == r.recs
    <2> HIDE DEF s, t
    <2>2. s \in Seq(Seq(Byte)) /\ TheReader[1].recs = t \o s
      BY <2>1 DEF s
    <2>3. Len(t \o s) >= n /\ SubSeq(t \o s, 1, n) = t
      <3>1. \A x, y \in Seq(Seq(Byte)) :
              /\ x \o y \in Seq(Seq(Byte)) /\ Len(x \o y) = Len(x) + Len(y)
              /\ \A j \in 1 .. Len(x) : (x \o y)[j] = x[j]
              /\ \A j \in 1 .. Len(y) : (x \o y)[Len(x) + j] = y[j]
        BY ONLY Concat
      <3> DEFINE u == t \o s
      <3>2. /\ u \in Seq(Seq(Byte)) /\ Len(u) = Len(t) + Len(s)
            /\ \A j \in 1 .. Len(t) : u[j] = t[j]
        BY ONLY <1>5, <2>2, <3>1, Zenon
      <3> HIDE DEF u, n
      <3>3. Len(u) >= n
        BY <1>2, <1>5, <2>2, <3>2
      <3> DEFINE v == SubSeq(u, 1, n)
      <3>4. v \in Seq(Seq(Byte)) /\ Len(v) = n /\ \A j \in 1 .. n : v[j] = u[j]
        BY ONLY <1>2, <3>2, <3>3
      <3> HIDE DEF v
      <3>5. \A j \in 1 .. n : v[j] = t[j]
        BY <1>5, <3>2, <3>4
      <3>6. v = t
        BY ONLY <1>5, <3>4, <3>5
      <3> QED BY <3>3, <3>6 DEF u, v
    <2> HIDE DEF n
    <2> QED BY <1>6, <2>2, <2>3
  <1>8. ASSUME Torn = {Len(disk)}, disk[Len(disk)].len < HeaderLen
        PROVE  TheReader[1] = Read(Payloads(good))
    <2>1. first = Len(disk) /\ first \in DOMAIN disk
      BY <1>0, <1>1, <1>8
    <2>2. /\ disk[first].at \in Nat /\ disk[first].len \in Nat
          /\ Pos(first) = disk[first].at
      <3>1. disk[first].at \in Nat /\ disk[first].len \in Nat
        BY <2>1, WriteTypes
      <3>2. Len(disk) # Len(disk) + 1
        BY ONLY <1>0, NotPastEnd, Zenon
      <3> QED BY <2>1, <3>1, <3>2, Zenon DEF Pos
    <2>3. Pos(first + 1) = disk[first].at + disk[first].len
      BY <2>1 DEF FileInv, WriteInPlace
    <2>4. Pos(first + 1) = Len(file)
      BY <2>1 DEF Pos
    <2>5. /\ Pos(first) + 1 \in 1 .. Len(file) + 1
          /\ (Pos(first) + 1) + HeaderLen > Len(file) + 1
      <3>1. /\ disk[first].at \in Nat /\ disk[first].len \in Nat
            /\ Pos(first) = disk[first].at /\ disk[first].len < 4
            /\ Len(file) = disk[first].at + disk[first].len
        BY <1>8, <2>1, <2>2, <2>3, <2>4 DEF HeaderLen
      <3>2. /\ disk[first].at + 1 \in 1 .. Len(file) + 1
            /\ (disk[first].at + 1) + 4 > Len(file) + 1
        BY ONLY <1>0, <3>1, ShortEnd, Zenon
      <3> QED BY <3>1, <3>2, Zenon DEF HeaderLen
    <2>6. r = Read(<<>>)
      BY <1>2, <2>5, ReadEnd
    <2>7. Read(<<>>).ok /\ Read(<<>>).recs = <<>>
      BY DEF Read
    <2>8. TheReader[1] = Read(t \o <<>>)
      BY <1>3, <2>6, <2>7
    <2>9. t \o <<>> = t
      <3> HIDE DEF t
      <3> QED BY ONLY <1>5
    <2> QED BY <1>6, <2>8, <2>9
  <1> QED BY <1>7, <1>8

LEMMA FileSound ==
    ASSUME TypeOK, FileInv, SmallPayloads
    PROVE  ReplaySound
  <1>1. Replay(file) = TheReader[1]
    BY DEF Replay, TheReader
  <1>2. Torn = {} => Replay(file) = Read(Payloads(disk))
    BY <1>1, IntactReplay
  <1> DEFINE first == CHOOSE i \in Torn : \A j \in Torn : i <= j
             good == SubSeq(disk, 1, first - 1)
             r == Replay(file)
  <1>3. Torn # {} =>
             /\ r.ok => /\ Len(r.recs) >= Len(good)
                        /\ SubSeq(r.recs, 1, Len(good)) = Payloads(good)
             /\ Torn = {Len(disk)} /\ disk[Len(disk)].len < HeaderLen
                  => r = Read(Payloads(good))
    <2>1. PICK x : x = first
      OBVIOUS
    <2>2. PICK y : y = SubSeq(disk, 1, x - 1)
      OBVIOUS
    <2>3. Torn # {} =>
            /\ TheReader[1].ok =>
                /\ Len(TheReader[1].recs) >= Len(y)
                /\ SubSeq(TheReader[1].recs, 1, Len(y)) = Payloads(y)
            /\ Torn = {Len(disk)} /\ disk[Len(disk)].len < HeaderLen
                => TheReader[1] = Read(Payloads(y))
      BY <2>1, <2>2, TornReplay
    <2> HIDE DEF first
    <2>4. y = good
      BY <2>1, <2>2
    <2> HIDE DEF good, r
    <2> QED BY <1>1, <2>3, <2>4 DEF r
  <1> QED BY <1>2, <1>3, Zenon DEF ReplaySound

\* What ReplayIsSound rests on.
LogInv == TypeOK /\ PersistInv /\ FileInv

LEMMA LogInvariant == Spec => []LogInv
  <1>1. Init => LogInv
    BY TypeInit, FileInit DEF LogInv
  <1>2. LogInv /\ [Next]_vars => LogInv'
    BY TypeNext, PersistNext, FileNext DEF LogInv
  <1> QED BY <1>1, <1>2, PTL DEF Spec

(***************************************************************************)
(* Replay returns the records of an intact log, in the order of the        *)
(* writes; of a log with torn writes an error, or at least all records     *)
(* before the first of them; of a log that ends inside a header exactly    *)
(* those.  Payloads are below 4 GiB: of a longer one Append writes the low *)
(* 32 bits of the length.                                                  *)
(***************************************************************************)
THEOREM ReplayIsSound ==
    ASSUME SmallPayloads
    PROVE  Spec => []ReplaySound
  <1>1. LogInv => ReplaySound
    BY FileSound DEF LogInv
  <1> QED BY <1>1, LogInvariant, PTL

-----------------------------------------------------------------------------
(* Where the copies of a message are *)

\* What is sent is sent once, and logged once.
SentOnceInv ==
    /\ \A s \in Senders : msg[s] \in Messages => msg[s] \in told
    /\ \A s, t \in Senders : msg[s] \in Messages /\ msg[s] = msg[t] => s = t
    /\ \A i \in DOMAIN disk : disk[i].msg \in told
    /\ \A i, j \in DOMAIN disk : disk[i].msg = disk[j].msg => i = j
    /\ \A s \in Senders : pc[s] \in {"check", "persist"} =>
         \A i \in DOMAIN disk : disk[i].msg # msg[s]

\* All that an actor holds before Start was sent early; it handles nothing.
NewInv ==
    /\ start = "new" =>
         /\ loop = "off"
         /\ \A p \in Pushers : msg[p] \in Messages => msg[p] \in early
         /\ \A i \in DOMAIN mb : mb[i] \in early
    /\ loop = "off" => \A m \in Messages : count[m] = 0

InTodo(m) == \E i \in DOMAIN todo : todo[i] = Marshal[m]
InPush(m) == \E p \in Pushers : msg[p] = m
InBox(m) == \E i \in DOMAIN mb : mb[i] = m

\* The incarnation has at most one copy of m, handled or not.
OneCopy(m) ==
    /\ \A i, j \in DOMAIN todo : todo[i] = Marshal[m] /\ todo[j] = Marshal[m] => i = j
    /\ \A p, q \in Pushers : msg[p] = m /\ msg[q] = m => p = q
    /\ \A i, j \in DOMAIN mb : mb[i] = m /\ mb[j] = m => i = j
    /\ count[m] <= 1
    /\ InTodo(m) => ~InPush(m) /\ ~InBox(m) /\ count[m] = 0
    /\ InPush(m) => ~InBox(m) /\ count[m] = 0
    /\ InBox(m) => count[m] = 0

SentInv ==
    ~damaged => /\ \A m \in Messages : InTodo(m) \/ InPush(m) \/ InBox(m) => m \in told
                /\ \A m \in Messages : count[m] > 0 => m \in told

OneCopyInv == ~damaged => \A m \in Messages : m \in early \/ OneCopy(m)

LEMMA TailFacts ==
    ASSUME NEW T, NEW s \in Seq(T), s # <<>>
    PROVE  /\ 1 \in DOMAIN s /\ Head(s) = s[1] /\ Head(s) \in T
           /\ \A i \in DOMAIN Tail(s) : i \in Nat /\ i >= 1
                 /\ i + 1 \in DOMAIN s /\ Tail(s)[i] = s[i + 1]
  OBVIOUS

LEMMA AppendFacts ==
    ASSUME NEW T, NEW s \in Seq(T), NEW e \in T
    PROVE  /\ \A i \in DOMAIN Append(s, e) :
                 \/ i \in DOMAIN s /\ Append(s, e)[i] = s[i]
                 \/ i = Len(s) + 1 /\ Append(s, e)[i] = e
           /\ Len(s) + 1 \notin DOMAIN s
  OBVIOUS

\* The parts of the state the copies are in, with early and damaged.
LEMMA SameCopies ==
    ASSUME UNCHANGED <<todo, msg, mb, count, told, early, damaged>>
    PROVE  (SentInv => SentInv') /\ (OneCopyInv => OneCopyInv')
  BY DEF SentInv, OneCopyInv, OneCopy, InTodo, InPush, InBox

LEMMA SameSent ==
    ASSUME UNCHANGED <<pc, msg, told, disk>>, SentOnceInv
    PROVE  SentOnceInv'
  BY DEF SentOnceInv

\* An actor that is new, or gone, holds nothing.
LEMMA FreshOnce ==
    ASSUME TypeOK, SentOnceInv, NEW s, NEW w, Fresh(s, w)
    PROVE  SentOnceInv' /\ NewInv' /\ SentInv' /\ OneCopyInv'
  <1>1. NoMessage \notin Messages
    BY ActorAssumption DEF ActorAssumption
  <1>2. /\ \A p \in Pushers : pc'[p] = "idle" /\ msg'[p] = NoMessage
        /\ \A m \in Messages : count'[m] = 0
        /\ todo' = <<>> /\ mb' = <<>> /\ loop' = "off"
        /\ told' = told /\ disk' = disk
    BY DEF Fresh
  <1>3. \A t \in Senders : pc'[t] = "idle" /\ msg'[t] = NoMessage
    BY <1>2, PusherFacts
  <1>4. SentOnceInv'
    BY <1>1, <1>2, <1>3 DEF SentOnceInv
  <1>5. NewInv'
    BY <1>1, <1>2 DEF NewInv
  <1>6. ASSUME NEW m \in Messages
        PROVE  ~InTodo(m)' /\ ~InPush(m)' /\ ~InBox(m)' /\ OneCopy(m)'
    BY <1>1, <1>2, <1>6 DEF InTodo, InPush, InBox, OneCopy
  <1>7. SentInv'
    BY <1>2, <1>6 DEF SentInv
  <1>8. OneCopyInv'
    BY <1>6 DEF OneCopyInv
  <1> QED BY <1>4, <1>5, <1>7, <1>8

OnceInv == SentOnceInv /\ NewInv /\ SentInv /\ OneCopyInv

LEMMA DieOnce == TypeOK /\ OnceInv /\ Die => OnceInv'
  BY FreshOnce DEF Die, OnceInv

LEMMA ControlOnce ==
    ASSUME TypeOK, OnceInv,
           \/ StartRun \/ PopNothing \/ Wait \/ RecoverSelect
           \/ (RecoverClose /\ ~Die) \/ (StopClose /\ ~Die)
           \/ StopCall \/ StopSelect \/ StopJoin
    PROVE  OnceInv'
  <1>1. UNCHANGED <<todo, mb, pc, msg, told, early, count, disk, damaged>>
    BY DEF StartRun, PopNothing, Wait, WaitUntil, RecoverSelect, RecoverClose,
           StopClose, StopCall, StopSelect, StopJoin, StopUnchanged
  <1>2. /\ start' = "new" => start = "new" /\ loop' = loop
        /\ loop' = "off" => loop = "off"
    BY DEF StartRun, PopNothing, Wait, WaitUntil, RecoverSelect, RecoverClose,
           StopClose, StopCall, StopSelect, StopJoin, StopUnchanged,
           OnceInv, NewInv
  <1>3. NewInv'
    BY <1>1, <1>2 DEF OnceInv, NewInv
  <1> QED BY <1>1, <1>3, SameCopies, SameSent DEF OnceInv

\* Handle moves a copy from the mailbox to the count.
LEMMA HandleOnce ==
    ASSUME TypeOK, OnceInv, NEW outcome \in {"pop", "panic", "self"}, Handle(outcome)
    PROVE  OnceInv'
  <1> DEFINE h == Head(mb)
  <1>1. /\ 1 \in DOMAIN mb /\ h = mb[1] /\ h \in Messages
        /\ \A i \in DOMAIN mb' : /\ i \in Nat /\ i >= 1
                                 /\ i + 1 \in DOMAIN mb /\ mb'[i] = mb[i + 1]
    BY TailFacts DEF Handle, TypeOK
  <1>2. /\ count' = [count EXCEPT ![h] = @ + 1] /\ count \in [Messages -> Nat]
        /\ UNCHANGED <<todo, pc, msg, told, early, disk, damaged, start>>
        /\ loop = "pop" /\ loop' # "off"
    BY DEF Handle, TypeOK
  <1>3. /\ count'[h] = count[h] + 1
        /\ \A m \in Messages : m # h => count'[m] = count[m]
    BY <1>1, <1>2
  <1> HIDE DEF h
  <1>4. SentOnceInv' /\ NewInv'
    BY <1>2, SameSent DEF OnceInv, NewInv
  <1>5. \A m \in Messages : /\ InBox(m)' => InBox(m)
                            /\ InTodo(m)' <=> InTodo(m)
                            /\ InPush(m)' <=> InPush(m)
    BY <1>1, <1>2 DEF InBox, InTodo, InPush
  <1>6. InBox(h)
    BY <1>1 DEF InBox
  <1>7. SentInv'
    BY <1>2, <1>3, <1>5, <1>6 DEF OnceInv, SentInv
  <1>8. ASSUME NEW m \in Messages, OneCopy(m) PROVE OneCopy(m)'
    <2>1. CASE m = h
      <3>1. count[m] = 0 /\ ~InTodo(m) /\ ~InPush(m)
        BY <1>6, <1>8, <2>1 DEF OneCopy
      <3>2. ~InBox(m)'
        <4> SUFFICES ASSUME NEW i \in DOMAIN mb', mb'[i] = m PROVE FALSE
          BY DEF InBox
        <4>1. i \in Nat /\ i >= 1 /\ i + 1 \in DOMAIN mb /\ mb[i + 1] = m
          BY <1>1
        <4>2. i + 1 = 1
          BY <1>1, <1>8, <2>1, <4>1 DEF OneCopy
        <4> QED BY <4>1, <4>2
      <3>3. count'[m] = 1
        BY <1>3, <2>1, <3>1
      <3>4. ~InTodo(m)' /\ ~InPush(m)'
        BY <1>5, <3>1
      <3> QED BY <3>2, <3>3, <3>4 DEF OneCopy, InTodo, InPush, InBox
    <2>2. CASE m # h
      <3>1. count'[m] = count[m]
        BY <1>3, <2>2
      <3>2. ASSUME NEW i \in DOMAIN mb', NEW j \in DOMAIN mb', mb'[i] = m, mb'[j] = m
            PROVE  i = j
        <4>1. /\ i \in Nat /\ i + 1 \in DOMAIN mb /\ mb[i + 1] = m
              /\ j \in Nat /\ j + 1 \in DOMAIN mb /\ mb[j + 1] = m
          BY <1>1, <3>2
        <4>2. i + 1 = j + 1
          BY <1>8, <4>1 DEF OneCopy
        <4> QED BY <4>1, <4>2
      <3> QED BY <1>2, <1>5, <1>8, <3>1, <3>2 DEF OneCopy
    <2> QED BY <2>1, <2>2
  <1>9. OneCopyInv'
    BY <1>2, <1>8 DEF OnceInv, OneCopyInv
  <1> QED BY <1>4, <1>7, <1>9 DEF OnceInv

\* The end of a Push that queues nothing loses a copy.
LEMMA RefuseOnce ==
    ASSUME TypeOK, OnceInv, NEW p \in Pushers, Return(p),
           UNCHANGED <<todo, mb, told, early, count, disk, damaged, start, loop>>
    PROVE  OnceInv'
  <1>1. /\ msg \in [Pushers -> Messages \cup {NoMessage}]
        /\ pc \in [Pushers -> {"idle", "check", "persist", "enqueue"}]
        /\ NoMessage \notin Messages
    BY ActorAssumption DEF TypeOK, ActorAssumption
  <1>2. /\ \A q \in Pushers : q # p => msg'[q] = msg[q] /\ pc'[q] = pc[q]
        /\ msg'[p] = NoMessage /\ pc'[p] = "idle"
    BY <1>1 DEF Return, Goto
  <1>3. SentOnceInv'
    BY <1>1, <1>2, PusherFacts DEF OnceInv, SentOnceInv
  <1>4. NewInv'
    BY <1>1, <1>2 DEF OnceInv, NewInv
  <1>5. \A m \in Messages : /\ InPush(m)' => InPush(m)
                            /\ InTodo(m)' <=> InTodo(m)
                            /\ InBox(m)' <=> InBox(m)
    BY <1>1, <1>2 DEF InBox, InTodo, InPush
  <1>6. SentInv'
    BY <1>5 DEF OnceInv, SentInv
  <1>7. ASSUME NEW m \in Messages, OneCopy(m) PROVE OneCopy(m)'
    <2>1. ASSUME NEW q \in Pushers, NEW r \in Pushers, msg'[q] = m, msg'[r] = m
          PROVE  q = r
      BY <1>1, <1>2, <1>7, <2>1 DEF OneCopy
    <2> QED BY <1>5, <1>7, <2>1 DEF OneCopy
  <1>8. OneCopyInv'
    BY <1>7 DEF OnceInv, OneCopyInv
  <1> QED BY <1>3, <1>4, <1>6, <1>8 DEF OnceInv

\* A Push that goes on, in front of the log or past it.
LEMMA GotoOnce ==
    ASSUME TypeOK, OnceInv, NEW p \in Pushers, NEW l, Goto(p, l),
           l \in {"check", "persist"} => pc[p] \in {"check", "persist"},
           UNCHANGED <<todo, mb, msg, told, early, count, disk, damaged, start, loop>>
    PROVE  OnceInv'
  <1>1. \A q \in Pushers : pc'[q] = IF q = p THEN l ELSE pc[q]
    BY DEF Goto, TypeOK
  <1>2. SentOnceInv'
    BY <1>1, PusherFacts DEF OnceInv, SentOnceInv
  <1>3. NewInv'
    BY DEF OnceInv, NewInv
  <1> QED BY <1>2, <1>3, SameCopies DEF OnceInv

\* A Push that queues moves its copy to the mailbox.
LEMMA QueueOnce ==
    ASSUME TypeOK, OnceInv, NEW p \in Pushers, Return(p), msg[p] \in Messages,
           mb' = Append(mb, msg[p]),
           UNCHANGED <<todo, told, early, count, disk, damaged, start, loop>>
    PROVE  OnceInv'
  <1> DEFINE e == msg[p]
  <1>1. /\ msg \in [Pushers -> Messages \cup {NoMessage}]
        /\ pc \in [Pushers -> {"idle", "check", "persist", "enqueue"}]
        /\ NoMessage \notin Messages /\ mb \in Seq(Messages)
    BY ActorAssumption DEF TypeOK, ActorAssumption
  <1>2. /\ \A q \in Pushers : q # p => msg'[q] = msg[q] /\ pc'[q] = pc[q]
        /\ msg'[p] = NoMessage /\ pc'[p] = "idle"
    BY <1>1 DEF Return, Goto
  <1>3. /\ \A i \in DOMAIN mb' : \/ i \in DOMAIN mb /\ mb'[i] = mb[i]
                                 \/ i = Len(mb) + 1 /\ mb'[i] = e
        /\ Len(mb) + 1 \notin DOMAIN mb
    BY <1>1, AppendFacts
  <1> HIDE DEF e
  <1>0. e = msg[p] /\ e \in Messages
    BY DEF e
  <1>4. SentOnceInv'
    BY <1>1, <1>2, PusherFacts DEF OnceInv, SentOnceInv
  <1>5. NewInv'
    BY <1>0, <1>1, <1>2, <1>3 DEF OnceInv, NewInv
  <1>6. \A m \in Messages : /\ InPush(m)' => InPush(m)
                            /\ InTodo(m)' <=> InTodo(m)
                            /\ InBox(m)' => InBox(m) \/ m = e
                            /\ m = e => InPush(m)
    BY <1>0, <1>1, <1>2, <1>3 DEF InBox, InTodo, InPush
  <1>7. SentInv'
    BY <1>6 DEF OnceInv, SentInv
  <1>8. ASSUME NEW m \in Messages, OneCopy(m) PROVE OneCopy(m)'
    <2>1. ASSUME NEW q \in Pushers, NEW r \in Pushers, msg'[q] = m, msg'[r] = m
          PROVE  q = r
      BY <1>1, <1>2, <1>8, <2>1 DEF OneCopy
    <2>2. CASE m = e
      <3>1. /\ ~InTodo(m) /\ ~InBox(m) /\ count[m] = 0
        BY <1>6, <1>8, <2>2 DEF OneCopy
      <3>2. ~InPush(m)'
        BY <1>0, <1>1, <1>2, <1>8, <2>2 DEF OneCopy, InPush
      <3>3. \A i \in DOMAIN mb' : mb'[i] = m => i = Len(mb) + 1
        BY <1>3, <3>1 DEF InBox
      <3>4. ~InTodo(m)'
        BY <1>6, <3>1
      <3>5. \A i, j \in DOMAIN mb' : mb'[i] = m /\ mb'[j] = m => i = j
        BY <3>3
      <3>6. \A i, j \in DOMAIN todo' :
              todo'[i] = Marshal[m] /\ todo'[j] = Marshal[m] => i = j
        BY <1>8 DEF OneCopy
      <3> QED BY <2>1, <3>1, <3>2, <3>4, <3>5, <3>6 DEF OneCopy
    <2>3. CASE m # e
      <3>1. \A i \in DOMAIN mb' : mb'[i] = m => i \in DOMAIN mb /\ mb[i] = m
        BY <1>3, <2>3
      <3>2. \A i, j \in DOMAIN mb' : mb'[i] = m /\ mb'[j] = m => i = j
        BY <1>8, <3>1 DEF OneCopy
      <3>3. InBox(m)' => InBox(m)
        BY <1>6, <2>3
      <3>4. \A i, j \in DOMAIN todo' :
              todo'[i] = Marshal[m] /\ todo'[j] = Marshal[m] => i = j
        BY <1>8 DEF OneCopy
      <3> QED BY <1>6, <1>8, <2>1, <3>2, <3>3, <3>4 DEF OneCopy
    <2> QED BY <2>2, <2>3
  <1>9. OneCopyInv'
    BY <1>8 DEF OnceInv, OneCopyInv
  <1> QED BY <1>4, <1>5, <1>7, <1>9 DEF OnceInv

\* Tell makes the first copy of a message that was never sent.
LEMMA TellOnce ==
    ASSUME TypeOK, OnceInv, NEW s \in Senders, NEW e \in Messages, Tell(s, e)
    PROVE  OnceInv'
  <1>1. /\ msg \in [Pushers -> Messages \cup {NoMessage}]
        /\ pc \in [Pushers -> {"idle", "check", "persist", "enqueue"}]
        /\ NoMessage \notin Messages /\ s \in Pushers
        /\ count \in [Messages -> Nat]
    BY ActorAssumption, PusherFacts DEF TypeOK, ActorAssumption
  <1>2. /\ \A q \in Pushers : q # s => msg'[q] = msg[q] /\ pc'[q] = pc[q]
        /\ msg'[s] = e /\ pc'[s] = "check"
    BY <1>1 DEF Tell, Goto
  <1>3. /\ e \notin told /\ told' = told \cup {e}
        /\ early \subseteq early' /\ (start = "new" => early' = early \cup {e})
        /\ UNCHANGED <<todo, mb, count, disk, damaged, start, loop>>
    BY DEF Tell
  <1>4. SentOnceInv'
    <2>1. \A t \in Senders : t \in Pushers
      BY PusherFacts
    <2>2. \A t \in Senders : msg'[t] \in Messages => msg'[t] \in told'
      BY <1>2, <1>3, <2>1 DEF OnceInv, SentOnceInv
    <2>3. ASSUME NEW t \in Senders, NEW u \in Senders,
                 msg'[t] \in Messages, msg'[t] = msg'[u]
          PROVE  t = u
      <3>1. \A x \in Senders : x # s /\ msg[x] \in Messages => msg'[x] # e
        BY <1>2, <1>3, <2>1 DEF OnceInv, SentOnceInv
      <3> QED BY <1>2, <2>1, <2>3, <3>1 DEF OnceInv, SentOnceInv
    <2>4. /\ \A i \in DOMAIN disk' : disk'[i].msg \in told'
          /\ \A i, j \in DOMAIN disk' : disk'[i].msg = disk'[j].msg => i = j
      BY <1>3 DEF OnceInv, SentOnceInv
    <2>5. ASSUME NEW t \in Senders, pc'[t] \in {"check", "persist"},
                 NEW i \in DOMAIN disk'
          PROVE  disk'[i].msg # msg'[t]
      BY <1>2, <1>3, <2>1, <2>5 DEF OnceInv, SentOnceInv
    <2> QED BY <2>2, <2>3, <2>4, <2>5 DEF SentOnceInv
  <1>5. NewInv'
    BY <1>2, <1>3 DEF OnceInv, NewInv
  <1>6. \A m \in Messages : /\ InPush(m)' => InPush(m) \/ m = e
                            /\ InTodo(m)' <=> InTodo(m)
                            /\ InBox(m)' <=> InBox(m)
    BY <1>1, <1>2, <1>3 DEF InBox, InTodo, InPush
  <1>7. SentInv'
    BY <1>3, <1>6 DEF OnceInv, SentInv
  <1>8. ASSUME NEW m \in Messages, OneCopy(m), ~damaged PROVE OneCopy(m)'
    <2>1. CASE m = e
      <3>1. ~InTodo(m) /\ ~InPush(m) /\ ~InBox(m) /\ count[m] = 0
        BY <1>1, <1>3, <1>8, <2>1 DEF OnceInv, SentInv
      <3>2. ~InTodo(m)' /\ ~InBox(m)' /\ count'[m] = 0
        BY <1>3, <1>6, <3>1
      <3>3. \A q, r \in Pushers : msg'[q] = m /\ msg'[r] = m => q = r
        BY <1>2, <3>1 DEF InPush
      <3>4. /\ \A i, j \in DOMAIN mb' : mb'[i] = m /\ mb'[j] = m => i = j
            /\ \A i, j \in DOMAIN todo' :
                 todo'[i] = Marshal[m] /\ todo'[j] = Marshal[m] => i = j
        BY <1>3, <1>8 DEF OneCopy
      <3> QED BY <3>2, <3>3, <3>4 DEF OneCopy
    <2>2. CASE m # e
      <3>1. InPush(m)' => InPush(m)
        BY <1>6, <2>2
      <3>2. \A q, r \in Pushers : msg'[q] = m /\ msg'[r] = m => q = r
        BY <1>2, <1>8, <2>2 DEF OneCopy
      <3>3. /\ \A i, j \in DOMAIN mb' : mb'[i] = m /\ mb'[j] = m => i = j
            /\ \A i, j \in DOMAIN todo' :
                 todo'[i] = Marshal[m] /\ todo'[j] = Marshal[m] => i = j
        BY <1>3, <1>8 DEF OneCopy
      <3> QED BY <1>3, <1>6, <1>8, <3>1, <3>2, <3>3 DEF OneCopy
    <2> QED BY <2>1, <2>2
  <1>9. OneCopyInv'
    BY <1>3, <1>8 DEF OnceInv, OneCopyInv
  <1> QED BY <1>4, <1>5, <1>7, <1>9 DEF OnceInv

\* PushPersist logs what nobody has logged.
LEMMA WriteOnce ==
    ASSUME TypeOK, OnceInv, PersistInv, NEW p \in Pushers, PushPersist(p)
    PROVE  OnceInv'
  <1>1. /\ p \in Senders /\ msg[p] \in Messages /\ pc[p] = "persist"
        /\ pc \in [Pushers -> {"idle", "check", "persist", "enqueue"}]
    BY DEF PushPersist, PersistInv, Pushers, TypeOK
  <1>2. /\ \A q \in Pushers : q # p => pc'[q] = pc[q]
        /\ pc'[p] = "enqueue"
        /\ UNCHANGED <<todo, mb, msg, told, early, count, damaged, start, loop>>
    BY <1>1 DEF PushPersist, Goto
  <1>3. NewInv' /\ SentInv' /\ OneCopyInv'
    BY <1>2, SameCopies DEF OnceInv, NewInv
  <1>s. \A t \in Senders : t \in Pushers
    BY PusherFacts
  <1>4. CASE disk' = disk
    BY <1>2, <1>3, <1>4, <1>s DEF OnceInv, SentOnceInv
  <1>5. ASSUME NEW k, Write(msg[p], k) PROVE OnceInv'
    <2>1. /\ \A i \in DOMAIN disk' : \/ i \in DOMAIN disk /\ disk'[i] = disk[i]
                                     \/ i = Len(disk) + 1 /\ disk'[i].msg = msg[p]
          /\ Len(disk) + 1 \notin DOMAIN disk
      <3> DEFINE w == [msg |-> msg[p], at |-> Len(file), len |-> k]
      <3>1. disk' = Append(disk, w) /\ w.msg = msg[p]
        BY <1>5 DEF Write
      <3> HIDE DEF w
      <3>2. PICK T : disk \in Seq(T) /\ w \in T
        <4>1. disk \in Seq(Writes \cup {w})
          BY DEF TypeOK
        <4> QED BY <4>1
      <3> QED BY <3>1, <3>2, AppendFacts
    <2>2. msg[p] \in told /\ \A i \in DOMAIN disk : disk[i].msg # msg[p]
      BY <1>1 DEF OnceInv, SentOnceInv
    <2>3. \A i \in DOMAIN disk' : disk'[i].msg \in told'
      BY <1>2, <2>1, <2>2 DEF OnceInv, SentOnceInv
    <2>4. \A i, j \in DOMAIN disk' : disk'[i].msg = disk'[j].msg => i = j
      BY <2>1, <2>2 DEF OnceInv, SentOnceInv
    <2>5. ASSUME NEW t \in Senders, pc'[t] \in {"check", "persist"},
                 NEW i \in DOMAIN disk'
          PROVE  disk'[i].msg # msg'[t]
      <3>1. t # p /\ pc[t] \in {"check", "persist"} /\ msg'[t] = msg[t]
        BY <1>2, <1>s, <2>5
      <3>2. msg[t] # msg[p]
        BY <1>1, <3>1 DEF OnceInv, SentOnceInv
      <3> QED BY <2>1, <3>1, <3>2 DEF OnceInv, SentOnceInv
    <2>6. /\ \A t \in Senders : msg'[t] \in Messages => msg'[t] \in told'
          /\ \A t, u \in Senders : msg'[t] \in Messages /\ msg'[t] = msg'[u] => t = u
      BY <1>2 DEF OnceInv, SentOnceInv
    <2>7. SentOnceInv'
      BY <2>3, <2>4, <2>5, <2>6 DEF SentOnceInv
    <2> QED BY <1>3, <2>7 DEF OnceInv
  <1> QED BY <1>4, <1>5 DEF PushPersist, AppendRecord

\* StartPush moves a copy from what Start has read to its Push.
LEMMA StartPushOnce ==
    ASSUME TypeOK, OnceInv, StartPush
    PROVE  OnceInv'
  <1> DEFINE b == Head(todo)
             e == Unmarshal(b)
  <1>1. /\ 1 \in DOMAIN todo /\ b = todo[1]
        /\ \A i \in DOMAIN todo' : /\ i \in Nat /\ i >= 1
                                   /\ i + 1 \in DOMAIN todo /\ todo'[i] = todo[i + 1]
    BY TailFacts DEF StartPush, TypeOK
  <1>2. /\ start = "replay" /\ pc[Starter] = "idle" /\ msg[Starter] \notin Messages
        /\ UNCHANGED <<mb, told, early, count, disk, damaged, start, loop>>
    BY PusherFacts DEF StartPush, TypeOK
  <1> HIDE DEF b
  <1>3. \A m \in Messages : /\ InTodo(m)' => InTodo(m)
                            /\ InBox(m)' <=> InBox(m)
    BY <1>1, <1>2 DEF InTodo, InBox
  <1>4. ASSUME NEW m \in Messages, OneCopy(m)
        PROVE  \A i, j \in DOMAIN todo' :
                 todo'[i] = Marshal[m] /\ todo'[j] = Marshal[m] => i = j
    <2> SUFFICES ASSUME NEW i \in DOMAIN todo', NEW j \in DOMAIN todo',
                        todo'[i] = Marshal[m], todo'[j] = Marshal[m]
                 PROVE  i = j
      OBVIOUS
    <2>1. /\ i \in Nat /\ i + 1 \in DOMAIN todo /\ todo[i + 1] = Marshal[m]
          /\ j \in Nat /\ j + 1 \in DOMAIN todo /\ todo[j + 1] = Marshal[m]
      BY <1>1
    <2>2. i + 1 = j + 1
      BY <1>4, <2>1 DEF OneCopy
    <2> QED BY <2>1, <2>2
  <1>5. CASE ~Decodable(b)
    <2>1. UNCHANGED <<pc, msg>>
      BY <1>5 DEF StartPush, b
    <2>2. SentOnceInv' /\ NewInv'
      BY <1>2, <2>1, SameSent DEF OnceInv, NewInv
    <2>3. \A m \in Messages : InPush(m)' <=> InPush(m)
      BY <2>1 DEF InPush
    <2>4. SentInv'
      BY <1>2, <1>3, <2>3 DEF OnceInv, SentInv
    <2>5. ASSUME NEW m \in Messages, OneCopy(m) PROVE OneCopy(m)'
      BY <1>2, <1>3, <1>4, <2>1, <2>3, <2>5 DEF OneCopy
    <2>6. OneCopyInv'
      BY <1>2, <2>5 DEF OnceInv, OneCopyInv
    <2> QED BY <2>2, <2>4, <2>6 DEF OnceInv
  <1>6. CASE Decodable(b)
    <2>1. e \in Messages /\ Marshal[e] = b
      BY <1>6, UnmarshalType
    <2>2. msg' = [msg EXCEPT ![Starter] = e] /\ pc' = [pc EXCEPT ![Starter] = "check"]
      BY <1>6 DEF StartPush, Goto, b
    <2> HIDE DEF e
    <2>3. /\ \A q \in Pushers : q # Starter => msg'[q] = msg[q] /\ pc'[q] = pc[q]
          /\ msg'[Starter] = e
      BY <2>2, PusherFacts DEF TypeOK
    <2>4. SentOnceInv'
      <3>1. \A s \in Senders : msg'[s] = msg[s] /\ pc'[s] = pc[s]
        BY <2>3, PusherFacts
      <3> QED BY <1>2, <3>1 DEF OnceInv, SentOnceInv
    <2>5. NewInv'
      BY <1>2 DEF OnceInv, NewInv
    <2>6. InTodo(e)
      BY <1>1, <2>1 DEF InTodo
    <2>7. \A m \in Messages : InPush(m)' => InPush(m) \/ m = e
      BY <2>3 DEF InPush
    <2>8. SentInv'
      BY <1>2, <1>3, <2>6, <2>7 DEF OnceInv, SentInv
    <2>9. ASSUME NEW m \in Messages, OneCopy(m) PROVE OneCopy(m)'
      <3>1. CASE m = e
        <4>1. ~InPush(m) /\ ~InBox(m) /\ count[m] = 0
          BY <2>6, <2>9, <3>1 DEF OneCopy
        <4>2. ~InTodo(m)'
          <5> SUFFICES ASSUME NEW i \in DOMAIN todo', todo'[i] = Marshal[m] PROVE FALSE
            BY DEF InTodo
          <5>1. i \in Nat /\ i >= 1 /\ i + 1 \in DOMAIN todo /\ todo[i + 1] = Marshal[m]
            BY <1>1
          <5>2. i + 1 = 1
            BY <1>1, <2>1, <2>9, <3>1, <5>1 DEF OneCopy
          <5> QED BY <5>1, <5>2
        <4>3. ~InBox(m)' /\ count'[m] = 0
          BY <1>2, <1>3, <4>1
        <4>4. \A q, r \in Pushers : msg'[q] = m /\ msg'[r] = m => q = r
          BY <2>3, <4>1 DEF InPush
        <4>5. \A i, j \in DOMAIN mb' : mb'[i] = m /\ mb'[j] = m => i = j
          BY <1>2, <2>9 DEF OneCopy
        <4> QED BY <1>4, <2>9, <4>2, <4>3, <4>4, <4>5 DEF OneCopy
      <3>2. CASE m # e
        <4>1. InPush(m)' => InPush(m)
          BY <2>7, <3>2
        <4>2. \A q, r \in Pushers : msg'[q] = m /\ msg'[r] = m => q = r
          BY <2>3, <2>9, <3>2 DEF OneCopy
        <4>3. \A i, j \in DOMAIN mb' : mb'[i] = m /\ mb'[j] = m => i = j
          BY <1>2, <2>9 DEF OneCopy
        <4> QED BY <1>2, <1>3, <1>4, <2>9, <4>1, <4>2, <4>3 DEF OneCopy
      <3> QED BY <3>1, <3>2
    <2>10. OneCopyInv'
      BY <1>2, <2>9 DEF OnceInv, OneCopyInv
    <2> QED BY <2>4, <2>5, <2>8, <2>10 DEF OnceInv
  <1> QED BY <1>5, <1>6

\* Start reads every record of an intact log, each message's once; what the
\* actor holds already was sent early.
LEMMA ReplayOnce ==
    ASSUME TypeOK, OnceInv, ReplaySound, StartReplay
    PROVE  OnceInv'
  <1>1. /\ start = "new" /\ start' = "replay" /\ loop = "off"
        /\ UNCHANGED <<mb, pc, msg, told, early, count, disk, loop>>
    BY DEF StartReplay, ReplayLog, OnceInv, NewInv
  <1>2. SentOnceInv'
    BY <1>1, SameSent DEF OnceInv
  <1>3. NewInv'
    BY <1>1 DEF OnceInv, NewInv
  <1>4. ASSUME ~damaged'
        PROVE  \A i \in DOMAIN todo' :
                 i \in DOMAIN disk /\ todo'[i] = Marshal[disk[i].msg]
    <2>1. Torn = {}
      BY <1>4 DEF StartReplay, ReplayLog
    <2>2. Recovered = Payloads(disk)
      <3>1. Replay(file) = Read(Payloads(disk))
        BY <2>1 DEF ReplaySound
      <3> QED BY <3>1 DEF Recovered, Read
    <2>3. todo' = <<>> \/ todo' = Payloads(disk)
      BY <2>2 DEF StartReplay, ReplayLog
    <2> QED BY <2>3 DEF Payloads
  <1>5. \A m, n \in Messages : Marshal[m] = Marshal[n] => m = n
    BY ActorAssumption DEF ActorAssumption
  <1>6. \A i \in DOMAIN disk : disk[i].msg \in Messages
    BY WriteTypes
  <1>7. \A m \in Messages : /\ InPush(m)' <=> InPush(m)
                            /\ InBox(m)' <=> InBox(m)
    BY <1>1 DEF InPush, InBox
  <1>8. \A m \in Messages : /\ count'[m] = 0
                            /\ InPush(m) => m \in early
                            /\ InBox(m) => m \in early
    BY <1>1 DEF OnceInv, NewInv, InPush, InBox
  <1>9. SentInv'
    <2> SUFFICES ASSUME ~damaged', NEW m \in Messages
                 PROVE  /\ InTodo(m)' \/ InPush(m)' \/ InBox(m)' => m \in told'
                        /\ ~(count'[m] > 0)
      BY DEF SentInv
    <2>1. InTodo(m)' => m \in told'
      BY <1>1, <1>4, <1>5, <1>6 DEF InTodo, OnceInv, SentOnceInv
    <2>2. early \subseteq told
      BY DEF TypeOK
    <2> QED BY <1>1, <1>7, <1>8, <2>1, <2>2
  <1>10. OneCopyInv'
    <2> SUFFICES ASSUME ~damaged', NEW m \in Messages, m \notin early
                 PROVE  OneCopy(m)'
      BY <1>1 DEF OneCopyInv
    <2>1. ~InPush(m)' /\ ~InBox(m)' /\ count'[m] = 0
      BY <1>7, <1>8
    <2>2. \A i, j \in DOMAIN todo' :
            todo'[i] = Marshal[m] /\ todo'[j] = Marshal[m] => i = j
      BY <1>4, <1>5, <1>6 DEF OnceInv, SentOnceInv
    <2>3. /\ \A q, r \in Pushers : msg'[q] = m /\ msg'[r] = m => q = r
          /\ \A i, j \in DOMAIN mb' : mb'[i] = m /\ mb'[j] = m => i = j
      BY <2>1 DEF InPush, InBox
    <2> QED BY <2>1, <2>2, <2>3 DEF OneCopy
  <1> QED BY <1>2, <1>3, <1>9, <1>10 DEF OnceInv

LEMMA PushOnce ==
    ASSUME TypeOK, OnceInv, PersistInv, NEW p \in Pushers, PushStep(p)
    PROVE  OnceInv'
  <1>1. CASE PushCheck(p)
    <2>1. UNCHANGED <<todo, mb, told, early, count, disk, damaged, start, loop>>
          /\ pc[p] = "check"
      BY <1>1 DEF PushCheck
    <2>2. CASE Refused(p)
      BY <2>1, <2>2, RefuseOnce DEF Refused
    <2>3. ASSUME NEW l, Goto(p, l), msg' = msg PROVE OnceInv'
      BY <2>1, <2>3, GotoOnce
    <2> QED BY <1>1, <2>2, <2>3 DEF PushCheck
  <1>2. CASE PushPersist(p)
    BY <1>2, WriteOnce
  <1>3. CASE PushEnqueue(p)
    <2>1. /\ UNCHANGED <<todo, told, early, count, disk, damaged, start, loop>>
          /\ msg[p] \in Messages
      BY <1>3 DEF PushEnqueue, Enqueue, TypeOK
    <2>2. CASE Return(p) /\ mb' = Append(mb, msg[p])
      BY <2>1, <2>2, QueueOnce
    <2>3. CASE Refused(p) /\ mb' = mb
      BY <2>1, <2>3, RefuseOnce DEF Refused
    <2> QED BY <1>3, <2>2, <2>3 DEF PushEnqueue, Enqueue
  <1> QED BY <1>1, <1>2, <1>3 DEF PushStep

LEMMA OnceInit == Init => OnceInv
  <1> SUFFICES ASSUME Init PROVE OnceInv
    OBVIOUS
  <1>1. NoMessage \notin Messages
    BY ActorAssumption DEF ActorAssumption
  <1>2. /\ \A p \in Pushers : pc[p] = "idle" /\ msg[p] = NoMessage
        /\ \A m \in Messages : count[m] = 0
        /\ todo = <<>> /\ mb = <<>> /\ disk = <<>> /\ start = "none"
    BY DEF Init
  <1>3. \A s \in Senders : pc[s] = "idle" /\ msg[s] = NoMessage
    BY <1>2, PusherFacts
  <1>4. SentOnceInv
    BY <1>1, <1>2, <1>3 DEF SentOnceInv
  <1>5. NewInv
    BY <1>2 DEF NewInv
  <1>6. ASSUME NEW m \in Messages
        PROVE  ~InTodo(m) /\ ~InPush(m) /\ ~InBox(m) /\ OneCopy(m)
    BY <1>1, <1>2, <1>6 DEF InTodo, InPush, InBox, OneCopy
  <1> QED BY <1>2, <1>4, <1>5, <1>6 DEF OnceInv, SentInv, OneCopyInv

LEMMA OnceNext ==
    ASSUME TypeOK, PersistInv, ReplaySound, OnceInv, [Next]_vars
    PROVE  OnceInv'
  <1>1. ASSUME NEW w \in {"open", "none"}, New(w) PROVE OnceInv'
    BY <1>1, FreshOnce DEF New, OnceInv
  <1>2. CASE Crash
    BY <1>2, DieOnce DEF Crash
  <1>3. ASSUME NEW s \in Senders, PushStep(s) PROVE OnceInv'
    BY <1>3, PushOnce, PusherFacts
  <1>4. ASSUME NEW s \in Senders, NEW m \in Messages, Tell(s, m) PROVE OnceInv'
    BY <1>4, TellOnce
  <1>5. CASE StartReplay
    BY <1>5, ReplayOnce
  <1>6. CASE StartStep
    BY <1>6, StartPushOnce, ControlOnce, PushOnce, PusherFacts DEF StartStep
  <1>7. CASE RunStep
    BY <1>7, HandleOnce, ControlOnce, DieOnce DEF RunStep
  <1>8. CASE StopCall \/ StopStep
    BY <1>8, ControlOnce, DieOnce DEF StopStep
  <1>9. CASE UNCHANGED vars
    BY <1>9, SameCopies, SameSent DEF vars, OnceInv, NewInv
  <1> QED BY <1>1, <1>2, <1>3, <1>4, <1>5, <1>6, <1>7, <1>8, <1>9 DEF Next

(***************************************************************************)
(* An incarnation that started from an intact log handles only what was    *)
(* sent, and handles each message at most once unless it was sent before   *)
(* Start, through any interleaving of senders, Start, the loop, Stop and   *)
(* crashes, and however often the log has been replayed before.            *)
(***************************************************************************)
THEOREM HandledOncePerRun ==
    ASSUME SmallPayloads
    PROVE  Spec => []OncePerRun
  <1>1. Init => OnceInv
    BY OnceInit
  <1>2. LogInv /\ OnceInv /\ [Next]_vars => OnceInv'
    BY FileSound, OnceNext DEF LogInv
  <1>3. LogInv /\ OnceInv => OncePerRun
    BY DEF LogInv, TypeOK, OnceInv, SentInv, OneCopyInv, OneCopy, OncePerRun
  <1> QED BY <1>1, <1>2, <1>3, LogInvariant, PTL DEF Spec
=============================================================================
