---------------------------- MODULE Base64Proofs ----------------------------
(***************************************************************************)
(* What is written as base64url is read back as what it was, for any bytes *)
(* and whether or not the padding is dropped on the way.                   *)
(***************************************************************************)
EXTENDS Base64, SequenceTheorems, TLAPS

(* Three bytes survive a group, and its characters are of the alphabet.    *)
LEMMA GroupIsSextets ==
  ASSUME NEW a \in Byte, NEW b \in Byte, NEW c \in Byte
  PROVE  /\ a \div 4 \in Sextet
         /\ ((a % 4) * 16) + (b \div 16) \in Sextet
         /\ ((b % 16) * 4) + (c \div 64) \in Sextet
         /\ c % 64 \in Sextet
  BY DEF Byte, Sextet

LEMMA GroupSurvives ==
  ASSUME NEW a \in Byte, NEW b \in Byte, NEW c \in Byte,
         NEW d, NEW e, NEW f, NEW g,
         d = a \div 4, e = ((a % 4) * 16) + (b \div 16),
         f = ((b % 16) * 4) + (c \div 64), g = c % 64
  PROVE  /\ ((d * 4) + (e \div 16)) % 256 = a
         /\ ((e % 16) * 16) + (f \div 4) = b
         /\ ((f % 4) * 64) + (g % 64) = c
  BY DEF Byte

LEMMA ThreeAreBytes ==
  ASSUME NEW d \in Sextet, NEW e \in Sextet, NEW f \in Sextet, NEW g \in Sextet
  PROVE  /\ ((d * 4) + (e \div 16)) % 256 \in Byte
         /\ ((e % 16) * 16) + (f \div 4) \in Byte
         /\ ((f % 4) * 64) + (g % 64) \in Byte
  BY DEF Byte, Sextet

-----------------------------------------------------------------------------
(* The groups of four characters of a byte string d, the first of them at  *)
(* index 0, and the texts they make: the first g groups, and the n groups  *)
(* of the whole string with what padding is left.                          *)
At(d, k) == IF k < Len(d) THEN d[k + 1] ELSE 0

Four(d, h) == FourChars(At(d, 3 * h), At(d, (3 * h) + 1), At(d, (3 * h) + 2))

Encodes(d, s, g) ==
  /\ Len(s) = 4 * g
  /\ \A h \in 0..(g - 1), j \in 1..4 : s[(4 * h) + j] = Four(d, h)[j]

Groups(d, n) == (3 * n) - 3 < Len(d) /\ Len(d) <= 3 * n

(* The number of characters that are not padding.                          *)
Significant(d, n) == n + Len(d)

IsText(d, s, n) ==
  /\ Groups(d, n)
  /\ Significant(d, n) <= Len(s) /\ Len(s) <= 4 * n
  /\ \A h \in 0..(n - 1), j \in 1..4 :
       (4 * h) + j <= Significant(d, n) => s[(4 * h) + j] = Four(d, h)[j]
  /\ \A k \in 1..Len(s) : k > Significant(d, n) => s[k] = Pad

LEMMA AtIsByte ==
  ASSUME NEW d \in Seq(Byte), NEW k \in Nat
  PROVE  At(d, k) \in Byte
<1>1. CASE k < Len(d)
  <2>1. k + 1 \in 1..Len(d)
    BY <1>1, LenProperties
  <2> QED  BY <1>1, <2>1, ElementOfSeq DEF At
<1>2. CASE ~(k < Len(d))
  BY <1>2 DEF At, Byte
<1> QED  BY <1>1, <1>2

LEMMA FourAreSextets ==
  ASSUME NEW d \in Seq(Byte), NEW h \in Nat
  PROVE  /\ Four(d, h) \in Seq(Sextet)
         /\ Len(Four(d, h)) = 4
         /\ \A j \in 1..4 : Four(d, h)[j] \in Sextet
<1> DEFINE a == At(d, 3 * h)
           b == At(d, (3 * h) + 1)
           c == At(d, (3 * h) + 2)
<1>1. a \in Byte /\ b \in Byte /\ c \in Byte
  BY AtIsByte
<1>2. Four(d, h) = FourChars(a, b, c)
  BY DEF Four
<1> HIDE DEF a, b, c
<1>3. /\ a \div 4 \in Sextet
      /\ ((a % 4) * 16) + (b \div 16) \in Sextet
      /\ ((b % 16) * 4) + (c \div 64) \in Sextet
      /\ c % 64 \in Sextet
  BY <1>1, GroupIsSextets
<1>4. FourChars(a, b, c) \in Seq(Sextet) /\ Len(FourChars(a, b, c)) = 4
  BY <1>3 DEF FourChars
<1>5. \A j \in 1..4 : FourChars(a, b, c)[j] \in Sextet
  BY <1>4, ElementOfSeq
<1> QED  BY <1>2, <1>4, <1>5

(* What a group is read as.                                                *)
LEMMA GroupIsRead ==
  ASSUME NEW d \in Seq(Byte), NEW h \in Nat
  PROVE  ThreeBytes(Four(d, h)[1], Four(d, h)[2], Four(d, h)[3], Four(d, h)[4])
           = <<At(d, 3 * h), At(d, (3 * h) + 1), At(d, (3 * h) + 2)>>
<1> DEFINE a == At(d, 3 * h)
           b == At(d, (3 * h) + 1)
           c == At(d, (3 * h) + 2)
<1>1. a \in Byte /\ b \in Byte /\ c \in Byte
  BY AtIsByte
<1>2. Four(d, h) = FourChars(a, b, c)
  BY DEF Four
<1> HIDE DEF a, b, c
<1>3. /\ FourChars(a, b, c)[1] = a \div 4
      /\ FourChars(a, b, c)[2] = ((a % 4) * 16) + (b \div 16)
      /\ FourChars(a, b, c)[3] = ((b % 16) * 4) + (c \div 64)
      /\ FourChars(a, b, c)[4] = c % 64
  BY DEF FourChars
<1> DEFINE q == FourChars(a, b, c)
<1> HIDE DEF q
<1>4. /\ q[1] = a \div 4
      /\ q[2] = ((a % 4) * 16) + (b \div 16)
      /\ q[3] = ((b % 16) * 4) + (c \div 64)
      /\ q[4] = c % 64
  BY <1>3 DEF q
<1>5. /\ ((q[1] * 4) + (q[2] \div 16)) % 256 = a
      /\ ((q[2] % 16) * 16) + (q[3] \div 4) = b
      /\ ((q[3] % 4) * 64) + (q[4] % 64) = c
  BY <1>1, <1>4, GroupSurvives
<1>6. ThreeBytes(q[1], q[2], q[3], q[4]) = <<a, b, c>>
  BY <1>5 DEF ThreeBytes
<1> QED  BY <1>2, <1>6 DEF q, a, b, c


-----------------------------------------------------------------------------
(* One turn of the writing loop adds a group.                              *)
LEMMA GroupIsAdded ==
  ASSUME NEW d \in Seq(Byte), NEW s \in Seq(Char), NEW g \in Nat, Encodes(d, s, g)
  PROVE  /\ s \o Four(d, g) \in Seq(Char)
         /\ Encodes(d, s \o Four(d, g), g + 1)
<1> DEFINE q == Four(d, g)
           t == s \o q
<1>1. /\ q \in Seq(Char) /\ Len(q) = 4
  <2>1. q \in Seq(Sextet) /\ Len(q) = 4
    BY FourAreSextets
  <2>2. Sextet \subseteq Char
    BY DEF Sextet, Char
  <2>3. q \in Seq(Char)
    BY <2>1, <2>2
  <2> QED  BY <2>1, <2>3
<1> HIDE DEF q
<1>2. /\ t \in Seq(Char)
      /\ Len(t) = Len(s) + Len(q)
      /\ \A k \in 1..(Len(s) + Len(q)) : t[k] = IF k <= Len(s) THEN s[k] ELSE q[k - Len(s)]
  BY <1>1, ConcatProperties
<1> HIDE DEF t
<1>3. Len(s) = 4 * g
  BY DEF Encodes
<1>4. Len(t) = 4 * (g + 1)
  BY <1>1, <1>2, <1>3
<1>5. ASSUME NEW h \in 0..g, NEW j \in 1..4
      PROVE  t[(4 * h) + j] = Four(d, h)[j]
  <2>1. CASE h < g
    <3>1. (4 * h) + j <= Len(s) /\ h \in 0..(g - 1)
      BY <1>3, <2>1
    <3>2. t[(4 * h) + j] = s[(4 * h) + j]
      BY <1>2, <1>1, <1>3, <3>1
    <3> QED  BY <3>1, <3>2 DEF Encodes
  <2>2. CASE h = g
    <3>1. t[(4 * h) + j] = q[j]
      BY <1>1, <1>2, <1>3, <2>2
    <3> QED  BY <3>1, <2>2 DEF q
  <2> QED  BY <2>1, <2>2
<1>6. (g + 1) - 1 = g
  OBVIOUS
<1>7. Encodes(d, t, g + 1)
  BY <1>4, <1>5, <1>6 DEF Encodes
<1> QED  BY <1>2, <1>7 DEF t, q

(* m pads, and a text whose last m characters are replaced by them.        *)
Pads(e, m) == e \in Seq(Char) /\ Len(e) = m /\ \A k \in 1..m : e[k] = Pad

EndsInPads(t, s, m) ==
  /\ t \in Seq(Char)
  /\ Len(t) = Len(s)
  /\ \A k \in 1..Len(s) : t[k] = IF k <= Len(s) - m THEN s[k] ELSE Pad

(* The end of the text loses as many characters as it gets pads.           *)
LEMMA EndIsReplaced ==
  ASSUME NEW s \in Seq(Char), NEW m \in 1..2, m <= Len(s), NEW e, Pads(e, m)
  PROVE  EndsInPads(SubSeq(s, 1, Len(s) - m) \o e, s, m)
<1> DEFINE u == SubSeq(s, 1, Len(s) - m)
           t == u \o e
<1>0. e \in Seq(Char) /\ Len(e) = m /\ \A k \in 1..m : e[k] = Pad
  BY DEF Pads
<1>1. /\ u \in Seq(Char)
      /\ Len(u) = Len(s) - m
      /\ \A k \in 1..(Len(s) - m) : u[k] = s[k]
  <2>1. Len(s) - m \in 0..Len(s) /\ Len(s) \in Nat
    BY LenProperties
  <2>2. CASE Len(s) = m
    <3>1. u = <<>>
      BY <2>2, SubSeqProperties
    <3> QED  BY <3>1, <2>2
  <2>3. CASE Len(s) # m
    <3>1. Len(s) - m \in 1..Len(s)
      BY <2>1, <2>3
    <3>2. /\ 1 \in 1..(Len(s) + 1)
          /\ Len(s) - m \in (1 - 1)..Len(s)
      BY <2>1, <3>1
    <3>3. \A k \in 1..(Len(s) - m) : s[k] \in Char
      BY ElementOfSeq, <2>1, <3>1
    <3> QED  BY <3>1, <3>2, <3>3, <2>1, SubSeqProperties
  <2> QED  BY <2>2, <2>3
<1> HIDE DEF u
<1>2. /\ t \in Seq(Char)
      /\ Len(t) = Len(u) + Len(e)
      /\ \A k \in 1..(Len(u) + Len(e)) : t[k] = IF k <= Len(u) THEN u[k] ELSE e[k - Len(u)]
  BY <1>0, <1>1, ConcatProperties
<1> HIDE DEF t
<1>3. Len(s) \in Nat
  BY LenProperties
<1>4. Len(t) = Len(s)
  BY <1>0, <1>1, <1>2, <1>3
<1>5. ASSUME NEW k \in 1..Len(s)
      PROVE  t[k] = IF k <= Len(s) - m THEN s[k] ELSE Pad
  <2>1. CASE k <= Len(s) - m
    <3>1. u[k] = s[k]
      BY <1>1, <1>3, <2>1
    <3>2. k \in 1..(Len(u) + Len(e)) /\ k <= Len(u)
      BY <1>0, <1>1, <1>3, <2>1
    <3>3. t[k] = u[k]
      BY <1>2, <3>2
    <3> QED  BY <2>1, <3>1, <3>3
  <2>2. CASE ~(k <= Len(s) - m)
    <3>1. k - Len(u) \in 1..m
      BY <1>1, <1>3, <2>2
    <3>2. t[k] = e[k - Len(u)]
      BY <1>0, <1>1, <1>2, <1>3, <2>2
    <3> QED  BY <1>0, <3>1, <3>2, <2>2
  <2> QED  BY <2>1, <2>2
<1> QED  BY <1>2, <1>4, <1>5 DEF t, u, EndsInPads

(* Padding makes it the text of the whole string.                          *)
LEMMA PaddedIsText ==
  ASSUME NEW n \in Nat, data \in Seq(Byte), base64 \in Seq(Char),
         Encodes(data, base64, n), Groups(data, n)
  PROVE  Padded(base64) \in Seq(Char) /\ IsText(data, Padded(base64), n)
<1> DEFINE t == Padded(base64)
           L == Len(data)
           m == (3 * n) - L
<1>1. L \in Nat /\ Len(base64) \in Nat /\ Len(base64) = 4 * n /\ m \in 0..2 /\ L = (3 * n) - m
  <2>1. L \in Nat /\ Len(base64) \in Nat
    BY LenProperties
  <2>2. Len(base64) = 4 * n
    BY DEF Encodes
  <2> QED  BY <2>1, <2>2 DEF Groups
<1>0. L = Len(data) /\ m = (3 * n) - L /\ Significant(data, n) = n + L
  BY DEF Significant
<1> HIDE DEF L, m
<1>2. /\ m = 0 => L % 3 = 0
      /\ m = 1 => L % 3 = 2
      /\ m = 2 => L % 3 = 1
  BY <1>1
<1>3. m > 0 => m <= Len(base64)
  BY <1>1
<1>4. /\ t \in Seq(Char)
      /\ Len(t) = 4 * n
      /\ \A k \in 1..(4 * n) : t[k] = IF k <= (4 * n) - m THEN base64[k] ELSE Pad
  <2>1. CASE m = 0
    <3>1. t = base64
      BY <1>0, <1>2, <2>1 DEF Padded
    <3> QED  BY <1>1, <2>1, <3>1
  <2>2. CASE m = 1
    <3>1. t = SubSeq(base64, 1, Len(base64) - m) \o <<Pad>>
      BY <1>0, <1>2, <2>2 DEF Padded
    <3>2. <<Pad>> \in Seq(Char) /\ Len(<<Pad>>) = m /\ \A k \in 1..m : <<Pad>>[k] = Pad
      BY <2>2 DEF Pad, Char
    <3> DEFINE e == <<Pad>>
    <3> HIDE DEF e, t
    <3>3. m \in 1..2 /\ m <= Len(base64)
      BY <2>2, <1>3
    <3>4. t = SubSeq(base64, 1, Len(base64) - m) \o e /\ Pads(e, m)
      BY <3>1, <3>2 DEF e, Pads
    <3>5. EndsInPads(t, base64, m)
      BY <3>3, <3>4, <1>1, EndIsReplaced
    <3> QED  BY <1>1, <3>5 DEF EndsInPads
  <2>3. CASE m = 2
    <3>0. Len(data) % 3 = 1 /\ Len(data) % 3 # 2
      BY <1>0, <1>2, <2>3
    <3>1. t = SubSeq(base64, 1, Len(base64) - m) \o <<Pad, Pad>>
      BY <3>0, <2>3, Zenon DEF Padded
    <3>2. <<Pad, Pad>> \in Seq(Char) /\ Len(<<Pad, Pad>>) = m /\ \A k \in 1..m : <<Pad, Pad>>[k] = Pad
      BY <2>3 DEF Pad, Char
    <3> DEFINE e == <<Pad, Pad>>
    <3> HIDE DEF e, t
    <3>3. m \in 1..2 /\ m <= Len(base64)
      BY <2>3, <1>3
    <3>4. t = SubSeq(base64, 1, Len(base64) - m) \o e /\ Pads(e, m)
      BY <3>1, <3>2 DEF e, Pads
    <3>5. EndsInPads(t, base64, m)
      BY <3>3, <3>4, <1>1, EndIsReplaced
    <3> QED  BY <1>1, <3>5 DEF EndsInPads
  <2> QED  BY <1>1, <2>1, <2>2, <2>3
<1> HIDE DEF t
<1>5. Significant(data, n) = (4 * n) - m
  BY <1>0, <1>1
<1>6. ASSUME NEW h \in 0..(n - 1), NEW j \in 1..4, (4 * h) + j <= Significant(data, n)
      PROVE  t[(4 * h) + j] = Four(data, h)[j]
  <2>1. (4 * h) + j \in 1..(4 * n)
    OBVIOUS
  <2>2. t[(4 * h) + j] = base64[(4 * h) + j]
    BY <1>4, <1>5, <1>6, <2>1
  <2> QED  BY <2>2 DEF Encodes
<1>7. \A k \in 1..Len(t) : k > Significant(data, n) => t[k] = Pad
  BY <1>1, <1>4, <1>5
<1>8. Significant(data, n) <= Len(t) /\ Len(t) <= 4 * n
  BY <1>1, <1>4, <1>5
<1>9. IsText(data, t, n)
  BY <1>6, <1>7, <1>8 DEF IsText
<1> QED  BY <1>4, <1>9 DEF t

(* It stays that when a pad is dropped.                                    *)
LEMMA UnpaddedIsText ==
  ASSUME NEW n \in Nat, data \in Seq(Byte), base64 \in Seq(Char),
         IsText(data, base64, n), base64 # <<>>, base64[Len(base64)] = Pad
  PROVE  /\ SubSeq(base64, 1, Len(base64) - 1) \in Seq(Char)
         /\ IsText(data, SubSeq(base64, 1, Len(base64) - 1), n)
<1> DEFINE l == Len(base64)
           t == SubSeq(base64, 1, l - 1)
<1>1. l \in Nat /\ l > 0 /\ Len(data) \in Nat
  BY LenProperties, EmptySeq
<1>2. /\ t \in Seq(Char)
      /\ Len(t) = l - 1
      /\ \A k \in 1..(l - 1) : t[k] = base64[k]
  <2>1. \A k \in 1..(l - 1) : base64[k] \in Char
    BY ElementOfSeq, <1>1
  <2>2. 1 \in Int /\ l - 1 \in Int /\ (l - 1) - 1 + 1 = l - 1
    BY <1>1
  <2> QED  BY <2>1, <2>2, <1>1, SubSeqProperties
<1> HIDE DEF t
<1>3. Significant(data, n) \in Nat /\ Significant(data, n) <= l /\ l <= 4 * n
  BY <1>1 DEF IsText, Significant
<1>4. Significant(data, n) # l
  <2> SUFFICES ASSUME Significant(data, n) = l  PROVE FALSE
    OBVIOUS
  <2> DEFINE h == (l - 1) \div 4
             j == l - (4 * h)
  <2>1. h \in 0..(n - 1) /\ j \in 1..4 /\ (4 * h) + j = l
    BY <1>1, <1>3
  <2> HIDE DEF h, j
  <2>2. base64[(4 * h) + j] = Four(data, h)[j]
    BY <2>1, <1>3 DEF IsText
  <2>3. Four(data, h)[j] \in Sextet
    BY <2>1, FourAreSextets
  <2>4. base64[l] = Four(data, h)[j]
    BY <2>1, <2>2
  <2>5. Pad \notin Sextet
    BY DEF Sextet, Pad
  <2> QED  BY <2>3, <2>4, <2>5, Zenon
<1>5. Significant(data, n) <= Len(t) /\ Len(t) <= 4 * n
  BY <1>1, <1>2, <1>3, <1>4
<1>6. ASSUME NEW h \in 0..(n - 1), NEW j \in 1..4, (4 * h) + j <= Significant(data, n)
      PROVE  t[(4 * h) + j] = Four(data, h)[j]
  <2>1. (4 * h) + j \in 1..(l - 1)
    BY <1>1, <1>2, <1>3, <1>5, <1>6
  <2>2. t[(4 * h) + j] = base64[(4 * h) + j]
    BY <1>2, <2>1
  <2> QED  BY <2>2, <1>6 DEF IsText
<1>7. \A k \in 1..Len(t) : k > Significant(data, n) => t[k] = Pad
  BY <1>1, <1>2 DEF IsText
<1>8. Groups(data, n)
  BY DEF IsText
<1>9. IsText(data, t, n)
  BY <1>5, <1>6, <1>7, <1>8 DEF IsText
<1> QED  BY <1>2, <1>9 DEF t


-----------------------------------------------------------------------------
(* What the reading loop sees of a text: the groups themselves, a pad or   *)
(* the end of the text where the bits are 0 anyway.                        *)
LEMMA SextetsAreGroups ==
  ASSUME NEW n \in Nat, data \in Seq(Byte), base64 \in Seq(Char),
         IsText(data, base64, n), NEW h \in 0..(n - 1), NEW j \in 1..4
  PROVE  SextetAt((4 * h) + j - 1) = Four(data, h)[j]
<1> DEFINE k == (4 * h) + j
           l == Len(base64)
           L == Len(data)
           q == Four(data, h)[j]
<1>1. l \in Nat /\ L \in Nat /\ k \in 1..(4 * n) /\ L <= 3 * n /\ (3 * n) - 3 < L
  BY LenProperties DEF IsText, Groups
<1>2. q \in Sextet
  BY FourAreSextets
<1>3. CASE k <= n + L
  <2>1. n + L <= l
    BY DEF IsText, Significant
  <2>2. base64[k] = q
    BY <1>3 DEF IsText, Significant
  <2> HIDE DEF q
  <2>3. k - 1 < l /\ (k - 1) + 1 = k
    BY <1>1, <1>3, <2>1
  <2> HIDE DEF k, l
  <2>4. SextetAt(k - 1) = Lookup(base64[k])
    BY <2>3 DEF SextetAt, l
  <2> QED  BY <1>2, <2>2, <2>4 DEF Lookup, k, q
<1>4. CASE ~(k <= n + L)
  <2>1. q = 0
    <3>1. h = n - 1 /\ j \in 3..4 /\ (j = 3 => L <= (3 * h) + 1) /\ L <= (3 * h) + 2
      BY <1>1, <1>4
    <3>2. At(data, (3 * h) + 2) = 0
      BY <1>1, <3>1 DEF At
    <3>3. j = 3 => At(data, (3 * h) + 1) = 0
      BY <1>1, <3>1 DEF At
    <3> DEFINE a == At(data, 3 * h)
               b == At(data, (3 * h) + 1)
               c == At(data, (3 * h) + 2)
    <3>4. Four(data, h) = FourChars(a, b, c)
      BY DEF Four
    <3>5. c = 0 /\ (j = 3 => b = 0)
      BY <3>2, <3>3
    <3> HIDE DEF a, b, c
    <3>6. FourChars(a, b, c)[3] = ((b % 16) * 4) + (c \div 64) /\ FourChars(a, b, c)[4] = c % 64
      BY DEF FourChars
    <3>7. CASE j = 3
      BY <3>4, <3>5, <3>6, <3>7
    <3>8. CASE j = 4
      BY <3>4, <3>5, <3>6, <3>8
    <3> QED  BY <3>1, <3>7, <3>8
  <2>2. SextetAt(k - 1) = 0
    <3>1. CASE k <= l
      <4>1. k \in 1..l /\ k - 1 < l /\ (k - 1) + 1 = k
        BY <1>1, <3>1
      <4>2. base64[k] = Pad
        BY <1>4, <4>1 DEF IsText, Significant
      <4> HIDE DEF k
      <4>3. SextetAt(k - 1) = Lookup(base64[k])
        BY <4>1 DEF SextetAt
      <4> QED  BY <4>2, <4>3 DEF Lookup, Pad, Sextet
    <3>2. CASE ~(k <= l)
      <4>1. ~(k - 1 < l)
        BY <1>1, <3>2
      <4> HIDE DEF k
      <4> QED  BY <4>1 DEF SextetAt
    <3> QED  BY <3>1, <3>2
  <2> QED  BY <2>1, <2>2
<1> QED  BY <1>3, <1>4

(* The buffer has room for the bytes and no more.                          *)
LEMMA BufferFits ==
  ASSUME NEW n \in Nat, data \in Seq(Byte), base64 \in Seq(Char),
         IsText(data, base64, n)
  PROVE  BufferLength = Len(data)
<1> DEFINE l == Len(base64)
           L == Len(data)
<1>1. l \in Nat /\ L \in Nat /\ L <= 3 * n /\ (3 * n) - 3 < L /\ n + L <= l /\ l <= 4 * n
  BY LenProperties DEF IsText, Groups, Significant
<1>2. ASSUME NEW k \in 1..l, k > n + L
      PROVE  base64[k] = Pad
  BY <1>2 DEF IsText, Significant
<1>3. ASSUME NEW k \in 1..l, k <= n + L
      PROVE  base64[k] # Pad
  <2> DEFINE h == (k - 1) \div 4
             j == k - (4 * h)
  <2>1. h \in 0..(n - 1) /\ j \in 1..4 /\ (4 * h) + j = k
    BY <1>1, <1>3
  <2> HIDE DEF h, j
  <2>2. base64[(4 * h) + j] = Four(data, h)[j]
    BY <1>3, <2>1 DEF IsText, Significant
  <2>3. Four(data, h)[j] \in Sextet
    BY <2>1, FourAreSextets
  <2>4. Pad \notin Sextet
    BY DEF Sextet, Pad
  <2> QED  BY <2>1, <2>2, <2>3, <2>4
<1> DEFINE pads == IF l > 0 /\ base64[l] = Pad
                   THEN IF l > 1 /\ base64[l - 1] = Pad THEN 2 ELSE 1
                   ELSE 0
           quarters == (3 * l) - (4 * pads)
<1>4. BufferLength = IF quarters < 0 THEN 0 ELSE quarters \div 4
  BY DEF BufferLength
<1>5. pads = l - (n + L)
  <2>1. CASE l = n + L
    <3>1. l > 0 => base64[l] # Pad
      BY <1>1, <1>3, <2>1
    <3> HIDE DEF L
    <3>2. pads = 0
      BY <3>1
    <3> QED  BY <2>1, <3>2, <1>1
  <2>2. CASE l = n + L + 1
    <3>1. l > 0 /\ base64[l] = Pad
      BY <1>1, <1>2, <2>2
    <3>2. l > 1 => base64[l - 1] # Pad
      BY <1>1, <1>3, <2>2
    <3>3. pads = 1
      BY <3>1, <3>2
    <3> QED  BY <2>2, <3>3, <1>1
  <2>3. CASE l = n + L + 2
    <3>1. l > 1 /\ base64[l] = Pad /\ base64[l - 1] = Pad
      BY <1>1, <1>2, <2>3
    <3>2. pads = 2
      BY <3>1, <1>1
    <3> QED  BY <2>3, <3>2, <1>1
  <2> QED  BY <1>1, <2>1, <2>2, <2>3
<1> HIDE DEF pads, l, L
<1>6. quarters = (4 * (n + L)) - l
  BY <1>1, <1>5
<1>7. 0 <= quarters /\ quarters \div 4 = L
  <2>1. 4 * L <= quarters /\ quarters <= (4 * L) + 3
    BY <1>1, <1>6
  <2>2. quarters \in Int
    BY <1>1, <1>6
  <2> HIDE DEF quarters
  <2> QED  BY <1>1, <2>1, <2>2
<1> QED  BY <1>4, <1>6, <1>7, <1>1 DEF L


-----------------------------------------------------------------------------
(* What each phase of a route has done: g turns of its loop.               *)
Writing ==
  \E g \in Nat :
    /\ i = 3 * g /\ (3 * g) - 3 < Len(data)
    /\ Encodes(data, base64, g)

HasText == \E n \in Nat : IsText(data, base64, n)

Reading ==
  \E g \in Nat :
    /\ i = 4 * g /\ p = 3 * g
    /\ Len(bytes) = Len(data)
    /\ \A k \in 1..Len(data) : k <= 3 * g => bytes[k] = data[k]

IInv ==
  /\ TypeOK
  /\ route = "bytes" =>
       /\ pc = "write" => Writing
       /\ pc = "text" => HasText
       /\ pc = "read" => HasText /\ Reading
       /\ pc = "done" => bytes = data
       /\ pc # "hash"
  /\ pc = "write" => route = "bytes"

LEMMA InitIInv == Init => IInv
<1> SUFFICES ASSUME Init  PROVE IInv
  OBVIOUS
<1>1. TypeOK
  <2>1. base64 \in Seq(Char)
    <3>1. base64 = <<>> \/ base64 \in Texts
      BY DEF Init
    <3>2. <<>> \in Seq(Char)
      OBVIOUS
    <3> QED  BY <3>1, <3>2, TextsAssumption
  <2>2. data \in Seq(Byte)
    <3>1. data = <<>> \/ data \in Data
      BY DEF Init
    <3>2. <<>> \in Seq(Byte)
      OBVIOUS
    <3> QED  BY <3>1, <3>2, DataAssumption
  <2>3. bytes \in Seq(Byte)
    BY DEF Init
  <2>4. route \in {"bytes", "digest", "text"} /\ pc \in {"write", "hash", "text", "read", "done"} /\ i = 0 /\ p = 0
    BY DEF Init
  <2> QED  BY <2>1, <2>2, <2>3, <2>4 DEF TypeOK
<1>2. route = "bytes" <=> pc = "write"
  BY DEF Init
<1>3. route = "bytes" => Writing
  <2> SUFFICES ASSUME route = "bytes"  PROVE Writing
    OBVIOUS
  <2>1. data \in Seq(Byte) /\ base64 = <<>> /\ i = 0
    BY <1>1 DEF Init, TypeOK
  <2>2. Len(data) \in Nat
    BY <2>1, LenProperties
  <2>3. Len(base64) = 0
    BY <2>1
  <2>4. Encodes(data, base64, 0)
    BY <2>3 DEF Encodes
  <2>5. i = 3 * 0 /\ (3 * 0) - 3 < Len(data)
    BY <2>1, <2>2
  <2> QED  BY <2>4, <2>5 DEF Writing
<1> QED  BY <1>1, <1>2, <1>3 DEF IInv

(* One action of the loops at a time.                                      *)
LEMMA WriteKeeps == IInv /\ WriteGroup => IInv'
<1> SUFFICES ASSUME IInv, WriteGroup  PROVE IInv'
  OBVIOUS
<1>1. /\ data \in Seq(Byte) /\ base64 \in Seq(Char) /\ i \in Nat /\ i < Len(data)
      /\ pc = "write" /\ Len(data) \in Nat
  BY LenProperties DEF IInv, TypeOK, WriteGroup
<1>2. ByteAt(i) = At(data, i) /\ ByteAt(i + 1) = At(data, i + 1) /\ ByteAt(i + 2) = At(data, i + 2)
  BY DEF ByteAt, At
<1> DEFINE q == FourChars(At(data, i), At(data, i + 1), At(data, i + 2))
<1>3. base64' = base64 \o q /\ i' = i + 3
  BY <1>2 DEF WriteGroup
<1>4. UNCHANGED <<route, data, pc, p, bytes>>
  BY DEF WriteGroup
<1>5. q \in Seq(Char)
  <2>1. /\ At(data, i) \in Byte /\ At(data, i + 1) \in Byte /\ At(data, i + 2) \in Byte
    BY <1>1, AtIsByte
  <2> DEFINE a == At(data, i)
             b == At(data, i + 1)
             c == At(data, i + 2)
  <2> HIDE DEF a, b, c
  <2>2. FourChars(a, b, c) \in Seq(Sextet)
    BY <2>1, GroupIsSextets DEF FourChars, a, b, c
  <2>3. Sextet \subseteq Char
    BY DEF Sextet, Char
  <2> QED  BY <2>2, <2>3 DEF a, b, c
<1>6. base64 \o q \in Seq(Char)
  BY <1>1, <1>5, ConcatProperties
<1> HIDE DEF q
<1>7. TypeOK'
  BY <1>1, <1>3, <1>4, <1>6 DEF IInv, TypeOK
<1>8. ASSUME route = "bytes"  PROVE Writing'
  <2>1. PICK g \in Nat : i = 3 * g /\ Encodes(data, base64, g)
    BY <1>1, <1>8 DEF IInv, Writing
  <2>2. q = Four(data, g)
    BY <2>1 DEF q, Four
  <2>3. Encodes(data, base64 \o q, g + 1)
    BY <1>1, <2>1, <2>2, GroupIsAdded
  <2>4. Encodes(data', base64', g + 1)
    BY <1>3, <1>4, <2>3
  <2>5. i' = 3 * (g + 1) /\ (3 * (g + 1)) - 3 < Len(data') /\ g + 1 \in Nat
    BY <1>1, <1>3, <1>4, <2>1
  <2> QED  BY <2>4, <2>5 DEF Writing
<1> QED  BY <1>1, <1>4, <1>7, <1>8 DEF IInv

LEMMA WrittenKeeps == IInv /\ Written => IInv'
<1> SUFFICES ASSUME IInv, Written  PROVE IInv'
  OBVIOUS
<1>1. /\ data \in Seq(Byte) /\ base64 \in Seq(Char) /\ i \in Nat /\ i >= Len(data)
      /\ pc = "write" /\ Len(data) \in Nat /\ route \in {"bytes", "digest", "text"}
  BY LenProperties DEF IInv, TypeOK, Written
<1>2. base64' = Padded(base64) /\ pc' = "text" /\ UNCHANGED <<route, data, i, p, bytes>>
  BY DEF Written
<1>3. ASSUME route = "bytes"
      PROVE  base64' \in Seq(Char) /\ HasText'
  <2>1. PICK n \in Nat : i = 3 * n /\ (3 * n) - 3 < Len(data) /\ Encodes(data, base64, n)
    BY <1>1, <1>3 DEF IInv, Writing
  <2>2. Groups(data, n)
    BY <1>1, <2>1 DEF Groups
  <2>3. Padded(base64) \in Seq(Char) /\ IsText(data, Padded(base64), n)
    BY <1>1, <2>1, <2>2, PaddedIsText
  <2>4. IsText(data', base64', n)
    BY <1>2, <2>3
  <2> QED  BY <1>2, <2>3, <2>4 DEF HasText
<1>4. route = "bytes"
  BY <1>1 DEF IInv
<1> QED  BY <1>1, <1>2, <1>3, <1>4 DEF IInv, TypeOK


LEMMA UnpaddedKeeps == IInv /\ Unpadded => IInv'
<1> SUFFICES ASSUME IInv, Unpadded  PROVE IInv'
  OBVIOUS
<1>1. /\ data \in Seq(Byte) /\ base64 \in Seq(Char) /\ base64 # <<>> /\ base64[Len(base64)] = Pad
      /\ pc = "text" /\ route = "bytes"
  BY DEF IInv, TypeOK, Unpadded
<1>2. base64' = SubSeq(base64, 1, Len(base64) - 1) /\ UNCHANGED <<route, data, pc, i, p, bytes>>
  BY DEF Unpadded
<1>3. PICK n \in Nat : IsText(data, base64, n)
  BY <1>1 DEF IInv, HasText
<1>4. base64' \in Seq(Char) /\ IsText(data, base64', n)
  BY <1>1, <1>2, <1>3, UnpaddedIsText
<1>5. HasText'
  BY <1>2, <1>4 DEF HasText
<1> QED  BY <1>1, <1>2, <1>4, <1>5 DEF IInv, TypeOK

LEMMA StartKeeps == IInv /\ StartReading => IInv'
<1> SUFFICES ASSUME IInv, StartReading  PROVE IInv'
  OBVIOUS
<1>1. data \in Seq(Byte) /\ base64 \in Seq(Char) /\ pc = "text" /\ Len(base64) \in Nat
  BY LenProperties DEF IInv, TypeOK, StartReading
<1>2. /\ bytes' = [k \in 1..BufferLength |-> 0] /\ i' = 0 /\ p' = 0 /\ pc' = "read"
      /\ UNCHANGED <<route, data, base64>>
  BY DEF StartReading
<1>3. BufferLength \in Nat
  BY <1>1 DEF BufferLength
<1>4. bytes' \in Seq(Byte) /\ Len(bytes') = BufferLength
  BY <1>2, <1>3 DEF Byte
<1>5. ASSUME route = "bytes"  PROVE HasText' /\ Reading'
  <2>1. PICK n \in Nat : IsText(data, base64, n)
    BY <1>1, <1>5 DEF IInv, HasText
  <2>2. BufferLength = Len(data)
    BY <1>1, <2>1, BufferFits
  <2>3. HasText'
    BY <1>2, <2>1 DEF HasText
  <2>4. i' = 4 * 0 /\ p' = 3 * 0 /\ Len(bytes') = Len(data')
    BY <1>2, <1>4, <2>2
  <2>5. \A k \in 1..Len(data') : k <= 3 * 0 => bytes'[k] = data'[k]
    OBVIOUS
  <2> QED  BY <2>3, <2>4, <2>5 DEF Reading
<1>6. TypeOK'
  BY <1>1, <1>2, <1>4 DEF IInv, TypeOK
<1> QED  BY <1>2, <1>5, <1>6 DEF IInv

(* The three bytes of a turn are bytes, whatever the text.                 *)
LEMMA ReadTypes == IInv /\ ReadGroup => TypeOK'
<1> SUFFICES ASSUME IInv, ReadGroup  PROVE TypeOK'
  OBVIOUS
<1> DEFINE three == ThreeBytes(SextetAt(i), SextetAt(i + 1), SextetAt(i + 2), SextetAt(i + 3))
<1>1. /\ bytes \in Seq(Byte) /\ i \in Nat /\ p \in Nat
  BY DEF IInv, TypeOK
<1>2. \A k \in Int : SextetAt(k) \in Sextet
  BY DEF SextetAt, Lookup, Sextet
<1>3. \A k \in 1..3 : three[k] \in Byte
  <2> DEFINE d == SextetAt(i)
             e == SextetAt(i + 1)
             f == SextetAt(i + 2)
             g == SextetAt(i + 3)
  <2>1. d \in Sextet /\ e \in Sextet /\ f \in Sextet /\ g \in Sextet
    BY <1>1, <1>2
  <2> HIDE DEF d, e, f, g
  <2>2. \A k \in 1..3 : ThreeBytes(d, e, f, g)[k] \in Byte
    BY <2>1, ThreeAreBytes DEF ThreeBytes
  <2> QED  BY <2>2 DEF d, e, f, g
<1> HIDE DEF three
<1>4. bytes' = [k \in DOMAIN bytes |-> IF k - p \in 1..3 THEN three[k - p] ELSE bytes[k]]
  BY DEF ReadGroup, three
<1>5. bytes' \in Seq(Byte)
  BY <1>1, <1>3, <1>4
<1> QED  BY <1>1, <1>5 DEF IInv, TypeOK, ReadGroup

LEMMA ReadKeeps == IInv /\ ReadGroup => IInv'
<1> SUFFICES ASSUME IInv, ReadGroup  PROVE IInv'
  OBVIOUS
<1>0. TypeOK'
  BY ReadTypes
<1>1. /\ data \in Seq(Byte) /\ base64 \in Seq(Char) /\ bytes \in Seq(Byte)
      /\ i < Len(base64) /\ pc = "read" /\ Len(data) \in Nat /\ Len(base64) \in Nat
  BY LenProperties DEF IInv, TypeOK, ReadGroup
<1>2. i' = i + 4 /\ p' = p + 3 /\ UNCHANGED <<route, data, pc, base64>>
  BY DEF ReadGroup
<1>3. ASSUME route = "bytes"  PROVE HasText' /\ Reading'
  <2>1. PICK n \in Nat : IsText(data, base64, n)
    BY <1>1, <1>3 DEF IInv, HasText
  <2>2. PICK g \in Nat : /\ i = 4 * g /\ p = 3 * g
                         /\ Len(bytes) = Len(data)
                         /\ \A k \in 1..Len(data) : k <= 3 * g => bytes[k] = data[k]
    BY <1>1, <1>3 DEF IInv, Reading
  <2>3. g \in 0..(n - 1)
    BY <1>1, <2>1, <2>2 DEF IsText
  <2> DEFINE q == Four(data, g)
  <2>4. /\ SextetAt((4 * g) + 1 - 1) = q[1] /\ SextetAt((4 * g) + 2 - 1) = q[2]
        /\ SextetAt((4 * g) + 3 - 1) = q[3] /\ SextetAt((4 * g) + 4 - 1) = q[4]
    BY <1>1, <2>1, <2>3, SextetsAreGroups
  <2>5. /\ (4 * g) + 1 - 1 = i /\ (4 * g) + 2 - 1 = i + 1
        /\ (4 * g) + 3 - 1 = i + 2 /\ (4 * g) + 4 - 1 = i + 3
    BY <2>2
  <2>6. ThreeBytes(q[1], q[2], q[3], q[4])
          = <<At(data, 3 * g), At(data, (3 * g) + 1), At(data, (3 * g) + 2)>>
    BY <1>1, GroupIsRead
  <2> DEFINE three == <<At(data, 3 * g), At(data, (3 * g) + 1), At(data, (3 * g) + 2)>>
  <2> HIDE DEF q
  <2>7. ThreeBytes(SextetAt(i), SextetAt(i + 1), SextetAt(i + 2), SextetAt(i + 3)) = three
    BY <2>4, <2>5, <2>6
  <2>8. bytes' = [k \in DOMAIN bytes |-> IF k - p \in 1..3 THEN three[k - p] ELSE bytes[k]]
    BY <2>7 DEF ReadGroup
  <2>9. Len(bytes') = Len(data)
    BY <1>1, <2>2, <2>8
  <2>10. ASSUME NEW k \in 1..Len(data), k <= 3 * (g + 1)
         PROVE  bytes'[k] = data[k]
    <3>1. bytes'[k] = IF k - p \in 1..3 THEN three[k - p] ELSE bytes[k]
      BY <1>1, <2>2, <2>8
    <3>2. CASE k <= 3 * g
      BY <2>2, <3>1, <3>2
    <3>3. CASE ~(k <= 3 * g)
      <4>1. k - p \in 1..3
        BY <2>2, <2>10, <3>3
      <4>2. three[k - p] = At(data, k - 1)
        BY <2>2, <4>1
      <4>3. At(data, k - 1) = data[k]
        BY <1>1 DEF At
      <4> QED  BY <3>1, <4>1, <4>2, <4>3
    <3> QED  BY <3>2, <3>3
  <2>11. HasText'
    BY <1>2, <2>1 DEF HasText
  <2>12. i' = 4 * (g + 1) /\ p' = 3 * (g + 1) /\ g + 1 \in Nat
    BY <1>2, <2>2
  <2>13. Reading'
    BY <1>2, <2>9, <2>10, <2>12 DEF Reading
  <2> QED  BY <2>11, <2>13
<1> QED  BY <1>0, <1>1, <1>2, <1>3 DEF IInv

LEMMA HasReadKeeps == IInv /\ HasRead => IInv'
<1> SUFFICES ASSUME IInv, HasRead  PROVE IInv'
  OBVIOUS
<1>1. /\ data \in Seq(Byte) /\ base64 \in Seq(Char) /\ bytes \in Seq(Byte)
      /\ i >= Len(base64) /\ pc = "read" /\ Len(data) \in Nat /\ Len(base64) \in Nat
  BY LenProperties DEF IInv, TypeOK, HasRead
<1>2. pc' = "done" /\ UNCHANGED <<route, data, i, p, base64, bytes>>
  BY DEF HasRead
<1>3. ASSUME route = "bytes"  PROVE bytes = data
  <2>1. PICK n \in Nat : IsText(data, base64, n)
    BY <1>1, <1>3 DEF IInv, HasText
  <2>2. PICK g \in Nat : /\ i = 4 * g
                         /\ Len(bytes) = Len(data)
                         /\ \A k \in 1..Len(data) : k <= 3 * g => bytes[k] = data[k]
    BY <1>1, <1>3 DEF IInv, Reading
  <2>3. Len(data) <= 3 * n /\ (3 * n) - 3 < Len(data) /\ n + Len(data) <= Len(base64)
    BY <2>1 DEF IsText, Groups, Significant
  <2>4. Len(data) <= 3 * g
    BY <1>1, <2>2, <2>3
  <2>5. \A k \in 1..Len(data) : bytes[k] = data[k]
    BY <1>1, <2>2, <2>4
  <2> QED  BY <1>1, <2>2, <2>5, SeqEqual
<1>4. TypeOK'
  BY <1>2 DEF IInv, TypeOK
<1> QED  BY <1>2, <1>3, <1>4 DEF IInv

LEMMA DigestKeeps == IInv /\ Digest => IInv'
<1> SUFFICES ASSUME IInv, Digest  PROVE IInv'
  OBVIOUS
<1>1. pc = "hash" /\ pc' = "done" /\ UNCHANGED <<route, data, i, p, bytes>>
  BY DEF Digest
<1>2. data \in Seq(Byte) /\ Len(data) \in Nat
  BY LenProperties DEF IInv, TypeOK
<1> DEFINE len == 4 * ((Len(data) + 2) \div 3)
<1>3. len \in Nat
  BY <1>2
<1>4. \A k \in Nat : RfcChar(k) \in Sextet
  <2> SUFFICES ASSUME NEW k \in Nat  PROVE RfcChar(k) \in Sextet
    OBVIOUS
  <2> DEFINE g == 3 * (k \div 4)
             v == (ByteAt(g) * 256 + ByteAt(g + 1)) * 256 + ByteAt(g + 2)
             place == <<262144, 4096, 64, 1>>[(k % 4) + 1]
  <2>1. \A h \in Nat : ByteAt(h) \in Byte
    BY <1>2, AtIsByte DEF ByteAt, At
  <2>2. g \in Nat
    OBVIOUS
  <2>3. ByteAt(g) \in Nat /\ ByteAt(g + 1) \in Nat /\ ByteAt(g + 2) \in Nat
    BY <2>1, <2>2 DEF Byte
  <2>4. v \in Nat
    BY <2>3
  <2>5. place \in {262144, 4096, 64, 1}
    BY k % 4 \in 0..3
  <2>6. RfcChar(k) = (v \div place) % 64
    BY DEF RfcChar
  <2> HIDE DEF v, place
  <2>7. v \div place \in Nat
    BY <2>4, <2>5
  <2> QED  BY <2>6, <2>7 DEF Sextet
<1>5. RfcText \in [1..len -> Sextet \cup {Pad}]
  BY <1>3, <1>4 DEF RfcText
<1>6. \A c \in Sextet \cup {Pad} : UrlSafe(Standard(c)) \in Char
  BY DEF Sextet, Pad, Plus, Slash, Char, Standard, UrlSafe
<1> HIDE DEF len
<1>7. base64' \in [1..len -> Char]
  BY <1>5, <1>6 DEF Digest
<1>8. base64' \in Seq(Char)
  BY <1>3, <1>7
<1>9. TypeOK'
  BY <1>1, <1>8 DEF IInv, TypeOK
<1> QED  BY <1>1, <1>9 DEF IInv

-----------------------------------------------------------------------------
THEOREM Invariance == Spec => []IInv
<1>1. IInv /\ [Next]_vars => IInv'
  <2> SUFFICES ASSUME IInv, [Next]_vars  PROVE IInv'
    OBVIOUS
  <2>1. CASE WriteGroup
    BY <2>1, WriteKeeps
  <2>2. CASE Written
    BY <2>2, WrittenKeeps
  <2>3. CASE Unpadded
    BY <2>3, UnpaddedKeeps
  <2>4. CASE Digest
    BY <2>4, DigestKeeps
  <2>5. CASE StartReading
    BY <2>5, StartKeeps
  <2>6. CASE ReadGroup
    BY <2>6, ReadKeeps
  <2>7. CASE HasRead
    BY <2>7, HasReadKeeps
  <2>8. CASE UNCHANGED vars
    <3>1. UNCHANGED <<route, data, pc, i, p, base64, bytes>>
      BY <2>8 DEF vars
    <3>2. /\ TypeOK' = TypeOK /\ Writing' = Writing /\ HasText' = HasText /\ Reading' = Reading
      BY <3>1 DEF TypeOK, Writing, HasText, Reading
    <3> QED  BY <3>1, <3>2 DEF IInv
  <2> QED  BY <2>1, <2>2, <2>3, <2>4, <2>5, <2>6, <2>7, <2>8 DEF Next
<1> QED  BY <1>1, InitIInv, PTL DEF Spec

(* The indices, the text and the buffer keep their types, for any text.    *)
THEOREM TypeCorrect == Spec => []TypeOK
<1>1. IInv => TypeOK
  BY DEF IInv
<1> QED  BY <1>1, Invariance, PTL

(* What dark_arrayBuffer_to_padded_b64url writes, its reader reads back,   *)
(* for byte strings of any length, with all of the padding or less.        *)
THEOREM WhatIsWrittenIsRead == Spec => []RoundTrip
<1>1. IInv => RoundTrip
  BY DEF IInv, RoundTrip
<1> QED  BY <1>1, Invariance, PTL

-----------------------------------------------------------------------------
(* RFC 4648 takes the digits of one number where the loops shift and mask  *)
(* two at a time: the same, group by group.                                *)
LEMMA DigitsOfBytes ==
  ASSUME NEW a \in Byte, NEW b \in Byte, NEW c \in Byte,
         NEW v, v = (a * 256 + b) * 256 + c
  PROVE  /\ (v \div 262144) % 64 = a \div 4
         /\ (v \div 4096) % 64 = ((a % 4) * 16) + (b \div 16)
         /\ (v \div 64) % 64 = ((b % 16) * 4) + (c \div 64)
         /\ (v \div 1) % 64 = c % 64
<1>1. v = (a * 65536) + (b * 256) + c /\ a \in 0..255 /\ b \in 0..255 /\ c \in 0..255
  BY DEF Byte
<1>2. v \div 262144 = a \div 4
  BY <1>1
<1>3. v \div 4096 = (a * 16) + (b \div 16)
  BY <1>1
<1>4. v \div 64 = (a * 1024) + (b * 4) + (c \div 64)
  BY <1>1
<1>5. (a \div 4) % 64 = a \div 4
  BY <1>1
<1>6. ((a * 16) + (b \div 16)) % 64 = ((a % 4) * 16) + (b \div 16)
  BY <1>1
<1>7. ((a * 1024) + (b * 4) + (c \div 64)) % 64 = ((b % 16) * 4) + (c \div 64)
  BY <1>1
<1>8. (v \div 1) % 64 = c % 64
  BY <1>1
<1> QED  BY <1>2, <1>3, <1>4, <1>5, <1>6, <1>7, <1>8

LEMMA DigitsOfSextets ==
  ASSUME NEW d \in Sextet, NEW e \in Sextet, NEW f \in Sextet, NEW g \in Sextet,
         NEW v, v = ((d * 64 + e) * 64 + f) * 64 + g
  PROVE  /\ (v \div 65536) % 256 = ((d * 4) + (e \div 16)) % 256
         /\ (v \div 256) % 256 = ((e % 16) * 16) + (f \div 4)
         /\ (v \div 1) % 256 = ((f % 4) * 64) + (g % 64)
<1>1. /\ v = (d * 262144) + (e * 4096) + (f * 64) + g
      /\ d \in 0..63 /\ e \in 0..63 /\ f \in 0..63 /\ g \in 0..63
  BY DEF Sextet
<1>2. v \div 65536 = (d * 4) + (e \div 16)
  BY <1>1
<1>3. v \div 256 = (d * 1024) + (e * 16) + (f \div 4)
  BY <1>1
<1>4. ((d * 1024) + (e * 16) + (f \div 4)) % 256 = ((e % 16) * 16) + (f \div 4)
  BY <1>1
<1>5. (v \div 1) % 256 = ((f % 4) * 64) + (g % 64)
  BY <1>1
<1> QED  BY <1>2, <1>3, <1>4, <1>5

(* The characters of the RFC are those of the groups.                      *)
LEMMA RfcCharIsFour ==
  ASSUME data \in Seq(Byte), NEW h \in Nat, NEW j \in 1..4
  PROVE  RfcChar((4 * h) + j - 1) = Four(data, h)[j]
<1> DEFINE k == (4 * h) + j - 1
           a == At(data, 3 * h)
           b == At(data, (3 * h) + 1)
           c == At(data, (3 * h) + 2)
           v == (a * 256 + b) * 256 + c
<1>1. k \div 4 = h /\ k % 4 = j - 1
  OBVIOUS
<1>2. a \in Byte /\ b \in Byte /\ c \in Byte
  BY AtIsByte
<1> HIDE DEF k
<1>3. RfcChar(k) = (v \div <<262144, 4096, 64, 1>>[(j - 1) + 1]) % 64
  <2> DEFINE g == 3 * (k \div 4)
  <2>1. /\ ByteAt(g) = a /\ ByteAt(g + 1) = b /\ ByteAt(g + 2) = c
    BY <1>1 DEF ByteAt, At
  <2> HIDE DEF a, b, c
  <2>2. RfcChar(k) = (((ByteAt(g) * 256 + ByteAt(g + 1)) * 256 + ByteAt(g + 2))
                        \div <<262144, 4096, 64, 1>>[(k % 4) + 1]) % 64
    BY SMT DEF RfcChar
  <2> HIDE DEF g
  <2>3. RfcChar(k) = (v \div <<262144, 4096, 64, 1>>[(k % 4) + 1]) % 64
    BY <2>1, <2>2, SMT
  <2> HIDE DEF v
  <2> QED  BY <1>1, <2>3, SMT
<1>4. Four(data, h) = FourChars(a, b, c)
  BY DEF Four
<1> HIDE DEF a, b, c
<1>5. /\ (v \div 262144) % 64 = FourChars(a, b, c)[1]
      /\ (v \div 4096) % 64 = FourChars(a, b, c)[2]
      /\ (v \div 64) % 64 = FourChars(a, b, c)[3]
      /\ (v \div 1) % 64 = FourChars(a, b, c)[4]
  BY <1>2, DigitsOfBytes DEF FourChars
<1> HIDE DEF v
<1>6. (v \div <<262144, 4096, 64, 1>>[(j - 1) + 1]) % 64 = FourChars(a, b, c)[j]
  BY <1>5
<1> QED  BY <1>3, <1>4, <1>6 DEF k

(* A turn of the reading loop stores the bytes of the RFC.                 *)
LEMMA RfcByteIsThree ==
  ASSUME NEW h \in Nat, NEW j \in 1..3
  PROVE  RfcByte((3 * h) + j - 1)
           = ThreeBytes(SextetAt(4 * h), SextetAt((4 * h) + 1),
                        SextetAt((4 * h) + 2), SextetAt((4 * h) + 3))[j]
<1> DEFINE k == (3 * h) + j - 1
           d == SextetAt(4 * h)
           e == SextetAt((4 * h) + 1)
           f == SextetAt((4 * h) + 2)
           g == SextetAt((4 * h) + 3)
           v == ((d * 64 + e) * 64 + f) * 64 + g
<1>1. k \div 3 = h /\ k % 3 = j - 1
  OBVIOUS
<1>2. d \in Sextet /\ e \in Sextet /\ f \in Sextet /\ g \in Sextet
  BY DEF SextetAt, Lookup, Sextet
<1>3. RfcByte(k) = (v \div <<65536, 256, 1>>[(j - 1) + 1]) % 256
  BY <1>1 DEF RfcByte
<1> HIDE DEF k, d, e, f, g
<1>4. /\ (v \div 65536) % 256 = ThreeBytes(d, e, f, g)[1]
      /\ (v \div 256) % 256 = ThreeBytes(d, e, f, g)[2]
      /\ (v \div 1) % 256 = ThreeBytes(d, e, f, g)[3]
  BY <1>2, DigitsOfSextets DEF ThreeBytes
<1> HIDE DEF v
<1>5. (v \div <<65536, 256, 1>>[(j - 1) + 1]) % 256 = ThreeBytes(d, e, f, g)[j]
  BY <1>4
<1> QED  BY <1>3, <1>5 DEF k, d, e, f, g

-----------------------------------------------------------------------------
(* A text that has all of its padding is that of the RFC.                  *)
LEMMA FullTextIsRfc ==
  ASSUME NEW n \in Nat, data \in Seq(Byte), base64 \in Seq(Char),
         IsText(data, base64, n), Len(base64) % 4 = 0
  PROVE  base64 = RfcText
<1> DEFINE l == Len(base64)
           L == Len(data)
           used == (8 * L + 5) \div 6
           len == 4 * ((L + 2) \div 3)
<1>1. l \in Nat /\ L \in Nat /\ L <= 3 * n /\ (3 * n) - 3 < L /\ n + L <= l /\ l <= 4 * n
  BY LenProperties DEF IsText, Groups, Significant
<1>2. l = 4 * n /\ len = 4 * n /\ used = n + L
  <2> HIDE DEF l, L
  <2>0. l % 4 = 0
    BY DEF l
  <2>1. l = 4 * n
    BY <1>1, <2>0
  <2>2. (L + 2) \div 3 = n
    BY <1>1
  <2>3. (8 * L + 5) \div 6 = n + L
    BY <1>1
  <2> QED  BY <2>1, <2>2, <2>3
<1>3. RfcText = [k \in 1..len |-> IF k <= used THEN RfcChar(k - 1) ELSE Pad]
  BY DEF RfcText
<1>4. base64 = [k \in 1..l |-> base64[k]]
  OBVIOUS
<1>6. \A h \in 0..(n - 1), j \in 1..4 :
        (4 * h) + j <= Significant(data, n) => base64[(4 * h) + j] = Four(data, h)[j]
  BY DEF IsText
<1> HIDE DEF l, L, used, len
<1>5. ASSUME NEW k \in 1..l
      PROVE  base64[k] = IF k <= used THEN RfcChar(k - 1) ELSE Pad
  <2>1. CASE k <= used
    <3> DEFINE h == (k - 1) \div 4
               j == k - (4 * h)
    <3>1. h \in 0..(n - 1) /\ j \in 1..4 /\ (4 * h) + j = k
      BY <1>1, <1>2, <1>5
    <3> HIDE DEF h, j
    <3>0. (4 * h) + j <= Significant(data, n)
      BY <1>2, <2>1, <3>1 DEF Significant, L
    <3>2. base64[(4 * h) + j] = Four(data, h)[j]
      BY <3>0, <3>1, <1>6
    <3>3. h \in Nat /\ j \in 1..4
      BY <3>1
    <3>4. RfcChar((4 * h) + j - 1) = Four(data, h)[j]
      BY <3>3, RfcCharIsFour, Zenon
    <3> QED  BY <3>4, <2>1, <3>1, <3>2, <3>3
  <2>2. CASE ~(k <= used)
    <3>1. k > Significant(data, n) /\ k \in 1..Len(base64)
      BY <1>1, <1>2, <2>2, <1>5 DEF Significant, L, l
    <3>2. base64[k] = Pad
      BY <3>1 DEF IsText
    <3> QED  BY <2>2, <3>2
  <2> QED  BY <2>1, <2>2
<1> QED  BY <1>2, <1>3, <1>4, <1>5

(* The other alphabet is the same with two characters for two.             *)
LEMMA AlphabetIsTranslated ==
  ASSUME NEW c \in Sextet \cup {Pad}
  PROVE  UrlSafe(Standard(c)) = c
  BY DEF Sextet, Pad, Plus, Slash, Standard, UrlSafe

(* The buffer is as long as the whole bytes that the characters make.      *)
LEMMA BufferIsRfc ==
  ASSUME base64 \in Seq(Char), WellPadded(base64)
  PROVE  RfcBytes = [k \in 1..BufferLength |-> RfcByte(k - 1)]
<1> DEFINE l == Len(base64)
           chars == {k \in DOMAIN base64 : base64[k] # Pad}
           last == IF chars = {} THEN 0 ELSE CHOOSE n \in chars : \A m \in chars : m <= n
           pads == IF l > 0 /\ base64[l] = Pad
                   THEN IF l > 1 /\ base64[l - 1] = Pad THEN 2 ELSE 1
                   ELSE 0
           quarters == (3 * l) - (4 * pads)
<1>0. l \in Nat /\ DOMAIN base64 = 1..l
  BY LenProperties
<1>1. PICK used \in Nat :
        /\ used <= l
        /\ \A k \in 1..l : base64[k] = Pad <=> k > used
        /\ l - used <= 2
        /\ used % 4 = 0 => used = l
        /\ used % 4 = 3 => l - used <= 1
  <2> HIDE DEF l, chars, last, pads, quarters
  <2>1. \A k \in 0..l : k \in Nat /\ k <= l
    BY <1>0
  <2> QED  BY <2>1, Zenon DEF WellPadded, l
<1> HIDE DEF l
<1>2. ASSUME NEW k \in 1..l
      PROVE  (base64[k] # Pad) <=> (k \in 1..used)
  BY <1>0, <1>1
<1>3. chars = 1..used
  <2>1. 1..used \subseteq 1..l
    BY <1>0, <1>1
  <2> QED  BY <1>0, <1>2, <2>1, Zenon
<1>4. last = used
  <2> HIDE DEF chars
  <2>1. CASE used = 0
    BY <1>3, <2>1
  <2>2. CASE used # 0
    <3>1. used \in 1..used /\ \A m \in 1..used : m <= used
      BY <2>2, <1>1
    <3>2. \A n \in 1..used : (\A m \in 1..used : m <= n) => n = used
      BY <3>1
    <3>3. (CHOOSE n \in 1..used : \A m \in 1..used : m <= n) = used
      BY <3>1, <3>2
    <3> QED  BY <1>3, <3>1, <3>3
  <2> QED  BY <2>1, <2>2
<1>5. RfcBytes = [k \in 1..((6 * last) \div 8) |-> RfcByte(k - 1)]
  BY DEF RfcBytes
<1>6. BufferLength = IF quarters < 0 THEN 0 ELSE quarters \div 4
  BY DEF BufferLength, l
<1>7. pads = l - used
  <2>1. l = used \/ l = used + 1 \/ l = used + 2
    BY <1>0, <1>1
  <2>2. l > 0 => (base64[l] = Pad <=> l > used)
    BY <1>0, <1>1
  <2>3. l > 1 => (base64[l - 1] = Pad <=> l - 1 > used)
    BY <1>0, <1>1
  <2> QED  BY <1>0, <1>1, <2>1, <2>2, <2>3
<1> HIDE DEF chars, last, pads
<1>8. quarters = (4 * used) - l
  BY <1>1, <1>0, <1>7
<1> HIDE DEF quarters
<1>9. (IF quarters < 0 THEN 0 ELSE quarters \div 4) = (6 * used) \div 8
  <2> DEFINE r == used % 4
             g == used \div 4
  <2>1. used = (4 * g) + r /\ r \in 0..3 /\ g \in Nat /\ used \in Nat
    BY <1>1, <1>0
  <2>2. /\ r = 0 => l = used
        /\ r = 3 => l - used <= 1
        /\ l - used \in 0..2
    BY <1>1, <1>0
  <2> HIDE DEF r, g
  <2>3. quarters = (12 * g) + (3 * r) - (l - used)
    BY <1>0, <1>8, <2>1
  <2>4. CASE r = 0
    BY <2>1, <2>2, <2>3, <2>4, <1>0
  <2>5. CASE r = 1
    BY <2>1, <2>2, <2>3, <2>5, <1>0
  <2>6. CASE r = 2
    BY <2>1, <2>2, <2>3, <2>6, <1>0
  <2>7. CASE r = 3
    BY <2>1, <2>2, <2>3, <2>7, <1>0
  <2> QED  BY <2>1, <2>4, <2>5, <2>6, <2>7
<1> QED  BY <1>4, <1>5, <1>6, <1>9

(* Whatever the text, the loop makes turns enough for the buffer.          *)
LEMMA BufferIsFilled ==
  ASSUME base64 \in Seq(Char)
  PROVE  BufferLength \in Nat /\ 4 * BufferLength <= 3 * Len(base64)
<1>1. Len(base64) \in Nat
  BY LenProperties
<1> DEFINE l == Len(base64)
           pads == IF l > 0 /\ base64[l] = Pad
                   THEN IF l > 1 /\ base64[l - 1] = Pad THEN 2 ELSE 1
                   ELSE 0
           quarters == (3 * l) - (4 * pads)
<1>2. BufferLength = IF quarters < 0 THEN 0 ELSE quarters \div 4
  BY DEF BufferLength
<1>3. pads \in 0..2
  OBVIOUS
<1> HIDE DEF l, pads
<1>4. quarters \in Int /\ quarters <= 3 * l
  BY <1>1, <1>3 DEF l
<1> HIDE DEF quarters
<1> QED  BY <1>1, <1>2, <1>4 DEF l

-----------------------------------------------------------------------------
(* The routes that IInv says nothing of: a digest, and a text from         *)
(* elsewhere of which g groups are read.                                   *)
Stored(m) == \A k \in 1..Len(bytes) : k <= m => bytes[k] = RfcByte(k - 1)

ReadingText ==
  \E g \in Nat : i = 4 * g /\ p = 3 * g /\ Len(bytes) = BufferLength /\ Stored(3 * g)

RfcInv ==
  /\ route = "digest" => pc \in {"hash", "done"} /\ (pc = "done" => base64 = RfcText)
  /\ route = "text" =>
       /\ pc \in {"text", "read", "done"}
       /\ pc = "read" => ReadingText
       /\ pc = "done" => Len(bytes) = BufferLength /\ Stored(Len(bytes))
  /\ route = "bytes" => pc # "hash"

LEMMA DigestIsRfc == IInv /\ RfcInv /\ Digest => RfcInv'
<1> SUFFICES ASSUME IInv, RfcInv, Digest  PROVE RfcInv'
  OBVIOUS
<1>1. pc = "hash" /\ pc' = "done" /\ UNCHANGED <<route, data>> /\ route \in {"bytes", "digest", "text"}
  BY DEF Digest, IInv, TypeOK
<1>2. route = "digest"
  BY <1>1 DEF RfcInv
<1>3. data \in Seq(Byte) /\ Len(data) \in Nat
  BY LenProperties DEF IInv, TypeOK
<1> DEFINE len == 4 * ((Len(data) + 2) \div 3)
           used == (8 * Len(data) + 5) \div 6
<1>4. RfcText = [k \in 1..len |-> IF k <= used THEN RfcChar(k - 1) ELSE Pad]
  BY DEF RfcText
<1>5. \A k \in 1..len : RfcText[k] \in Sextet \cup {Pad}
  <2> SUFFICES ASSUME NEW k \in 1..len  PROVE RfcText[k] \in Sextet \cup {Pad}
    OBVIOUS
  <2> DEFINE h == (k - 1) \div 4
             j == k - (4 * h)
  <2>1. h \in Nat /\ j \in 1..4 /\ (4 * h) + j = k
    BY <1>3
  <2> HIDE DEF h, j, len, used
  <2>2. RfcChar((4 * h) + j - 1) = Four(data, h)[j]
    BY <1>3, <2>1, RfcCharIsFour
  <2>3. Four(data, h)[j] \in Sextet
    BY <1>3, <2>1, FourAreSextets
  <2>4. RfcChar(k - 1) \in Sextet
    BY <2>1, <2>2, <2>3
  <2> QED  BY <1>4, <2>4
<1> HIDE DEF len, used
<1>6. base64' = [k \in DOMAIN RfcText |-> UrlSafe(Standard(RfcText[k]))]
  BY DEF Digest
<1>7. \A k \in DOMAIN RfcText : UrlSafe(Standard(RfcText[k])) = RfcText[k]
  BY <1>4, <1>5, AlphabetIsTranslated
<1>8. base64' = RfcText
  BY <1>4, <1>6, <1>7
<1>9. RfcText' = RfcText
  BY <1>1 DEF RfcText, RfcChar, ByteAt
<1> QED  BY <1>1, <1>2, <1>8, <1>9 DEF RfcInv

LEMMA StartIsRfc == IInv /\ RfcInv /\ StartReading => RfcInv'
<1> SUFFICES ASSUME IInv, RfcInv, StartReading  PROVE RfcInv'
  OBVIOUS
<1>1. /\ bytes' = [k \in 1..BufferLength |-> 0] /\ i' = 0 /\ p' = 0 /\ pc = "text" /\ pc' = "read"
      /\ UNCHANGED <<route, base64>>
  BY DEF StartReading
<1>2. BufferLength \in Nat
  BY BufferIsFilled DEF IInv, TypeOK
<1>3. Len(bytes') = BufferLength /\ BufferLength' = BufferLength
  BY <1>1, <1>2 DEF BufferLength
<1>4. i' = 4 * 0 /\ p' = 3 * 0 /\ Stored(3 * 0)'
  BY <1>1 DEF Stored
<1>5. ReadingText'
  BY <1>3, <1>4 DEF ReadingText
<1> QED  BY <1>1, <1>5 DEF RfcInv

LEMMA ReadIsRfc == IInv /\ RfcInv /\ ReadGroup => RfcInv'
<1> SUFFICES ASSUME IInv, RfcInv, ReadGroup  PROVE RfcInv'
  OBVIOUS
<1>1. pc = "read" /\ UNCHANGED <<route, pc, base64>> /\ i' = i + 4 /\ p' = p + 3 /\ bytes \in Seq(Byte)
  BY DEF ReadGroup, IInv, TypeOK
<1>2. ASSUME route = "text"  PROVE ReadingText'
  <2>1. PICK g \in Nat : i = 4 * g /\ p = 3 * g /\ Len(bytes) = BufferLength /\ Stored(3 * g)
    BY <1>1, <1>2 DEF RfcInv, ReadingText
  <2> DEFINE three == ThreeBytes(SextetAt(4 * g), SextetAt((4 * g) + 1),
                                 SextetAt((4 * g) + 2), SextetAt((4 * g) + 3))
  <2>2. bytes' = [k \in DOMAIN bytes |-> IF k - (3 * g) \in 1..3 THEN three[k - (3 * g)] ELSE bytes[k]]
    BY <2>1 DEF ReadGroup
  <2> HIDE DEF three
  <2>3. DOMAIN bytes = 1..Len(bytes) /\ Len(bytes) \in Nat
    BY <1>1, LenProperties
  <2>4. Len(bytes') = Len(bytes)
    BY <2>2, <2>3
  <2>5. \A k : RfcByte(k)' = RfcByte(k)
    BY <1>1 DEF RfcByte, SextetAt
  <2>6. BufferLength' = BufferLength
    BY <1>1 DEF BufferLength
  <2>7. ASSUME NEW k \in 1..Len(bytes), k <= 3 * (g + 1)
        PROVE  bytes'[k] = RfcByte(k - 1)
    <3>1. bytes'[k] = IF k - (3 * g) \in 1..3 THEN three[k - (3 * g)] ELSE bytes[k]
      BY <2>2, <2>3
    <3>2. CASE k <= 3 * g
      <4>1. bytes[k] = RfcByte(k - 1)
        BY <2>1, <3>2 DEF Stored
      <4> QED  BY <3>1, <3>2, <4>1, <2>3
    <3>3. CASE ~(k <= 3 * g)
      <4> DEFINE j == k - (3 * g)
      <4>1. j \in 1..3 /\ (3 * g) + j - 1 = k - 1
        BY <2>3, <2>7, <3>3
      <4> HIDE DEF j
      <4>2. RfcByte((3 * g) + j - 1) = three[j]
        BY <4>1, RfcByteIsThree DEF three
      <4> QED  BY <3>1, <4>1, <4>2 DEF j
    <3> QED  BY <3>2, <3>3
  <2>8. i' = 4 * (g + 1) /\ p' = 3 * (g + 1) /\ g + 1 \in Nat
    BY <1>1, <2>1
  <2>9. Stored(3 * (g + 1))'
    BY <2>4, <2>5, <2>7 DEF Stored
  <2> QED  BY <2>1, <2>4, <2>6, <2>8, <2>9 DEF ReadingText
<1> QED  BY <1>1, <1>2 DEF RfcInv

LEMMA HasReadIsRfc == IInv /\ RfcInv /\ HasRead => RfcInv'
<1> SUFFICES ASSUME IInv, RfcInv, HasRead  PROVE RfcInv'
  OBVIOUS
<1>1. /\ pc = "read" /\ pc' = "done" /\ UNCHANGED <<route, data, i, p, base64, bytes>>
      /\ i >= Len(base64) /\ bytes \in Seq(Byte) /\ base64 \in Seq(Char)
  BY DEF HasRead, IInv, TypeOK
<1>2. ASSUME route = "text"  PROVE Len(bytes) = BufferLength /\ Stored(Len(bytes))
  <2>1. PICK g \in Nat : i = 4 * g /\ Len(bytes) = BufferLength /\ Stored(3 * g)
    BY <1>1, <1>2 DEF RfcInv, ReadingText
  <2>2. 4 * BufferLength <= 3 * Len(base64) /\ Len(base64) \in Nat /\ BufferLength \in Nat
    BY <1>1, BufferIsFilled, LenProperties
  <2>3. Len(bytes) <= 3 * g /\ Len(bytes) \in Nat
    BY <1>1, <2>1, <2>2
  <2>4. Stored(Len(bytes))
    BY <2>1, <2>3 DEF Stored
  <2> QED  BY <2>1, <2>4
<1>3. Len(bytes)' = Len(bytes) /\ BufferLength' = BufferLength /\ Stored(Len(bytes))' = Stored(Len(bytes))
  BY <1>1 DEF BufferLength, Stored, RfcByte, SextetAt
<1>4. route # "digest"
  BY <1>1 DEF RfcInv
<1> QED  BY <1>1, <1>2, <1>3, <1>4 DEF RfcInv

LEMMA RfcInvariance == Spec => [](IInv /\ RfcInv)
<1>1. Init => RfcInv
  BY DEF Init, RfcInv
<1>2. IInv /\ RfcInv /\ [Next]_vars => RfcInv'
  <2> SUFFICES ASSUME IInv, RfcInv, [Next]_vars  PROVE RfcInv'
    OBVIOUS
  <2>1. CASE WriteGroup
    BY <2>1 DEF WriteGroup, RfcInv, IInv
  <2>2. CASE Written
    BY <2>2 DEF Written, RfcInv, IInv
  <2>3. CASE Unpadded
    BY <2>3 DEF Unpadded, RfcInv
  <2>4. CASE Digest
    BY <2>4, DigestIsRfc
  <2>5. CASE StartReading
    BY <2>5, StartIsRfc
  <2>6. CASE ReadGroup
    BY <2>6, ReadIsRfc
  <2>7. CASE HasRead
    BY <2>7, HasReadIsRfc
  <2>8. CASE UNCHANGED vars
    <3>1. UNCHANGED <<route, data, pc, i, p, base64, bytes>>
      BY <2>8 DEF vars
    <3>2. /\ ReadingText' = ReadingText /\ RfcText' = RfcText
          /\ (Len(bytes) = BufferLength)' = (Len(bytes) = BufferLength)
          /\ Stored(Len(bytes))' = Stored(Len(bytes))
      BY <3>1 DEF ReadingText, RfcText, RfcChar, ByteAt, BufferLength, Stored, RfcByte, SextetAt
    <3> QED  BY <3>1, <3>2 DEF RfcInv
  <2> QED  BY <2>1, <2>2, <2>3, <2>4, <2>5, <2>6, <2>7, <2>8 DEF Next
<1> QED  BY <1>1, <1>2, Invariance, PTL DEF Spec

(* The writing loop of dark_arrayBuffer_to_padded_b64url, and the digests  *)
(* once their alphabet is translated, give the text of RFC 4648.           *)
THEOREM TextsAreTheRfcs == Spec => []TextIsRfc4648
<1>1. IInv /\ RfcInv => TextIsRfc4648
  <2> SUFFICES ASSUME IInv, RfcInv,
                      \/ pc = "text" /\ route = "bytes" /\ Len(base64) % 4 = 0
                      \/ pc = "done" /\ route = "digest"
               PROVE  base64 = RfcText
    BY DEF TextIsRfc4648
  <2>1. CASE pc = "text" /\ route = "bytes" /\ Len(base64) % 4 = 0
    <3>1. PICK n \in Nat : IsText(data, base64, n)
      BY <2>1 DEF IInv, HasText
    <3> QED  BY <2>1, <3>1, FullTextIsRfc DEF IInv, TypeOK
  <2>2. CASE pc = "done" /\ route = "digest"
    BY <2>2 DEF RfcInv
  <2> QED  BY <2>1, <2>2
<1> QED  BY <1>1, RfcInvariance, PTL

(* dark_arrayBuffer_from_padded_b64url reads any text, of any length, with *)
(* its padding or less, as RFC 4648 does.                                  *)
THEOREM BytesAreTheRfcs == Spec => []BytesAreRfc4648
<1>1. IInv /\ RfcInv => BytesAreRfc4648
  <2> SUFFICES ASSUME IInv, RfcInv, pc = "done", route = "text", WellPadded(base64)
               PROVE  bytes = RfcBytes
    BY DEF BytesAreRfc4648
  <2>1. base64 \in Seq(Char) /\ bytes \in Seq(Byte)
    BY DEF IInv, TypeOK
  <2>2. RfcBytes = [k \in 1..BufferLength |-> RfcByte(k - 1)]
    BY <2>1, BufferIsRfc
  <2>3. Len(bytes) = BufferLength /\ Stored(Len(bytes)) /\ Len(bytes) \in Nat
    BY <2>1, LenProperties DEF RfcInv
  <2>4. bytes = [k \in 1..Len(bytes) |-> bytes[k]]
    BY <2>1
  <2>5. \A k \in 1..Len(bytes) : bytes[k] = RfcByte(k - 1)
    BY <2>3 DEF Stored
  <2> QED  BY <2>2, <2>3, <2>4, <2>5
<1> QED  BY <1>1, RfcInvariance, PTL

=============================================================================
