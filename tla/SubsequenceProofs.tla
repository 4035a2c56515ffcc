-------------------------- MODULE SubsequenceProofs -------------------------
(***************************************************************************)
(* What the proofs of the other modules need to know of lists that are     *)
(* built one element after the other: induction and recursion over the     *)
(* natural numbers in a first-order form, and what List.filter keeps.      *)
(***************************************************************************)
EXTENDS Subsequence, SequenceTheorems, WellFoundedInduction, TLAPS

(* Induction.                                                              *)
LEMMA Induct ==
  ASSUME NEW S, 0 \in S, \A n \in Nat : n \in S => n + 1 \in S
  PROVE  Nat \subseteq S
<1> DEFINE T == Nat \ S
           R == OpToRel(<, Nat)
<1> SUFFICES ASSUME T # {}  PROVE FALSE
  OBVIOUS
<1>1. IsWellFoundedOn(R, Nat)
  BY NatLessThanWellFounded, Zenon
<1>2. T \subseteq Nat
  OBVIOUS
<1> HIDE DEF R, T
<1>3. PICK x \in T : \A y \in T : ~(<<y, x>> \in R)
  BY <1>1, <1>2, WFMin
<1>4. x \in Nat /\ x # 0 /\ x \notin S
  BY DEF T
<1>5. x - 1 \in Nat /\ <<x - 1, x>> \in R
  BY <1>4 DEF R, OpToRel
<1>6. x - 1 \in S
  BY <1>3, <1>5 DEF T
<1> QED  BY <1>4, <1>5, <1>6

(* Up to a bound.                                                          *)
LEMMA InductTo ==
  ASSUME NEW n \in Nat, NEW S, 0 \in S,
         \A i \in 1..n : i - 1 \in S => i \in S
  PROVE  0..n \subseteq S
<1> DEFINE T == {i \in Nat : i <= n => i \in S}
<1>1. 0 \in T
  OBVIOUS
<1>2. ASSUME NEW i \in Nat, i \in T  PROVE i + 1 \in T
  <2>1. CASE i + 1 <= n
    <3>1. i \in S /\ i + 1 \in 1..n /\ (i + 1) - 1 = i
      BY <1>2, <2>1
    <3> QED  BY <3>1
  <2> QED  BY <2>1
<1> HIDE DEF T
<1>3. Nat \subseteq T
  BY <1>1, <1>2, Induct
<1>4. \A i \in 0..n : i \in Nat /\ i <= n
  OBVIOUS
<1> QED  BY <1>3, <1>4 DEF T

(* A function that gives each value from the one before it exists.         *)
IsStep(step, base, n, X) ==
  /\ n \in Nat
  /\ base \in X
  /\ \A x \in X, i \in 1..n : step[<<x, i>>] \in X

Builds(f, step, base, n) ==
  /\ f[0] = base
  /\ \A i \in 1..n : f[i] = step[<<f[i - 1], i>>]

LEMMA Recursion ==
  ASSUME NEW n, NEW X, NEW base, NEW step, IsStep(step, base, n, X)
  PROVE  \E f \in [0..n -> X] : Builds(f, step, base, n)
<1> USE DEF IsStep, Builds
<1> DEFINE Upto(j) == \E f \in [0..j -> X] :
                        f[0] = base /\ \A i \in 1..j : f[i] = step[<<f[i - 1], i>>]
           S == {j \in 0..n : Upto(j)}
<1>1. 0 \in S
  <2> DEFINE g == [i \in 0..0 |-> base]
  <2>1. g \in [0..0 -> X] /\ g[0] = base /\ 1..0 = {}
    OBVIOUS
  <2>2. Upto(0)
    BY <2>1
  <2> QED  BY <2>2
<1>2. ASSUME NEW j \in 1..n, j - 1 \in S  PROVE j \in S
  <2>1. PICK f \in [0..(j - 1) -> X] :
          f[0] = base /\ \A i \in 1..(j - 1) : f[i] = step[<<f[i - 1], i>>]
    BY <1>2
  <2> DEFINE last == step[<<f[j - 1], j>>]
             g == [i \in 0..j |-> IF i <= j - 1 THEN f[i] ELSE last]
  <2>2. f[j - 1] \in X
    <3>1. j - 1 \in 0..(j - 1)
      OBVIOUS
    <3> QED  BY <3>1
  <2>3. last \in X
    <3>1. j \in 1..n
      OBVIOUS
    <3> QED  BY <2>2, <3>1
  <2> HIDE DEF last
  <2>4. g \in [0..j -> X]
    <3>1. ASSUME NEW i \in 0..j  PROVE (IF i <= j - 1 THEN f[i] ELSE last) \in X
      <4>1. CASE i <= j - 1
        <5>1. i \in 0..(j - 1)
          BY <4>1
        <5> QED  BY <4>1, <5>1
      <4> QED  BY <4>1, <2>3
    <3> QED  BY <3>1
  <2>5. g[0] = base
    BY <2>1
  <2>6. ASSUME NEW i \in 1..j  PROVE g[i] = step[<<g[i - 1], i>>]
    <3>1. i - 1 \in 0..j /\ i - 1 <= j - 1 /\ i \in 0..j
      OBVIOUS
    <3>2. g[i - 1] = f[i - 1]
      BY <3>1
    <3>3. CASE i = j
      <4>1. g[i] = last
        BY <3>1, <3>3
      <4> QED  BY <3>2, <3>3, <4>1 DEF last
    <3>4. CASE i # j
      <4>1. i \in 1..(j - 1) /\ g[i] = f[i]
        BY <3>1, <3>4
      <4> QED  BY <2>1, <3>2, <4>1
    <3> QED  BY <3>3, <3>4
  <2> HIDE DEF g
  <2>7. Upto(j)
    BY <2>4, <2>5, <2>6
  <2> QED  BY <2>7
<1> HIDE DEF S
<1>3. 0..n \subseteq S
  BY <1>1, <1>2, InductTo
<1>4. n \in 0..n
  OBVIOUS
<1> QED  BY <1>3, <1>4 DEF S

-----------------------------------------------------------------------------
(* The list that is kept is built from the front.                          *)
BuildsKept(f, s, I) ==
  /\ f[0] = <<>>
  /\ \A n \in 1..Len(s) : f[n] = IF n \in I THEN Append(f[n - 1], s[n]) ELSE f[n - 1]
  /\ Kept(s, I) = f[Len(s)]

LEMMA KeptIsBuilt ==
  ASSUME NEW X, NEW s \in Seq(X), NEW I
  PROVE  \E f \in [0..Len(s) -> Seq(X)] : BuildsKept(f, s, I)
<1> DEFINE L == Len(s)
           Body(g) == [n \in 0..L |-> IF n = 0 THEN <<>>
                                      ELSE IF n \in I THEN Append(g[n - 1], s[n]) ELSE g[n - 1]]
           kept == CHOOSE g : g = Body(g)
           step == [a \in Seq(X) \X (1..L) |-> IF a[2] \in I THEN Append(a[1], s[a[2]]) ELSE a[1]]
<1>1. L \in Nat /\ \A n \in 1..L : s[n] \in X
  BY LenProperties, ElementOfSeq
<1>2. Kept(s, I) = kept[L]
  BY DEF Kept
<1> HIDE DEF L
<1>3. \A q \in Seq(X), n \in 1..L : step[<<q, n>>] = IF n \in I THEN Append(q, s[n]) ELSE q
  OBVIOUS
<1>4. \A q \in Seq(X), n \in 1..L : step[<<q, n>>] \in Seq(X)
  BY <1>1, <1>3, AppendProperties
<1>5. <<>> \in Seq(X)
  OBVIOUS
<1> HIDE DEF step
<1>6. PICK f \in [0..L -> Seq(X)] :
        f[0] = <<>> /\ \A n \in 1..L : f[n] = step[<<f[n - 1], n>>]
  <2> DEFINE Q == Seq(X)
             base == <<>>
  <2>1. IsStep(step, base, L, Q)
    BY <1>1, <1>4, <1>5 DEF IsStep
  <2> HIDE DEF Q, base
  <2>2. \E f \in [0..L -> Q] : Builds(f, step, base, L)
    BY <2>1, Recursion
  <2> QED  BY <2>2 DEF Q, base, Builds
<1>7. \A n \in 1..L : f[n] = IF n \in I THEN Append(f[n - 1], s[n]) ELSE f[n - 1]
  <2>1. \A n \in 1..L : n - 1 \in 0..L
    BY <1>1
  <2> QED  BY <1>3, <1>6, <2>1
<1>8. f = Body(f)
  <2>1. \A n \in 0..L : n # 0 => n \in 1..L
    BY <1>1
  <2>2. f = [n \in 0..L |-> f[n]]
    OBVIOUS
  <2> QED  BY <1>6, <1>7, <2>1, <2>2
<1>9. kept = Body(kept)
  BY <1>8, Zenon
<1> HIDE DEF kept
<1>10. /\ kept[0] = <<>>
       /\ \A n \in 1..L : kept[n] = IF n \in I THEN Append(kept[n - 1], s[n]) ELSE kept[n - 1]
       /\ DOMAIN kept = 0..L
       /\ kept = [n \in 0..L |-> kept[n]]
  <2>1. 0 \in 0..L /\ \A n \in 1..L : n \in 0..L /\ n # 0
    BY <1>1
  <2> HIDE DEF Body
  <2>2. kept[0] = Body(kept)[0] /\ \A n \in 1..L : kept[n] = Body(kept)[n]
    BY <1>9
  <2>3. Body(kept)[0] = <<>>
    BY <2>1 DEF Body
  <2>4. \A n \in 1..L : Body(kept)[n] = IF n \in I THEN Append(kept[n - 1], s[n]) ELSE kept[n - 1]
    BY <2>1 DEF Body
  <2>5. DOMAIN Body(kept) = 0..L /\ Body(kept) = [n \in 0..L |-> Body(kept)[n]]
    BY DEF Body
  <2> QED  BY <1>9, <2>2, <2>3, <2>4, <2>5
<1> HIDE DEF Body
<1>11. \A n \in 0..L : kept[n] \in Seq(X)
  <2>0. 0 \in 0..L /\ \A n \in 1..L : n \in 0..L
    BY <1>1
  <2> DEFINE S == {n \in 0..L : kept[n] \in Seq(X)}
  <2>1. 0 \in S
    BY <2>0, <1>5, <1>10
  <2>2. ASSUME NEW n \in 1..L, n - 1 \in S  PROVE n \in S
    <3>1. kept[n - 1] \in Seq(X) /\ s[n] \in X
      BY <1>1, <2>2
    <3>2. Append(kept[n - 1], s[n]) \in Seq(X)
      BY <3>1, AppendProperties
    <3>3. kept[n] \in Seq(X)
      BY <1>10, <3>1, <3>2
    <3> QED  BY <2>0, <3>3
  <2> HIDE DEF S
  <2>3. 0..L \subseteq S
    BY <1>1, <2>1, <2>2, InductTo
  <2> QED  BY <2>3 DEF S
<1>12. kept \in [0..L -> Seq(X)]
  BY <1>10, <1>11
<1> QED  BY <1>2, <1>10, <1>12 DEF L, BuildsKept

(* m lists the numbers of S in their order.                                *)
Enumerates(m, n, S) ==
  /\ n \in Nat
  /\ m \in [1..n -> S]
  /\ \A k, l \in 1..n : k < l => m[k] < m[l]
  /\ \A i \in S : \E k \in 1..n : m[k] = i

(* p has the elements of s at the indices in I, which m lists.             *)
KeptBy(p, m, s, I) ==
  /\ Enumerates(m, Len(p), I \cap 1..Len(s))
  /\ \A k \in 1..Len(p) : p[k] = s[m[k]]

LEMMA EnumeratesOneMore ==
  ASSUME NEW m, NEW n, NEW S, NEW i \in Nat, S \subseteq Nat, Enumerates(m, n, S),
         \A j \in S : j < i,
         NEW q, q = [k \in 1..(n + 1) |-> IF k <= n THEN m[k] ELSE i]
  PROVE  Enumerates(q, n + 1, S \cup {i})
<1>1. /\ n \in Nat /\ m \in [1..n -> S]
      /\ \A k, l \in 1..n : k < l => m[k] < m[l]
      /\ \A j \in S : \E k \in 1..n : m[k] = j
  BY DEF Enumerates
<1>2. \A k \in 1..n : k \in 1..(n + 1) /\ q[k] = m[k] /\ m[k] \in S
  BY <1>1
<1>3. n + 1 \in 1..(n + 1) /\ q[n + 1] = i
  BY <1>1
<1>4. \A k \in 1..(n + 1) : k \in 1..n \/ k = n + 1
  BY <1>1
<1>5. q \in [1..(n + 1) -> S \cup {i}]
  <2>1. \A k \in 1..(n + 1) : q[k] \in S \cup {i}
    BY <1>2, <1>3, <1>4
  <2> QED  BY <2>1
<1>6. ASSUME NEW k \in 1..(n + 1), NEW l \in 1..(n + 1), k < l  PROVE q[k] < q[l]
  <2>1. k \in 1..n
    BY <1>1, <1>6
  <2>2. CASE l \in 1..n
    BY <1>1, <1>2, <1>6, <2>1, <2>2
  <2>3. CASE l = n + 1
    BY <1>2, <1>3, <2>1, <2>3
  <2> QED  BY <1>4, <2>2, <2>3
<1>7. ASSUME NEW j \in S \cup {i}  PROVE \E k \in 1..(n + 1) : q[k] = j
  <2>1. CASE j \in S
    BY <1>1, <1>2, <2>1
  <2>2. CASE j = i
    BY <1>3, <2>2
  <2> QED  BY <2>1, <2>2
<1> QED  BY <1>1, <1>5, <1>6, <1>7 DEF Enumerates

(* What is kept of s, and in which order.                                  *)
LEMMA KeptIsKept ==
  ASSUME NEW X, NEW s \in Seq(X), NEW I
  PROVE  Kept(s, I) \in Seq(X) /\ \E m : KeptBy(Kept(s, I), m, s, I)
<1>0. PICK f \in [0..Len(s) -> Seq(X)] : BuildsKept(f, s, I)
  BY KeptIsBuilt
<1>1. /\ f[0] = <<>>
      /\ \A n \in 1..Len(s) : f[n] = IF n \in I THEN Append(f[n - 1], s[n]) ELSE f[n - 1]
      /\ Kept(s, I) = f[Len(s)]
  BY <1>0 DEF BuildsKept
<1> DEFINE L == Len(s)
<1>2. L \in Nat /\ \A n \in 1..L : s[n] \in X
  BY LenProperties, ElementOfSeq
<1> DEFINE Have(p, n) == \E m : /\ Enumerates(m, Len(p), I \cap 1..n)
                                /\ \A k \in 1..Len(p) : p[k] = s[m[k]]
           S == {n \in 0..L : Have(f[n], n)}
<1> HIDE DEF L
<1>3. 0 \in S
  <2>1. Len(f[0]) = 0 /\ I \cap 1..0 = {} /\ 0 \in 0..L /\ 1..0 = {}
    BY <1>1, <1>2
  <2> DEFINE m == [k \in 1..0 |-> 0]
  <2>2. m \in [1..0 -> {}]
    BY <2>1
  <2>3. Enumerates(m, 0, {})
    BY <2>1, <2>2 DEF Enumerates
  <2>4. Have(f[0], 0)
    BY <2>1, <2>3
  <2> QED  BY <2>1, <2>4
<1>4. ASSUME NEW n \in 1..L, n - 1 \in S  PROVE n \in S
  <2>1. /\ n \in 0..L /\ n - 1 \in 0..L /\ f[n - 1] \in Seq(X) /\ s[n] \in X
        /\ Len(f[n - 1]) \in Nat
    BY <1>1, <1>2, LenProperties DEF L
  <2>2. PICK m : /\ Enumerates(m, Len(f[n - 1]), I \cap 1..(n - 1))
                 /\ \A k \in 1..Len(f[n - 1]) : f[n - 1][k] = s[m[k]]
    BY <1>4
  <2>3. CASE n \notin I
    <3>1. f[n] = f[n - 1]
      BY <1>1, <2>3 DEF L
    <3>2. I \cap 1..n = I \cap 1..(n - 1)
      BY <2>3
    <3>3. Have(f[n], n)
      BY <2>2, <3>1, <3>2
    <3> QED  BY <2>1, <3>3
  <2>4. CASE n \in I
    <3> DEFINE p == f[n - 1]
               len == Len(p)
               q == [k \in 1..(len + 1) |-> IF k <= len THEN m[k] ELSE n]
               A == I \cap 1..(n - 1)
    <3>1. f[n] = Append(p, s[n])
      BY <1>1, <2>4 DEF L
    <3>2. I \cap 1..n = A \cup {n}
      BY <2>4
    <3>3. A \subseteq Nat /\ \A j \in A : j < n
      OBVIOUS
    <3>4. Enumerates(m, len, A) /\ \A k \in 1..len : p[k] = s[m[k]]
      BY <2>2
    <3>5. p \in Seq(X) /\ len \in Nat
      BY <2>1
    <3>6. /\ Len(Append(p, s[n])) = len + 1
          /\ \A k \in 1..len : Append(p, s[n])[k] = p[k]
          /\ Append(p, s[n])[len + 1] = s[n]
      BY <2>1, <3>5, AppendProperties
    <3> HIDE DEF p, len, A
    <3>7. Enumerates(q, len + 1, A \cup {n})
      <4>1. n \in Nat
        BY <1>2
      <4>2. q = [k \in 1..(len + 1) |-> IF k <= len THEN m[k] ELSE n]
        OBVIOUS
      <4> HIDE DEF q
      <4> QED  BY <3>3, <3>4, <4>1, <4>2, EnumeratesOneMore
    <3>8. ASSUME NEW k \in 1..(len + 1)  PROVE f[n][k] = s[q[k]]
      <4>1. CASE k <= len
        <5>1. k \in 1..len /\ q[k] = m[k]
          BY <3>5, <4>1
        <5> QED  BY <3>1, <3>4, <3>6, <5>1
      <4>2. CASE ~(k <= len)
        <5>1. k = len + 1 /\ q[k] = n
          BY <3>5, <4>2
        <5> QED  BY <3>1, <3>6, <5>1
      <4> QED  BY <4>1, <4>2
    <3> HIDE DEF q
    <3>9. Have(f[n], n)
      <4>1. Len(f[n]) = len + 1
        BY <3>1, <3>6
      <4>2. Enumerates(q, Len(f[n]), I \cap 1..n)
        BY <3>2, <3>7, <4>1
      <4> QED  BY <3>8, <4>1, <4>2
    <3> QED  BY <2>1, <3>9
  <2> QED  BY <2>3, <2>4
<1> HIDE DEF S
<1>5. 0..L \subseteq S
  BY <1>2, <1>3, <1>4, InductTo
<1>6. L \in S
  BY <1>2, <1>5
<1>7. Have(f[L], L)
  BY <1>6 DEF S
<1> QED  BY <1>1, <1>2, <1>7 DEF KeptBy, L

-----------------------------------------------------------------------------
(* Numbers can be listed in their order in one way only.                   *)
Leads(m, n, q, r) == \A k \in 1..n : k \in 1..r /\ m[k] = q[k]

LEMMA EnumerationLeads ==
  ASSUME NEW S, S \subseteq Nat, NEW m, NEW n, NEW q, NEW r,
         Enumerates(m, n, S), Enumerates(q, r, S)
  PROVE  Leads(m, n, q, r)
<1>1. /\ n \in Nat /\ m \in [1..n -> S]
      /\ \A k, l \in 1..n : k < l => m[k] < m[l]
      /\ \A j \in S : \E k \in 1..n : m[k] = j
  BY DEF Enumerates
<1>2. /\ r \in Nat /\ q \in [1..r -> S]
      /\ \A k, l \in 1..r : k < l => q[k] < q[l]
      /\ \A j \in S : \E k \in 1..r : q[k] = j
  BY DEF Enumerates
<1> DEFINE Same(k) == k \in 1..r /\ m[k] = q[k]
           T == {i \in 0..n : \A k \in 1..i : Same(k)}
<1>3. 0 \in T
  BY <1>1
<1>4. ASSUME NEW i \in 1..n, i - 1 \in T  PROVE i \in T
  <2>1. \A k \in 1..(i - 1) : k \in 1..r /\ m[k] = q[k]
    BY <1>4
  <2>2. \A k \in 1..n : m[k] \in Nat
    BY <1>1
  <2>3. \A k \in 1..r : q[k] \in Nat
    BY <1>2
  <2>4. PICK l \in 1..r : q[l] = m[i]
    BY <1>1, <1>2
  <2>5. i <= l
    <3> SUFFICES ASSUME ~(i <= l)  PROVE FALSE
      OBVIOUS
    <3>1. l \in 1..(i - 1) /\ l \in 1..n /\ l < i
      BY <1>1, <1>2
    <3>2. m[l] = m[i]
      BY <2>1, <2>4, <3>1
    <3>3. m[l] < m[i]
      BY <1>1, <3>1
    <3> QED  BY <2>2, <3>1, <3>2, <3>3
  <2>6. i \in 1..r
    BY <1>2, <2>5
  <2>7. PICK k \in 1..n : m[k] = q[i]
    BY <1>1, <1>2, <2>6
  <2>8. i <= k
    <3> SUFFICES ASSUME ~(i <= k)  PROVE FALSE
      OBVIOUS
    <3>1. k \in 1..(i - 1) /\ k < i
      BY <1>1
    <3>2. k \in 1..r /\ q[k] = q[i]
      BY <2>1, <2>7, <3>1
    <3>3. q[k] < q[i]
      BY <1>2, <2>6, <3>1, <3>2
    <3> QED  BY <2>3, <2>6, <3>2, <3>3
  <2>9. m[i] <= m[k]
    <3>1. CASE i = k
      BY <2>2, <3>1
    <3>2. CASE i # k
      <4>1. i < k
        BY <2>8, <3>2
      <4> QED  BY <1>1, <2>2, <4>1
    <3> QED  BY <3>1, <3>2
  <2>10. q[i] <= q[l]
    <3>1. CASE i = l
      BY <2>3, <3>1
    <3>2. CASE i # l
      <4>1. i < l
        BY <2>5, <3>2
      <4> QED  BY <1>2, <2>3, <2>6, <4>1
    <3> QED  BY <3>1, <3>2
  <2>11. m[i] = q[i]
    BY <2>2, <2>3, <2>4, <2>6, <2>7, <2>9, <2>10
  <2>12. \A k2 \in 1..i : Same(k2)
    <3>1. \A k2 \in 1..i : k2 \in 1..(i - 1) \/ k2 = i
      OBVIOUS
    <3> QED  BY <2>1, <2>6, <2>11, <3>1
  <2> QED  BY <2>12
<1> HIDE DEF T
<1>5. 0..n \subseteq T
  BY <1>1, <1>3, <1>4, InductTo
<1>6. n \in T
  BY <1>1, <1>5
<1> QED  BY <1>6 DEF T, Leads

LEMMA EnumerationIsUnique ==
  ASSUME NEW S, S \subseteq Nat, NEW m, NEW n, NEW q, NEW r,
         Enumerates(m, n, S), Enumerates(q, r, S)
  PROVE  n = r /\ m = q
<1>0. Leads(m, n, q, r) /\ Leads(q, r, m, n)
  BY EnumerationLeads
<1>1. \A k \in 1..n : k \in 1..r /\ m[k] = q[k]
  BY <1>0, Zenon DEF Leads
<1>2. \A k \in 1..r : k \in 1..n
  BY <1>0, Zenon DEF Leads
<1>3. n \in Nat /\ r \in Nat /\ m \in [1..n -> S] /\ q \in [1..r -> S]
  BY DEF Enumerates
<1>4. n = r
  <2>1. n <= r
    <3>1. CASE n = 0
      BY <1>3, <3>1
    <3>2. CASE n # 0
      <4>1. n \in 1..n
        BY <1>3, <3>2
      <4>2. n \in 1..r
        BY <1>1, <4>1
      <4> QED  BY <1>3, <4>2
    <3> QED  BY <3>1, <3>2
  <2>2. r <= n
    <3>1. CASE r = 0
      BY <1>3, <3>1
    <3>2. CASE r # 0
      <4>1. r \in 1..r
        BY <1>3, <3>2
      <4>2. r \in 1..n
        BY <1>2, <4>1
      <4> QED  BY <1>3, <4>2
    <3> QED  BY <3>1, <3>2
  <2> QED  BY <1>3, <2>1, <2>2
<1>5. m = q
  BY <1>1, <1>3, <1>4
<1> QED  BY <1>4, <1>5

(* So that what has the elements at I in their order is what is kept.      *)
LEMMA KeptIsOnly ==
  ASSUME NEW X, NEW s \in Seq(X), NEW I, NEW p \in Seq(X), NEW m, KeptBy(p, m, s, I)
  PROVE  p = Kept(s, I)
<1> DEFINE k == Kept(s, I)
<1>1. k \in Seq(X)
  BY KeptIsKept
<1>2. PICK q : KeptBy(k, q, s, I)
  BY KeptIsKept
<1> HIDE DEF k
<1>3. I \cap 1..Len(s) \subseteq Nat
  OBVIOUS
<1> DEFINE S == I \cap 1..Len(s)
<1>4. S \subseteq Nat /\ Enumerates(m, Len(p), S) /\ Enumerates(q, Len(k), S)
  BY <1>2, <1>3 DEF KeptBy
<1> HIDE DEF S
<1>5. Len(p) = Len(k) /\ m = q
  BY <1>4, EnumerationIsUnique
<1>6. \A j \in 1..Len(p) : p[j] = k[j]
  BY <1>2, <1>5 DEF KeptBy
<1> QED  BY <1>1, <1>5, <1>6, SeqEqual DEF k

(* The members of what is kept, without their order.                       *)
LEMMA KeptMembers ==
  ASSUME NEW X, NEW s \in Seq(X), NEW I
  PROVE  /\ Kept(s, I) \in Seq(X) /\ Len(Kept(s, I)) \in Nat
         /\ \A k \in 1..Len(Kept(s, I)) : \E i \in 1..Len(s) : i \in I /\ Kept(s, I)[k] = s[i]
         /\ \A i \in 1..Len(s) : i \in I => \E k \in 1..Len(Kept(s, I)) : Kept(s, I)[k] = s[i]
<1> DEFINE p == Kept(s, I)
<1>1. p \in Seq(X)
  BY KeptIsKept
<1>2. PICK m : KeptBy(p, m, s, I)
  BY KeptIsKept
<1> HIDE DEF p
<1>3. /\ m \in [1..Len(p) -> I \cap 1..Len(s)]
      /\ \A i \in I \cap 1..Len(s) : \E k \in 1..Len(p) : m[k] = i
      /\ \A k \in 1..Len(p) : p[k] = s[m[k]]
  BY <1>2 DEF KeptBy, Enumerates
<1>4. ASSUME NEW k \in 1..Len(p)  PROVE \E i \in 1..Len(s) : i \in I /\ p[k] = s[i]
  BY <1>3
<1>5. ASSUME NEW i \in 1..Len(s), i \in I  PROVE \E k \in 1..Len(p) : p[k] = s[i]
  BY <1>3, <1>5
<1> QED  BY <1>1, <1>4, <1>5, LenProperties DEF p

(* What is different stays different.                                      *)
LEMMA KeptDiffer ==
  ASSUME NEW X, NEW s \in Seq(X), NEW I,
         \A i, j \in 1..Len(s) : i \in I /\ j \in I /\ s[i] = s[j] => i = j
  PROVE  \A k, l \in 1..Len(Kept(s, I)) : Kept(s, I)[k] = Kept(s, I)[l] => k = l
<1> DEFINE p == Kept(s, I)
<1>1. p \in Seq(X)
  BY KeptIsKept
<1>2. PICK m : KeptBy(p, m, s, I)
  BY KeptIsKept
<1> HIDE DEF p
<1>3. /\ m \in [1..Len(p) -> I \cap 1..Len(s)]
      /\ \A k, l \in 1..Len(p) : k < l => m[k] < m[l]
      /\ \A k \in 1..Len(p) : p[k] = s[m[k]]
  BY <1>2 DEF KeptBy, Enumerates
<1>4. Len(p) \in Nat
  BY <1>1, LenProperties
<1>5. ASSUME NEW k \in 1..Len(p), NEW l \in 1..Len(p), p[k] = p[l]  PROVE k = l
  <2>1. m[k] \in 1..Len(s) /\ m[l] \in 1..Len(s) /\ m[k] \in I /\ m[l] \in I /\ s[m[k]] = s[m[l]]
    BY <1>3, <1>5
  <2>10. m[k] = m[l]
    BY <2>1
  <2>2. ~(k < l) /\ ~(l < k)
    <3>1. ~(m[k] < m[l]) /\ ~(m[l] < m[k])
      BY <2>1, <2>10
    <3> QED  BY <1>3, <3>1
  <2> QED  BY <1>4, <2>2
<1> QED  BY <1>5 DEF p

-----------------------------------------------------------------------------
(* Only the indices of the list count.                                     *)
LEMMA KeptSame ==
  ASSUME NEW X, NEW s \in Seq(X), NEW I, NEW J, I \cap 1..Len(s) = J \cap 1..Len(s)
  PROVE  Kept(s, I) = Kept(s, J)
<1> DEFINE p == Kept(s, I)
<1>1. p \in Seq(X)
  BY KeptIsKept
<1>2. PICK m : KeptBy(p, m, s, I)
  BY KeptIsKept
<1> HIDE DEF p
<1>3. KeptBy(p, m, s, J)
  BY <1>2 DEF KeptBy
<1>4. p = Kept(s, J)
  BY <1>1, <1>3, KeptIsOnly
<1> QED  BY <1>4 DEF p

LEMMA KeptAll ==
  ASSUME NEW X, NEW s \in Seq(X), NEW I, 1..Len(s) \subseteq I
  PROVE  Kept(s, I) = s
<1> DEFINE m == [k \in 1..Len(s) |-> k]
<1>1. Len(s) \in Nat
  BY LenProperties
<1>2. m \in [1..Len(s) -> I \cap 1..Len(s)]
  OBVIOUS
<1>3. \A k \in 1..Len(s) : m[k] = k
  OBVIOUS
<1> HIDE DEF m
<1>4. KeptBy(s, m, s, I)
  BY <1>1, <1>2, <1>3 DEF KeptBy, Enumerates
<1>5. s = Kept(s, I)
  BY <1>4, KeptIsOnly
<1> QED  BY <1>5

LEMMA KeptNone ==
  ASSUME NEW X, NEW s \in Seq(X), NEW I, I \cap 1..Len(s) = {}
  PROVE  Kept(s, I) = <<>>
<1> DEFINE m == [k \in 1..0 |-> k]
           e == <<>>
<1>1. e \in Seq(X) /\ Len(e) = 0 /\ 1..0 = {}
  OBVIOUS
<1> HIDE DEF e
<1>2. m \in [1..0 -> {}]
  BY <1>1
<1> HIDE DEF m
<1>3. KeptBy(e, m, s, I)
  BY <1>1, <1>2 DEF KeptBy, Enumerates
<1>4. e = Kept(s, I)
  BY <1>1, <1>3, KeptIsOnly
<1> QED  BY <1>4 DEF e

(* How much is kept does not depend on what the elements are.              *)
LEMMA KeptLength ==
  ASSUME NEW X, NEW s \in Seq(X), NEW Y, NEW u \in Seq(Y), Len(u) = Len(s), NEW I
  PROVE  Len(Kept(u, I)) = Len(Kept(s, I))
<1>1. PICK p : p = Kept(s, I)
  OBVIOUS
<1>2. PICK q : q = Kept(u, I)
  OBVIOUS
<1>3. PICK m : KeptBy(p, m, s, I)
  BY <1>1, KeptIsKept
<1>4. PICK n : KeptBy(q, n, u, I)
  BY <1>2, KeptIsKept
<1>5. PICK S : S = I \cap 1..Len(s)
  OBVIOUS
<1>6. S \subseteq Nat
  BY <1>5
<1>7. Enumerates(m, Len(p), S) /\ Enumerates(n, Len(q), S)
  BY <1>3, <1>4, <1>5 DEF KeptBy
<1> QED  BY <1>1, <1>2, <1>6, <1>7, EnumerationIsUnique

(* What is kept of a list with one element more.                           *)
LEMMA KeptAppend ==
  ASSUME NEW X, NEW s \in Seq(X), NEW e \in X, NEW I
  PROVE  Kept(Append(s, e), I) =
           IF Len(s) + 1 \in I THEN Append(Kept(s, I), e) ELSE Kept(s, I)
<1> DEFINE t == Append(s, e)
           p == Kept(s, I)
           L == Len(s)
           n == Len(p)
<1>1. /\ t \in Seq(X) /\ Len(t) = L + 1 /\ t[L + 1] = e
      /\ \A i \in 1..L : t[i] = s[i]
  BY AppendProperties
<1>2. p \in Seq(X)
  BY KeptIsKept
<1>3. PICK m : KeptBy(p, m, s, I)
  BY KeptIsKept
<1> HIDE DEF p
<1>4. L \in Nat /\ n \in Nat
  BY <1>2, LenProperties
<1> DEFINE S == I \cap 1..L
<1>5. Enumerates(m, n, S) /\ \A k \in 1..n : p[k] = s[m[k]]
  BY <1>3 DEF KeptBy
<1>6. \A k \in 1..n : m[k] \in 1..L
  BY <1>5 DEF Enumerates
<1>7. CASE L + 1 \notin I
  <2>1. I \cap 1..(L + 1) = S
    BY <1>4, <1>7
  <2>2. KeptBy(p, m, t, I)
    BY <1>1, <1>5, <1>6, <2>1 DEF KeptBy
  <2> HIDE DEF t
  <2>3. p = Kept(t, I)
    BY <1>1, <1>2, <2>2, KeptIsOnly
  <2> QED  BY <1>7, <2>3 DEF t, p
<1>8. CASE L + 1 \in I
  <2> DEFINE q == [k \in 1..(n + 1) |-> IF k <= n THEN m[k] ELSE L + 1]
             r == Append(p, e)
             i == L + 1
  <2>1. I \cap 1..(L + 1) = S \cup {i}
    BY <1>4, <1>8
  <2>2. i \in Nat /\ S \subseteq Nat /\ \A j \in S : j < i
    BY <1>4
  <2>3. /\ r \in Seq(X) /\ Len(r) = n + 1 /\ r[n + 1] = e
        /\ \A k \in 1..n : r[k] = p[k]
    BY <1>2, AppendProperties
  <2>4. /\ q[n + 1] = L + 1
        /\ \A k \in 1..n : q[k] = m[k]
        /\ \A k \in 1..(n + 1) : k \in 1..n \/ k = n + 1
        /\ q = [k \in 1..(n + 1) |-> IF k <= n THEN m[k] ELSE i]
    BY <1>4
  <2> HIDE DEF q, r, S, L, n, i
  <2>5. Enumerates(q, n + 1, S \cup {i})
    BY <1>4, <1>5, <2>2, <2>4, EnumeratesOneMore
  <2> HIDE DEF t
  <2>6. \A k \in 1..(n + 1) : r[k] = t[q[k]]
    <3>1. ASSUME NEW k \in 1..n  PROVE r[k] = t[q[k]]
      BY <1>1, <1>5, <1>6, <2>3, <2>4, <3>1
    <3> QED  BY <1>1, <2>3, <2>4, <3>1
  <2>7. KeptBy(r, q, t, I)
    BY <1>1, <2>1, <2>3, <2>5, <2>6 DEF KeptBy
  <2>8. r = Kept(t, I)
    BY <1>1, <2>3, <2>7, KeptIsOnly
  <2> QED  BY <1>8, <2>8 DEF t, p, r, L
<1> QED  BY <1>7, <1>8

(* What is kept of two lists, one after the other.                         *)
LEMMA KeptConcat ==
  ASSUME NEW X, NEW s \in Seq(X), NEW u \in Seq(X), NEW I
  PROVE  Kept(s \o u, I) = Kept(s, I) \o Kept(u, {i \in 1..Len(u) : Len(s) + i \in I})
<1> DEFINE J == {i \in 1..Len(u) : Len(s) + i \in I}
           t == s \o u
           p == Kept(s, I)
           q == Kept(u, J)
           r == p \o q
           L == Len(s)
           M == Len(u)
           a == Len(p)
           b == Len(q)
<1>1. L \in Nat /\ M \in Nat /\ J \subseteq 1..M /\ J \cap 1..M = J
      /\ \A i \in 1..M : i \in J <=> L + i \in I
  BY LenProperties
<1>2. /\ t \in Seq(X) /\ Len(t) = L + M
      /\ \A i \in 1..L : t[i] = s[i]
      /\ \A i \in 1..M : t[L + i] = u[i]
  BY ConcatProperties
<1>3. p \in Seq(X) /\ q \in Seq(X)
  BY KeptIsKept
<1>4. a \in Nat /\ b \in Nat
  BY <1>3, LenProperties
<1> HIDE DEF J
<1>5. PICK m : KeptBy(p, m, s, I)
  BY KeptIsKept
<1>6. PICK n : KeptBy(q, n, u, J)
  BY KeptIsKept
<1> HIDE DEF p, q
<1>7. /\ r \in Seq(X) /\ Len(r) = a + b
      /\ \A k \in 1..a : r[k] = p[k]
      /\ \A k \in 1..b : r[a + k] = q[k]
  BY <1>3, ConcatProperties
<1> HIDE DEF r, t, L, M, a, b
<1>8. /\ \A k \in 1..a : m[k] \in I /\ m[k] \in 1..L /\ p[k] = s[m[k]]
      /\ \A k, l \in 1..a : k < l => m[k] < m[l]
      /\ \A i \in I \cap 1..L : \E k \in 1..a : m[k] = i
  BY <1>5 DEF KeptBy, Enumerates, a, L
<1>9. /\ \A k \in 1..b : n[k] \in J /\ n[k] \in 1..M /\ q[k] = u[n[k]]
      /\ \A k, l \in 1..b : k < l => n[k] < n[l]
      /\ \A i \in J : \E k \in 1..b : n[k] = i
  BY <1>1, <1>6 DEF KeptBy, Enumerates, b, M
<1> DEFINE w == [k \in 1..(a + b) |-> IF k <= a THEN m[k] ELSE L + n[k - a]]
           S == I \cap 1..(L + M)
<1>10. /\ \A k \in 1..a : k \in 1..(a + b) /\ w[k] = m[k] /\ m[k] \in S
       /\ \A k \in 1..b : a + k \in 1..(a + b) /\ w[a + k] = L + n[k] /\ L + n[k] \in S
  <2>1. \A k \in 1..a : k \in 1..(a + b) /\ w[k] = m[k] /\ m[k] \in S
    BY <1>1, <1>4, <1>8
  <2>2. \A k \in 1..b : a + k \in 1..(a + b) /\ ~(a + k <= a) /\ (a + k) - a = k
    BY <1>4
  <2>3. \A k \in 1..b : w[a + k] = L + n[k]
    BY <2>2
  <2>4. \A k \in 1..b : L + n[k] \in S
    BY <1>1, <1>9
  <2> QED  BY <2>1, <2>2, <2>3, <2>4
<1>11. \A k \in 1..(a + b) : k \in 1..a \/ \E l \in 1..b : k = a + l
  <2>1. \A k \in 1..(a + b) : ~(k \in 1..a) => k - a \in 1..b /\ k = a + (k - a)
    BY <1>4
  <2> QED  BY <2>1
<1>12. w \in [1..(a + b) -> S]
  <2>1. w = [k \in 1..(a + b) |-> w[k]]
    OBVIOUS
  <2> HIDE DEF w, S
  <2>2. \A k \in 1..(a + b) : w[k] \in S
    BY <1>10, <1>11
  <2> QED  BY <2>1, <2>2
<1> HIDE DEF w
<1>13. ASSUME NEW k \in 1..(a + b), NEW l \in 1..(a + b), k < l  PROVE w[k] < w[l]
  <2>1. CASE k \in 1..a /\ l \in 1..a
    BY <1>8, <1>10, <1>13, <2>1
  <2>2. ASSUME k \in 1..a, NEW j \in 1..b, l = a + j  PROVE w[k] < w[l]
    <3>1. w[k] = m[k] /\ m[k] \in 1..L /\ w[l] = L + n[j] /\ n[j] \in 1..M
      BY <1>8, <1>9, <1>10, <2>2
    <3> QED  BY <1>1, <3>1
  <2>3. ASSUME NEW i \in 1..b, k = a + i, NEW j \in 1..b, l = a + j  PROVE w[k] < w[l]
    <3>1. i < j
      BY <1>4, <1>13, <2>3
    <3>2. n[i] < n[j] /\ n[i] \in 1..M /\ n[j] \in 1..M
      BY <1>9, <3>1
    <3>3. w[k] = L + n[i] /\ w[l] = L + n[j]
      BY <1>10, <2>3
    <3> QED  BY <1>1, <3>2, <3>3
  <2>4. ASSUME l \in 1..a  PROVE k \in 1..a
    BY <1>4, <1>13, <2>4
  <2> QED  BY <1>11, <2>1, <2>2, <2>3, <2>4
<1>14. ASSUME NEW i \in S  PROVE \E k \in 1..(a + b) : w[k] = i
  <2>1. CASE i \in 1..L
    <3>1. PICK k \in 1..a : m[k] = i
      BY <1>8, <2>1
    <3> QED  BY <1>10, <3>1
  <2>2. CASE i \notin 1..L
    <3>1. i - L \in 1..M /\ L + (i - L) = i
      BY <1>1, <2>2
    <3>2. i - L \in J
      BY <1>1, <3>1
    <3>3. PICK k \in 1..b : n[k] = i - L
      BY <1>9, <3>2
    <3> QED  BY <1>10, <3>1, <3>3
  <2> QED  BY <2>1, <2>2
<1>15. \A k \in 1..(a + b) : r[k] = t[w[k]]
  <2>1. \A k \in 1..a : r[k] = t[w[k]]
    BY <1>2, <1>7, <1>8, <1>10
  <2>2. \A k \in 1..b : r[a + k] = t[w[a + k]]
    BY <1>2, <1>7, <1>9, <1>10
  <2> QED  BY <1>11, <2>1, <2>2
<1>16. Len(t) = L + M /\ Len(r) = a + b
  BY <1>2, <1>7
<1>17. KeptBy(r, w, t, I)
  <2> HIDE DEF w, S
  <2>0. a + b \in Nat
    BY <1>4
  <2>1. \A k, l \in 1..(a + b) : k < l => w[k] < w[l]
    BY <1>13
  <2>2. Enumerates(w, a + b, S)
    BY <1>12, <1>14, <2>0, <2>1 DEF Enumerates
  <2> QED  BY <1>15, <1>16, <2>2 DEF KeptBy, S
<1>18. t \in Seq(X) /\ r \in Seq(X)
  BY <1>2, <1>7
<1>19. r = Kept(t, I)
  BY <1>17, <1>18, KeptIsOnly
<1> QED  BY <1>19 DEF r, t, p, q, J

(* What is kept of what is kept, m being where that is.                    *)
LEMMA KeptAgain ==
  ASSUME NEW X, NEW s \in Seq(X), NEW I, NEW J, NEW K, K \cap 1..Len(s) \subseteq I,
         NEW m, KeptBy(Kept(s, I), m, s, I),
         \A k \in 1..Len(Kept(s, I)) : k \in J <=> m[k] \in K
  PROVE  Kept(Kept(s, I), J) = Kept(s, K)
<1> DEFINE p == Kept(s, I)
           q == Kept(p, J)
           L == Len(s)
           a == Len(p)
           b == Len(q)
<1>1. p \in Seq(X)
  BY KeptIsKept
<1>2. KeptBy(p, m, s, I) /\ \A k \in 1..a : k \in J <=> m[k] \in K
  OBVIOUS
<1> HIDE DEF p
<1>3. q \in Seq(X)
  BY <1>1, KeptIsKept
<1>4. PICK n : KeptBy(q, n, p, J)
  BY <1>1, KeptIsKept
<1>0. L \in Nat /\ a \in Nat /\ b \in Nat
  BY <1>1, <1>3, LenProperties
<1> HIDE DEF q, L, a, b
<1>5. /\ \A k \in 1..a : m[k] \in I \cap 1..L /\ p[k] = s[m[k]]
      /\ \A k, l \in 1..a : k < l => m[k] < m[l]
      /\ \A i \in I \cap 1..L : \E k \in 1..a : m[k] = i
  BY <1>2 DEF KeptBy, Enumerates, a, L
<1>6. /\ \A k \in 1..b : n[k] \in J \cap 1..a /\ q[k] = p[n[k]]
      /\ \A k, l \in 1..b : k < l => n[k] < n[l]
      /\ \A i \in J \cap 1..a : \E k \in 1..b : n[k] = i
  BY <1>4 DEF KeptBy, Enumerates, a, b
<1> DEFINE w == [k \in 1..b |-> m[n[k]]]
           S == K \cap 1..L
<1>7. \A k \in 1..b : w[k] = m[n[k]]
  OBVIOUS
<1>8. w \in [1..b -> S]
  <2>1. \A k \in 1..b : m[n[k]] \in S
    BY <1>2, <1>5, <1>6
  <2> QED  BY <2>1
<1> HIDE DEF w
<1>9. \A k, l \in 1..b : k < l => w[k] < w[l]
  BY <1>5, <1>6, <1>7
<1>10. ASSUME NEW i \in S  PROVE \E k \in 1..b : w[k] = i
  <2>1. i \in I \cap 1..L
    BY DEF L
  <2>2. PICK k \in 1..a : m[k] = i
    BY <1>5, <2>1
  <2>3. k \in J \cap 1..a
    BY <1>2, <2>2
  <2>4. PICK l \in 1..b : n[l] = k
    BY <1>6, <2>3
  <2> QED  BY <1>7, <2>2, <2>4
<1>11. \A k \in 1..b : q[k] = s[w[k]]
  BY <1>5, <1>6, <1>7
<1>12. KeptBy(q, w, s, K)
  BY <1>0, <1>8, <1>9, <1>10, <1>11 DEF KeptBy, Enumerates, b, L
<1>13. q = Kept(s, K)
  BY <1>3, <1>12, KeptIsOnly
<1> QED  BY <1>13 DEF q, p

-----------------------------------------------------------------------------
(* Induction over lists that grow at the back, and at the front.           *)
LEMMA InductBack ==
  ASSUME NEW X, NEW T, <<>> \in T,
         \A s \in Seq(X), e \in X : s \in T => Append(s, e) \in T
  PROVE  Seq(X) \subseteq T
<1> DEFINE S == {n \in Nat : \A s \in Seq(X) : Len(s) = n => s \in T}
<1>1. 0 \in S
  <2>1. \A s \in Seq(X) : Len(s) = 0 => s = <<>>
    BY EmptySeq
  <2> QED  BY <2>1
<1>2. ASSUME NEW n \in Nat, n \in S  PROVE n + 1 \in S
  <2>1. ASSUME NEW s \in Seq(X), Len(s) = n + 1  PROVE s \in T
    <3> DEFINE r == SubSeq(s, 1, n)
    <3>1. /\ \A i \in 1..(n + 1) : s[i] \in X
          /\ 1..n \subseteq 1..(n + 1) /\ n + 1 \in 1..(n + 1)
      BY <2>1, ElementOfSeq
    <3>2. r \in Seq(X) /\ Len(r) = n /\ \A i \in 1..n : r[i] = s[i]
      BY <2>1, <3>1
    <3> HIDE DEF r
    <3>3. r \in T
      BY <1>2, <3>2
    <3>4. Append(r, s[n + 1]) \in T
      BY <3>1, <3>2, <3>3
    <3> DEFINE u == Append(r, s[n + 1])
    <3>5. /\ u \in Seq(X) /\ Len(u) = n + 1 /\ u[n + 1] = s[n + 1]
          /\ \A i \in 1..n : u[i] = r[i]
      BY <3>1, <3>2, AppendProperties
    <3> HIDE DEF u
    <3>6. \A i \in 1..(n + 1) : u[i] = s[i]
      <4>1. \A i \in 1..(n + 1) : i \in 1..n \/ i = n + 1
        OBVIOUS
      <4> QED  BY <3>2, <3>5, <4>1
    <3>7. u = s
      BY <2>1, <3>5, <3>6, SeqEqual
    <3> QED  BY <3>4, <3>7 DEF u
  <2> QED  BY <2>1
<1> HIDE DEF S
<1>3. Nat \subseteq S
  BY <1>1, <1>2, Induct
<1> QED  BY <1>3, LenProperties DEF S

LEMMA InductFront ==
  ASSUME NEW X, NEW T, <<>> \in T,
         \A s \in Seq(X), e \in X : s \in T => <<e>> \o s \in T
  PROVE  Seq(X) \subseteq T
<1> DEFINE S == {n \in Nat : \A s \in Seq(X) : Len(s) = n => s \in T}
<1>1. 0 \in S
  <2>1. \A s \in Seq(X) : Len(s) = 0 => s = <<>>
    BY EmptySeq
  <2> QED  BY <2>1
<1>2. ASSUME NEW n \in Nat, n \in S  PROVE n + 1 \in S
  <2>1. ASSUME NEW s \in Seq(X), Len(s) = n + 1  PROVE s \in T
    <3> DEFINE r == Tail(s)
    <3>1. s # <<>> /\ \A i \in 1..(n + 1) : s[i] \in X
      BY <2>1, ElementOfSeq
    <3>2. r \in Seq(X) /\ Len(r) = n
      BY <2>1, <3>1, HeadTailProperties
    <3>3. s[1] \in X /\ s = <<s[1]>> \o r
      BY <2>1, <3>1, <3>2
    <3> HIDE DEF r
    <3>4. r \in T
      BY <1>2, <3>2
    <3> QED  BY <3>2, <3>3, <3>4
  <2> QED  BY <2>1
<1> HIDE DEF S
<1>3. Nat \subseteq S
  BY <1>1, <1>2, Induct
<1> QED  BY <1>3, LenProperties DEF S

=============================================================================
