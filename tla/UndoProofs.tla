----------------------------- MODULE UndoProofs -----------------------------
(***************************************************************************)
(* What is proved of Undo.  In this order:                                 *)
(*                                                                         *)
(*  - its folds, by their steps;                                           *)
(*  - preprocess of the ops of many toplevels, as preprocess of each       *)
(*    toplevel's own;                                                      *)
(*  - a list of ops of one toplevel as a timeline: what it shows, what     *)
(*    redoing will show (Ahead) and what undoing will (Was), and how each  *)
(*    changes when an undo, a redo or another op is added.                 *)
(***************************************************************************)
EXTENDS Undo, SubsequenceProofs, TLAPS

(* What is evaluated once is what is evaluated.                            *)
LEMMA Alone == \A z : (CHOOSE y \in {z} : TRUE) = z
  OBVIOUS

(* Step 1 of preprocess is a fold from the back.                           *)
Pairs(X) == [ok : BOOLEAN, ops : Seq(X)]

BuildsPaired(f, s) ==
  /\ f[0] = [ok |-> TRUE, ops |-> <<>>]
  /\ \A k \in 1..Len(s) : f[k] = PairOff(s[Len(s) + 1 - k], f[k - 1])
  /\ Paired(s) = f[Len(s)]

(* One op more, and it is still a list of ops.                             *)
LEMMA PairOffTyped ==
  ASSUME NEW X, NEW op \in X, NEW acc \in Pairs(X)
  PROVE  PairOff(op, acc) \in Pairs(X)
<1>1. acc.ops \in Seq(X) /\ acc.ok \in BOOLEAN
  BY DEF Pairs
<1>2. <<op>> \o acc.ops \in Seq(X)
  <2>1. <<op>> \in Seq(X)
    OBVIOUS
  <2> QED  BY <1>1, <2>1, ConcatProperties
<1>3. acc.ops # <<>> => Tail(acc.ops) \in Seq(X)
  BY <1>1
<1> QED  BY <1>1, <1>2, <1>3 DEF PairOff, Pairs

(* Paired is what its definition says: a function of the ops taken so far  *)
(* is built by PairOff.                                                    *)
LEMMA PairedIsBuilt ==
  ASSUME NEW X, NEW s \in Seq(X)
  PROVE  \E f \in [0..Len(s) -> Pairs(X)] : BuildsPaired(f, s)
<1> DEFINE L == Len(s)
           P == Pairs(X)
           base == [ok |-> TRUE, ops |-> <<>>]
           Once1(op, v) == CHOOSE y \in {PairOff(op, x) : x \in {v}} : TRUE
           Body(g) == [k \in 0..L |-> IF k = 0 THEN base ELSE Once1(s[L + 1 - k], g[k - 1])]
           paired == CHOOSE g : g = Body(g)
           step == [a \in P \X (1..L) |-> PairOff(s[L + 1 - a[2]], a[1])]
<1>1. L \in Nat /\ \A n \in 1..L : s[n] \in X
  BY LenProperties, ElementOfSeq
<1>2. Paired(s) = paired[L]
  BY DEF Paired, Once
<1>3. ASSUME NEW op, NEW v  PROVE Once1(op, v) = PairOff(op, v)
  <2> DEFINE z == PairOff(op, v)
  <2>1. {PairOff(op, x) : x \in {v}} = {z}
    BY Zenon
  <2> HIDE DEF z
  <2>2. (CHOOSE y \in {z} : TRUE) = z
    BY Alone
  <2> QED  BY <2>1, <2>2, Zenon DEF z
<1> HIDE DEF Once1, L
<1>4. \A n \in 1..L : L + 1 - n \in 1..L /\ n - 1 \in 0..L /\ n \in 0..L /\ n # 0
  BY <1>1
<1>5. 0 \in 0..L /\ L \in 0..L /\ \A n \in 0..L : n # 0 => n \in 1..L
  BY <1>1
<1>6. \A q \in P, n \in 1..L : step[<<q, n>>] = PairOff(s[L + 1 - n], q)
  OBVIOUS
<1>7. \A q \in P, n \in 1..L : step[<<q, n>>] \in P
  <2>1. ASSUME NEW q \in P, NEW n \in 1..L  PROVE step[<<q, n>>] \in P
    <3>1. s[L + 1 - n] \in X
      BY <1>1, <1>4
    <3>2. PairOff(s[L + 1 - n], q) \in P
      BY <3>1, PairOffTyped
    <3> QED  BY <1>6, <3>2
  <2> QED  BY <2>1
<1>8. base \in P
  BY DEF Pairs
<1> HIDE DEF step, P, base
<1>9. PICK f \in [0..L -> P] :
        f[0] = base /\ \A n \in 1..L : f[n] = step[<<f[n - 1], n>>]
  <2>1. IsStep(step, base, L, P)
    BY <1>1, <1>7, <1>8 DEF IsStep
  <2>2. \E f \in [0..L -> P] : Builds(f, step, base, L)
    BY <2>1, Recursion
  <2> QED  BY <2>2 DEF Builds
<1>10. \A n \in 1..L : f[n] = Once1(s[L + 1 - n], f[n - 1])
  BY <1>3, <1>4, <1>6, <1>9
<1>11. f = Body(f)
  <2>1. f = [n \in 0..L |-> f[n]]
    BY <1>9
  <2> QED  BY <1>5, <1>9, <1>10, <2>1
<1>12. paired = Body(paired)
  BY <1>11, Zenon
<1> HIDE DEF paired
<1>13. /\ paired[0] = base
       /\ \A n \in 1..L : paired[n] = PairOff(s[L + 1 - n], paired[n - 1])
       /\ paired = [n \in 0..L |-> paired[n]]
  <2> HIDE DEF Body
  <2>1. paired[0] = Body(paired)[0] /\ \A n \in 1..L : paired[n] = Body(paired)[n]
    BY <1>12
  <2>2. Body(paired)[0] = base
    BY <1>5 DEF Body
  <2>3. \A n \in 1..L : Body(paired)[n] = PairOff(s[L + 1 - n], paired[n - 1])
    BY <1>3, <1>4 DEF Body
  <2>4. Body(paired) = [n \in 0..L |-> Body(paired)[n]]
    BY DEF Body
  <2> QED  BY <1>12, <2>1, <2>2, <2>3, <2>4
<1> HIDE DEF Body
<1>14. \A n \in 0..L : paired[n] \in P
  <2> DEFINE S == {n \in 0..L : paired[n] \in P}
  <2>1. 0 \in S
    BY <1>5, <1>8, <1>13
  <2>2. ASSUME NEW n \in 1..L, n - 1 \in S  PROVE n \in S
    <3>1. paired[n] = step[<<paired[n - 1], n>>]
      BY <1>6, <1>13, <2>2
    <3> QED  BY <1>4, <1>7, <2>2, <3>1
  <2> HIDE DEF S
  <2>3. 0..L \subseteq S
    BY <1>1, <2>1, <2>2, InductTo
  <2> QED  BY <2>3 DEF S
<1>15. paired \in [0..L -> P]
  BY <1>13, <1>14
<1> QED  BY <1>2, <1>13, <1>15 DEF L, P, base, BuildsPaired

(* Step 3 is one from the front.                                           *)
BuildsDropped(f, s) ==
  /\ f[0] = <<>>
  /\ \A k \in 1..Len(s) : f[k] = DropUndone(f[k - 1], s[k])
  /\ Dropped(s) = f[Len(s)]

(* An undo leaves some of the ops, any other op is added.                  *)
LEMMA DropUndoneTyped ==
  ASSUME NEW X, NEW op \in X, NEW acc \in Seq(X)
  PROVE  DropUndone(acc, op) \in Seq(X)
<1> DEFINE I == {i \in DOMAIN acc : \/ acc[i].tl # op.tl
                                    \/ \E j \in (i + 1)..Len(acc) : SavepointOf(acc[j], op.tl)}
<1>1. DropUndone(acc, op) = IF op.kind # "undo" THEN Append(acc, op) ELSE Kept(acc, I)
  BY DEF DropUndone
<1> HIDE DEF I
<1>2. Kept(acc, I) \in Seq(X)
  BY KeptIsKept
<1>3. Append(acc, op) \in Seq(X)
  BY AppendProperties
<1> QED  BY <1>1, <1>2, <1>3

(* Dropped is built by DropUndone.                                         *)
LEMMA DroppedIsBuilt ==
  ASSUME NEW X, NEW s \in Seq(X)
  PROVE  \E f \in [0..Len(s) -> Seq(X)] : BuildsDropped(f, s)
<1> DEFINE L == Len(s)
           P == Seq(X)
           base == <<>>
           Once1(op, v) == CHOOSE y \in {DropUndone(x, op) : x \in {v}} : TRUE
           Body(g) == [k \in 0..L |-> IF k = 0 THEN base ELSE Once1(s[k], g[k - 1])]
           dropped == CHOOSE g : g = Body(g)
           step == [a \in P \X (1..L) |-> DropUndone(a[1], s[a[2]])]
<1>1. L \in Nat /\ \A n \in 1..L : s[n] \in X
  BY LenProperties, ElementOfSeq
<1>2. Dropped(s) = dropped[L]
  BY DEF Dropped, Once
<1>3. ASSUME NEW op, NEW v  PROVE Once1(op, v) = DropUndone(v, op)
  <2> DEFINE z == DropUndone(v, op)
  <2>1. {DropUndone(x, op) : x \in {v}} = {z}
    BY Zenon
  <2> HIDE DEF z
  <2>2. (CHOOSE y \in {z} : TRUE) = z
    BY Alone
  <2> QED  BY <2>1, <2>2, Zenon DEF z
<1> HIDE DEF Once1, L
<1>4. \A n \in 1..L : n - 1 \in 0..L /\ n \in 0..L /\ n # 0
  BY <1>1
<1>5. 0 \in 0..L /\ L \in 0..L /\ \A n \in 0..L : n # 0 => n \in 1..L
  BY <1>1
<1>6. \A q \in P, n \in 1..L : step[<<q, n>>] = DropUndone(q, s[n])
  OBVIOUS
<1>7. \A q \in P, n \in 1..L : step[<<q, n>>] \in P
  <2>1. ASSUME NEW q \in P, NEW n \in 1..L  PROVE step[<<q, n>>] \in P
    <3>1. s[n] \in X
      BY <1>1, <1>4
    <3>2. DropUndone(q, s[n]) \in P
      BY <3>1, DropUndoneTyped
    <3> QED  BY <1>6, <3>2
  <2> QED  BY <2>1
<1>8. base \in P
  OBVIOUS
<1> HIDE DEF step, P, base
<1>9. PICK f \in [0..L -> P] :
        f[0] = base /\ \A n \in 1..L : f[n] = step[<<f[n - 1], n>>]
  <2>1. IsStep(step, base, L, P)
    BY <1>1, <1>7, <1>8 DEF IsStep
  <2>2. \E f \in [0..L -> P] : Builds(f, step, base, L)
    BY <2>1, Recursion
  <2> QED  BY <2>2 DEF Builds
<1>10. \A n \in 1..L : f[n] = Once1(s[n], f[n - 1])
  BY <1>3, <1>4, <1>6, <1>9
<1>11. f = Body(f)
  <2>1. f = [n \in 0..L |-> f[n]]
    BY <1>9
  <2> QED  BY <1>5, <1>9, <1>10, <2>1
<1>12. dropped = Body(dropped)
  BY <1>11, Zenon
<1> HIDE DEF dropped
<1>13. /\ dropped[0] = base
       /\ \A n \in 1..L : dropped[n] = DropUndone(dropped[n - 1], s[n])
       /\ dropped = [n \in 0..L |-> dropped[n]]
  <2> HIDE DEF Body
  <2>1. dropped[0] = Body(dropped)[0] /\ \A n \in 1..L : dropped[n] = Body(dropped)[n]
    BY <1>12
  <2>2. Body(dropped)[0] = base
    BY <1>5 DEF Body
  <2>3. \A n \in 1..L : Body(dropped)[n] = DropUndone(dropped[n - 1], s[n])
    BY <1>3, <1>4 DEF Body
  <2>4. Body(dropped) = [n \in 0..L |-> Body(dropped)[n]]
    BY DEF Body
  <2> QED  BY <1>12, <2>1, <2>2, <2>3, <2>4
<1> HIDE DEF Body
<1>14. \A n \in 0..L : dropped[n] \in P
  <2> DEFINE S == {n \in 0..L : dropped[n] \in P}
  <2>1. 0 \in S
    BY <1>5, <1>8, <1>13
  <2>2. ASSUME NEW n \in 1..L, n - 1 \in S  PROVE n \in S
    <3>1. dropped[n] = step[<<dropped[n - 1], n>>]
      BY <1>6, <1>13, <2>2
    <3> QED  BY <1>4, <1>7, <2>2, <3>1
  <2> HIDE DEF S
  <2>3. 0..L \subseteq S
    BY <1>1, <2>1, <2>2, InductTo
  <2> QED  BY <2>3 DEF S
<1>15. dropped \in [0..L -> P]
  BY <1>13, <1>14
<1> QED  BY <1>2, <1>13, <1>15 DEF L, P, base, BuildsDropped

-----------------------------------------------------------------------------
(* What both make of a list with one op more.                              *)
LEMMA PairedTyped ==
  ASSUME NEW X, NEW s \in Seq(X)
  PROVE  Paired(s) \in Pairs(X)
<1>1. PICK f \in [0..Len(s) -> Pairs(X)] : BuildsPaired(f, s)
  BY PairedIsBuilt
<1>2. Len(s) \in 0..Len(s)
  BY LenProperties
<1> QED  BY <1>1, <1>2 DEF BuildsPaired

(* Step 1 of an empty list.                                                *)
LEMMA PairedEmpty == Paired(<<>>) = [ok |-> TRUE, ops |-> <<>>]
<1> DEFINE e == <<>>
           X == {}
<1>1. e \in Seq(X) /\ Len(e) = 0
  OBVIOUS
<1> HIDE DEF e, X
<1>2. PICK f \in [0..Len(e) -> Pairs(X)] : BuildsPaired(f, e)
  BY <1>1, PairedIsBuilt
<1>3. Paired(e) = [ok |-> TRUE, ops |-> <<>>]
  BY <1>1, <1>2 DEF BuildsPaired
<1> QED  BY <1>3 DEF e

(* Step 1 takes the op in front last.                                      *)
LEMMA PairedCons ==
  ASSUME NEW X, NEW s \in Seq(X), NEW op \in X
  PROVE  Paired(<<op>> \o s) = PairOff(op, Paired(s))
<1> DEFINE t == <<op>> \o s
           L == Len(s)
<1>1. /\ t \in Seq(X) /\ Len(t) = L + 1 /\ t[1] = op
      /\ \A i \in 1..L : t[i + 1] = s[i]
  <2>1. <<op>> \in Seq(X) /\ Len(<<op>>) = 1 /\ <<op>>[1] = op
    OBVIOUS
  <2>2. L \in Nat
    BY LenProperties
  <2> QED  BY <2>1, <2>2, ConcatProperties
<1> HIDE DEF t
<1>2. L \in Nat
  BY LenProperties
<1>3. PICK f \in [0..L -> Pairs(X)] : BuildsPaired(f, s)
  BY PairedIsBuilt
<1>4. PICK g \in [0..(L + 1) -> Pairs(X)] : BuildsPaired(g, t)
  BY <1>1, PairedIsBuilt
<1>0. Len(s) = L
  OBVIOUS
<1> HIDE DEF L
<1>5. /\ f[0] = g[0] /\ Paired(s) = f[L] /\ Paired(t) = g[L + 1]
      /\ \A k \in 1..L : f[k] = PairOff(s[L + 1 - k], f[k - 1])
      /\ \A k \in 1..(L + 1) : g[k] = PairOff(t[L + 2 - k], g[k - 1])
  <2>1. /\ f[0] = [ok |-> TRUE, ops |-> <<>>] /\ Paired(s) = f[L]
        /\ \A k \in 1..L : f[k] = PairOff(s[L + 1 - k], f[k - 1])
    BY <1>0, <1>3 DEF BuildsPaired
  <2> DEFINE M == Len(t)
  <2>2. M = Len(t)
    OBVIOUS
  <2> HIDE DEF M
  <2>3. /\ g[0] = [ok |-> TRUE, ops |-> <<>>] /\ Paired(t) = g[M]
        /\ \A k \in 1..M : g[k] = PairOff(t[M + 1 - k], g[k - 1])
    BY <1>4, <2>2 DEF BuildsPaired
  <2>4. M = L + 1
    BY <1>1, <2>2
  <2>5. \A k \in 1..(L + 1) : M + 1 - k = L + 2 - k
    BY <1>2, <2>4
  <2> QED  BY <2>1, <2>3, <2>4, <2>5
<1> DEFINE S == {k \in 0..L : f[k] = g[k]}
<1>6. 0 \in S
  BY <1>2, <1>5
<1>7. ASSUME NEW k \in 1..L, k - 1 \in S  PROVE k \in S
  <2>1. k \in 1..(L + 1) /\ L + 1 - k \in 1..L /\ L + 2 - k = (L + 1 - k) + 1 /\ k \in 0..L
    BY <1>2
  <2>2. t[L + 2 - k] = s[L + 1 - k]
    BY <1>1, <2>1
  <2> QED  BY <1>5, <1>7, <2>1, <2>2
<1> HIDE DEF S
<1>8. 0..L \subseteq S
  BY <1>2, <1>6, <1>7, InductTo
<1>9. f[L] = g[L]
  BY <1>2, <1>8 DEF S
<1>10. L + 1 \in 1..(L + 1) /\ L + 2 - (L + 1) = 1 /\ (L + 1) - 1 = L
  BY <1>2
<1>11. g[L + 1] = PairOff(t[1], g[L])
  BY <1>5, <1>10
<1> QED  BY <1>1, <1>5, <1>9, <1>11 DEF t

(* Step 3 makes a list of ops of one.                                      *)
LEMMA DroppedTyped ==
  ASSUME NEW X, NEW s \in Seq(X)
  PROVE  Dropped(s) \in Seq(X)
<1>1. PICK f \in [0..Len(s) -> Seq(X)] : BuildsDropped(f, s)
  BY DroppedIsBuilt
<1>2. Len(s) \in 0..Len(s)
  BY LenProperties
<1> QED  BY <1>1, <1>2 DEF BuildsDropped

(* Step 3 of an empty list.                                                *)
LEMMA DroppedEmpty == Dropped(<<>>) = <<>>
<1> DEFINE e == <<>>
           X == {}
<1>1. e \in Seq(X) /\ Len(e) = 0
  OBVIOUS
<1> HIDE DEF e, X
<1>2. PICK f \in [0..Len(e) -> Seq(X)] : BuildsDropped(f, e)
  BY <1>1, DroppedIsBuilt
<1>3. Dropped(e) = <<>>
  BY <1>1, <1>2 DEF BuildsDropped
<1> QED  BY <1>3 DEF e

(* Step 3 takes the op at the end last.                                    *)
LEMMA DroppedAppend ==
  ASSUME NEW X, NEW s \in Seq(X), NEW op \in X
  PROVE  Dropped(Append(s, op)) = DropUndone(Dropped(s), op)
<1> DEFINE t == Append(s, op)
           L == Len(s)
<1>1. /\ t \in Seq(X) /\ Len(t) = L + 1 /\ t[L + 1] = op
      /\ \A i \in 1..L : t[i] = s[i]
  BY AppendProperties
<1> HIDE DEF t
<1>2. L \in Nat
  BY LenProperties
<1>3. PICK f \in [0..L -> Seq(X)] : BuildsDropped(f, s)
  BY DroppedIsBuilt
<1>4. PICK g \in [0..(L + 1) -> Seq(X)] : BuildsDropped(g, t)
  BY <1>1, DroppedIsBuilt
<1>0. Len(s) = L
  OBVIOUS
<1> HIDE DEF L
<1>5. /\ f[0] = g[0] /\ Dropped(s) = f[L] /\ Dropped(t) = g[L + 1]
      /\ \A k \in 1..L : f[k] = DropUndone(f[k - 1], s[k])
      /\ \A k \in 1..(L + 1) : g[k] = DropUndone(g[k - 1], t[k])
  BY <1>0, <1>1, <1>3, <1>4 DEF BuildsDropped
<1> DEFINE S == {k \in 0..L : f[k] = g[k]}
<1>6. 0 \in S
  BY <1>2, <1>5
<1>7. ASSUME NEW k \in 1..L, k - 1 \in S  PROVE k \in S
  <2>1. k \in 1..(L + 1) /\ k \in 0..L
    BY <1>2
  <2> QED  BY <1>1, <1>5, <1>7, <2>1
<1> HIDE DEF S
<1>8. 0..L \subseteq S
  BY <1>2, <1>6, <1>7, InductTo
<1>9. f[L] = g[L]
  BY <1>2, <1>8 DEF S
<1>10. L + 1 \in 1..(L + 1) /\ (L + 1) - 1 = L
  BY <1>2
<1> QED  BY <1>1, <1>5, <1>9, <1>10 DEF t

(* preprocess is step 1, the check of what is left in front, and step 3.   *)
LEMMA PreprocessIs ==
  ASSUME NEW ops
  PROVE  Preprocess(ops) =
           [ok |-> Paired(ops).ok /\ (Paired(ops).ops = <<>> \/ Head(Paired(ops).ops).kind # "redo"),
            ops |-> Dropped(Paired(ops).ops)]
<1> DEFINE Both(p) == [ok |-> p.ok /\ (p.ops = <<>> \/ Head(p.ops).kind # "redo"),
                       ops |-> CHOOSE y \in {Dropped(x) : x \in {p.ops}} : TRUE]
           v == Paired(ops)
           z == Both(v)
           d == Dropped(v.ops)
<1>1. Preprocess(ops) = CHOOSE y \in {Both(x) : x \in {v}} : TRUE
  BY DEF Preprocess, Once
<1>2. {Both(x) : x \in {v}} = {z}
  <2> HIDE DEF v, Both
  <2> QED  BY Zenon
<1>3. Preprocess(ops) = z
  <2> HIDE DEF z
  <2>1. (CHOOSE y \in {z} : TRUE) = z
    BY Alone
  <2> QED  BY <1>1, <1>2, <2>1
<1>4. {Dropped(x) : x \in {v.ops}} = {d}
  BY Zenon
<1>5. (CHOOSE y \in {d} : TRUE) = d
  <2> HIDE DEF d
  <2> QED  BY Alone
<1> QED  BY <1>3, <1>4, <1>5

(* What is shown of a toplevel is the replay of its own ops.               *)
LEMMA ReplayedIs ==
  ASSUME NEW reduced, NEW t
  PROVE  Replayed(reduced, t) = Replay(Own(reduced, t))
<1> DEFINE v == Own(reduced, t)
           z == Replay(v)
<1>1. Replayed(reduced, t) = CHOOSE y \in {Replay(x) : x \in {v}} : TRUE
  BY DEF Replayed, Once
<1>2. {Replay(x) : x \in {v}} = {z}
  BY Zenon
<1> HIDE DEF z
<1>3. (CHOOSE y \in {z} : TRUE) = z
  BY Alone
<1> QED  BY <1>1, <1>2, <1>3 DEF z

(* So is the replay of a list without undos.                               *)
BuildsReplay(f, s) ==
  /\ f[0] = Nothing
  /\ \A k \in 1..Len(s) : f[k] = Applied(f[k - 1], s[k])
  /\ Replay(s) = f[Len(s)]

(* Replay is built by Applied.                                             *)
LEMMA ReplayIsBuilt ==
  ASSUME NEW X, NEW s \in Seq(X), NEW V, Nothing \in V,
         \A v \in V : \A op \in X : Applied(v, op) \in V
  PROVE  \E f \in [0..Len(s) -> V] : BuildsReplay(f, s)
<1> DEFINE L == Len(s)
           P == V
           base == Nothing
           Once1(op, v) == CHOOSE y \in {Applied(x, op) : x \in {v}} : TRUE
           Body(g) == [k \in 0..L |-> IF k = 0 THEN base ELSE Once1(s[k], g[k - 1])]
           shown == CHOOSE g : g = Body(g)
           step == [a \in P \X (1..L) |-> Applied(a[1], s[a[2]])]
<1>0. Nothing \in V /\ \A v \in V : \A op \in X : Applied(v, op) \in V
  OBVIOUS
<1>1. L \in Nat /\ \A n \in 1..L : s[n] \in X
  BY LenProperties, ElementOfSeq
<1>2. Replay(s) = shown[L]
  BY DEF Replay, Once
<1>3. ASSUME NEW op, NEW v  PROVE Once1(op, v) = Applied(v, op)
  <2> DEFINE z == Applied(v, op)
  <2>1. {Applied(x, op) : x \in {v}} = {z}
    BY Zenon
  <2> HIDE DEF z
  <2>2. (CHOOSE y \in {z} : TRUE) = z
    BY Alone
  <2> QED  BY <2>1, <2>2, Zenon DEF z
<1> HIDE DEF Once1, L
<1>4. \A n \in 1..L : n - 1 \in 0..L /\ n \in 0..L /\ n # 0
  BY <1>1
<1>5. 0 \in 0..L /\ L \in 0..L /\ \A n \in 0..L : n # 0 => n \in 1..L
  BY <1>1
<1>6. \A q \in P, n \in 1..L : step[<<q, n>>] = Applied(q, s[n])
  OBVIOUS
<1>7. \A q \in P, n \in 1..L : step[<<q, n>>] \in P
  <2>1. ASSUME NEW q \in P, NEW n \in 1..L  PROVE step[<<q, n>>] \in P
    <3>1. s[n] \in X
      BY <1>1, <1>4
    <3>2. Applied(q, s[n]) \in P
      BY <3>1, <1>0
    <3> QED  BY <1>6, <3>2
  <2> QED  BY <2>1
<1>8. base \in P
  BY <1>0
<1> HIDE DEF step, P, base
<1>9. PICK f \in [0..L -> P] :
        f[0] = base /\ \A n \in 1..L : f[n] = step[<<f[n - 1], n>>]
  <2>1. IsStep(step, base, L, P)
    BY <1>1, <1>7, <1>8 DEF IsStep
  <2>2. \E f \in [0..L -> P] : Builds(f, step, base, L)
    BY <2>1, Recursion
  <2> QED  BY <2>2 DEF Builds
<1>10. \A n \in 1..L : f[n] = Once1(s[n], f[n - 1])
  BY <1>3, <1>4, <1>6, <1>9
<1>11. f = Body(f)
  <2>1. f = [n \in 0..L |-> f[n]]
    BY <1>9
  <2> QED  BY <1>5, <1>9, <1>10, <2>1
<1>12. shown = Body(shown)
  BY <1>11, Zenon
<1> HIDE DEF shown
<1>13. /\ shown[0] = base
       /\ \A n \in 1..L : shown[n] = Applied(shown[n - 1], s[n])
       /\ shown = [n \in 0..L |-> shown[n]]
  <2> HIDE DEF Body
  <2>1. shown[0] = Body(shown)[0] /\ \A n \in 1..L : shown[n] = Body(shown)[n]
    BY <1>12
  <2>2. Body(shown)[0] = base
    BY <1>5 DEF Body
  <2>3. \A n \in 1..L : Body(shown)[n] = Applied(shown[n - 1], s[n])
    BY <1>3, <1>4 DEF Body
  <2>4. Body(shown) = [n \in 0..L |-> Body(shown)[n]]
    BY DEF Body
  <2> QED  BY <1>12, <2>1, <2>2, <2>3, <2>4
<1> HIDE DEF Body
<1>14. \A n \in 0..L : shown[n] \in P
  <2> DEFINE S == {n \in 0..L : shown[n] \in P}
  <2>1. 0 \in S
    BY <1>5, <1>8, <1>13
  <2>2. ASSUME NEW n \in 1..L, n - 1 \in S  PROVE n \in S
    <3>1. shown[n] = step[<<shown[n - 1], n>>]
      BY <1>6, <1>13, <2>2
    <3> QED  BY <1>4, <1>7, <2>2, <3>1
  <2> HIDE DEF S
  <2>3. 0..L \subseteq S
    BY <1>1, <2>1, <2>2, InductTo
  <2> QED  BY <2>3 DEF S
<1>15. shown \in [0..L -> P]
  BY <1>13, <1>14
<1> QED  BY <1>2, <1>13, <1>15 DEF L, P, base, BuildsReplay


(* Replay of no op, and of one that makes a toplevel.                      *)
LEMMA ReplayShort ==
  /\ Replay(<<>>) = Nothing
  /\ \A op : op.kind \in {"set", "create"} =>
       Replay(<<op>>) = [by |-> op.by, name |-> op.name, gone |-> FALSE]
<1>1. Replay(<<>>) = Nothing
  <2> DEFINE e == <<>>
             V == {Nothing}
             X == {}
  <2>1. e \in Seq(X) /\ Len(e) = 0 /\ Nothing \in V /\ \A v \in V : \A op \in X : Applied(v, op) \in V
    OBVIOUS
  <2> HIDE DEF e, X, V
  <2>2. PICK f \in [0..Len(e) -> V] : BuildsReplay(f, e)
    BY <2>1, ReplayIsBuilt
  <2>3. Replay(e) = Nothing
    BY <2>1, <2>2 DEF BuildsReplay
  <2> QED  BY <2>3 DEF e
<1>2. ASSUME NEW op, op.kind \in {"set", "create"}
      PROVE  Replay(<<op>>) = [by |-> op.by, name |-> op.name, gone |-> FALSE]
  <2> DEFINE e == <<op>>
             r == [by |-> op.by, name |-> op.name, gone |-> FALSE]
             V == {Nothing, r}
             X == {op}
  <2>1. \A v : Applied(v, op) = r
    BY <1>2 DEF Applied
  <2> HIDE DEF r
  <2>2. e \in Seq(X) /\ Len(e) = 1 /\ e[1] = op /\ Nothing \in V /\ \A v \in V : \A o \in X : Applied(v, o) \in V
    BY <2>1
  <2> HIDE DEF e, X, V
  <2>3. PICK f \in [0..Len(e) -> V] : BuildsReplay(f, e)
    BY <2>2, ReplayIsBuilt
  <2>4. Replay(e) = f[1] /\ f[1] = Applied(f[1 - 1], op)
    BY <2>2, <2>3 DEF BuildsReplay
  <2>5. Replay(e) = r
    BY <2>1, <2>4
  <2> QED  BY <2>5 DEF e, r
<1> QED  BY <1>1, <1>2

(* preprocess of no op, and of one that is no undo and no redo.            *)
LEMMA PreprocessShort ==
  /\ Preprocess(<<>>) = [ok |-> TRUE, ops |-> <<>>]
  /\ \A op : op.kind \notin {"undo", "redo"} =>
       Preprocess(<<op>>) = [ok |-> TRUE, ops |-> <<op>>]
<1>1. Preprocess(<<>>) = [ok |-> TRUE, ops |-> <<>>]
  <2> DEFINE e == <<>>
  <2>1. Paired(e) = [ok |-> TRUE, ops |-> e] /\ Dropped(e) = e
    BY PairedEmpty, DroppedEmpty
  <2> HIDE DEF e
  <2>2. PICK p : p = Paired(e)
    OBVIOUS
  <2>3. p.ok = TRUE /\ p.ops = e
    BY <2>1, <2>2
  <2>4. Preprocess(e) = [ok |-> p.ok /\ (p.ops = <<>> \/ Head(p.ops).kind # "redo"),
                         ops |-> Dropped(p.ops)]
    BY <2>2, PreprocessIs
  <2>5. Preprocess(e) = [ok |-> TRUE, ops |-> e]
    BY <2>1, <2>3, <2>4 DEF e
  <2> QED  BY <2>5 DEF e
<1>2. ASSUME NEW op, op.kind \notin {"undo", "redo"}
      PROVE  Preprocess(<<op>>) = [ok |-> TRUE, ops |-> <<op>>]
  <2> DEFINE X == {op}
             e == <<>>
             u == <<op>>
  <2>1. e \in Seq(X) /\ op \in X /\ <<op>> \o e = u /\ Append(e, op) = u /\ u # e
        /\ Head(u) = op
    OBVIOUS
  <2>2. Paired(e) = [ok |-> TRUE, ops |-> e] /\ Dropped(e) = e
    BY PairedEmpty, DroppedEmpty
  <2>3. /\ PairOff(op, [ok |-> TRUE, ops |-> e]) = [ok |-> TRUE, ops |-> <<op>> \o e]
        /\ DropUndone(e, op) = Append(e, op)
    BY <1>2 DEF PairOff, DropUndone
  <2> HIDE DEF e, X, u
  <2>4. Paired(<<op>> \o e) = PairOff(op, Paired(e))
    BY <2>1, PairedCons
  <2>5. Dropped(Append(e, op)) = DropUndone(Dropped(e), op)
    BY <2>1, DroppedAppend
  <2>6. Paired(u) = [ok |-> TRUE, ops |-> u] /\ Dropped(u) = u
    BY <2>1, <2>2, <2>3, <2>4, <2>5
  <2>7. PICK p : p = Paired(u)
    OBVIOUS
  <2>8. p.ok = TRUE /\ p.ops = u
    BY <2>6, <2>7
  <2>9. Preprocess(u) = [ok |-> p.ok /\ (p.ops = <<>> \/ Head(p.ops).kind # "redo"),
                         ops |-> Dropped(p.ops)]
    BY <2>7, PreprocessIs
  <2>10. Preprocess(u) = [ok |-> TRUE, ops |-> u]
    BY <1>2, <2>1, <2>6, <2>8, <2>9
  <2> QED  BY <2>10 DEF u
<1> QED  BY <1>1, <1>2

(* preprocess leaves ops.                                                  *)
LEMMA PreprocessTyped ==
  ASSUME NEW X, NEW s \in Seq(X)
  PROVE  Preprocess(s).ops \in Seq(X)
<1>1. Paired(s).ops \in Seq(X)
  BY PairedTyped DEF Pairs
<1>2. Dropped(Paired(s).ops) \in Seq(X)
  BY <1>1, DroppedTyped
<1> QED  BY <1>2, PreprocessIs

-----------------------------------------------------------------------------
(* The ops of one toplevel.                                                *)
LEMMA OwnTyped ==
  ASSUME NEW X, NEW s \in Seq(X), NEW t
  PROVE  /\ Own(s, t) \in Seq(X) /\ Len(Own(s, t)) \in Nat
         /\ \A k \in 1..Len(Own(s, t)) :
              Own(s, t)[k].tl = t /\ \E i \in 1..Len(s) : Own(s, t)[k] = s[i]
<1> DEFINE I == {i \in DOMAIN s : s[i].tl = t}
           p == Kept(s, I)
<1>1. Own(s, t) = p
  BY DEF Own
<1>2. \A i \in I : s[i].tl = t
  OBVIOUS
<1> HIDE DEF I
<1>3. /\ p \in Seq(X) /\ Len(p) \in Nat
      /\ \A k \in 1..Len(p) : \E i \in 1..Len(s) : i \in I /\ p[k] = s[i]
  BY KeptMembers
<1> HIDE DEF p
<1> QED  BY <1>1, <1>2, <1>3

(* All the ops are the toplevel's.                                         *)
LEMMA OwnAll ==
  ASSUME NEW X, NEW s \in Seq(X), NEW t, \A i \in 1..Len(s) : s[i].tl = t
  PROVE  Own(s, t) = s
<1> DEFINE I == {i \in DOMAIN s : s[i].tl = t}
<1>1. 1..Len(s) \subseteq I
  BY LenProperties
<1> HIDE DEF I
<1>2. Kept(s, I) = s
  BY <1>1, KeptAll
<1> QED  BY <1>2 DEF Own, I

(* None is.                                                                *)
LEMMA OwnNone ==
  ASSUME NEW X, NEW s \in Seq(X), NEW t, \A i \in 1..Len(s) : s[i].tl # t
  PROVE  Own(s, t) = <<>>
<1> DEFINE I == {i \in DOMAIN s : s[i].tl = t}
<1>1. I \cap 1..Len(s) = {}
  BY LenProperties
<1> HIDE DEF I
<1>2. Kept(s, I) = <<>>
  BY <1>1, KeptNone
<1> QED  BY <1>2 DEF Own, I

(* There are none.                                                         *)
LEMMA OwnEmpty == \A t : Own(<<>>, t) = <<>>
<1> SUFFICES ASSUME NEW t  PROVE Own(<<>>, t) = <<>>
  OBVIOUS
<1> DEFINE s == <<>>
           X == {}
<1>1. s \in Seq(X) /\ \A i \in 1..Len(s) : s[i].tl # t
  OBVIOUS
<1> HIDE DEF s, X
<1>2. Own(s, t) = <<>>
  BY <1>1, OwnNone
<1> QED  BY <1>2 DEF s

(* Own takes a list apart where it is put together.                        *)
LEMMA OwnConcat ==
  ASSUME NEW X, NEW s \in Seq(X), NEW u \in Seq(X), NEW t
  PROVE  Own(s \o u, t) = Own(s, t) \o Own(u, t)
<1> DEFINE r == s \o u
           I == {i \in DOMAIN r : r[i].tl = t}
           J == {i \in DOMAIN s : s[i].tl = t}
           K == {i \in DOMAIN u : u[i].tl = t}
           M == {i \in 1..Len(u) : Len(s) + i \in I}
<1>1. /\ Len(s) \in Nat /\ Len(u) \in Nat
      /\ DOMAIN s = 1..Len(s) /\ DOMAIN u = 1..Len(u)
  BY LenProperties
<1>2. /\ r \in Seq(X) /\ Len(r) = Len(s) + Len(u)
      /\ \A i \in 1..Len(s) : r[i] = s[i]
      /\ \A i \in 1..Len(u) : r[Len(s) + i] = u[i]
  BY ConcatProperties
<1> HIDE DEF r
<1>3. DOMAIN r = 1..(Len(s) + Len(u))
  BY <1>2, LenProperties
<1>4. I \cap 1..Len(s) = J \cap 1..Len(s)
  BY <1>1, <1>2, <1>3
<1>5. M \cap 1..Len(u) = K \cap 1..Len(u)
  BY <1>1, <1>2, <1>3
<1>6. Own(r, t) = Kept(r, I) /\ Own(s, t) = Kept(s, J) /\ Own(u, t) = Kept(u, K)
  BY DEF Own
<1> HIDE DEF I, J, K
<1>7. Kept(s \o u, I) = Kept(s, I) \o Kept(u, M)
  BY KeptConcat
<1> HIDE DEF M
<1>8. Kept(s, I) = Kept(s, J)
  BY <1>4, KeptSame
<1>9. Kept(u, M) = Kept(u, K)
  BY <1>5, KeptSame
<1> QED  BY <1>6, <1>7, <1>8, <1>9 DEF r

(* Own of one op.                                                          *)
LEMMA OwnOne ==
  ASSUME NEW X, NEW op \in X, NEW t
  PROVE  Own(<<op>>, t) = IF op.tl = t THEN <<op>> ELSE <<>>
<1> DEFINE s == <<op>>
<1>1. s \in Seq(X) /\ Len(s) = 1 /\ \A i \in 1..Len(s) : s[i] = op
  OBVIOUS
<1> HIDE DEF s
<1>2. op.tl = t => Own(s, t) = s
  BY <1>1, OwnAll
<1>3. op.tl # t => Own(s, t) = <<>>
  BY <1>1, OwnNone
<1> QED  BY <1>2, <1>3 DEF s

(* Own of a list with one more in front.                                   *)
LEMMA OwnCons ==
  ASSUME NEW X, NEW s \in Seq(X), NEW op \in X, NEW t
  PROVE  Own(<<op>> \o s, t) = IF op.tl = t THEN <<op>> \o Own(s, t) ELSE Own(s, t)
<1> DEFINE o == <<op>>
<1>0. o \in Seq(X)
  OBVIOUS
<1>1. Own(o, t) = IF op.tl = t THEN <<op>> ELSE <<>>
  BY OwnOne
<1> HIDE DEF o
<1>2. Own(o \o s, t) = Own(o, t) \o Own(s, t)
  BY <1>0, OwnConcat
<1>3. Own(s, t) \in Seq(X)
  BY OwnTyped
<1>4. <<>> \o Own(s, t) = Own(s, t)
  BY <1>3
<1> QED  BY <1>1, <1>2, <1>4 DEF o

(* Own of a list with one more at its end.                                 *)
LEMMA OwnAppend ==
  ASSUME NEW X, NEW s \in Seq(X), NEW op \in X, NEW t
  PROVE  Own(Append(s, op), t) = IF op.tl = t THEN Append(Own(s, t), op) ELSE Own(s, t)
<1> DEFINE o == <<op>>
<1>0. o \in Seq(X)
  OBVIOUS
<1>1. Own(o, t) = IF op.tl = t THEN <<op>> ELSE <<>>
  BY OwnOne
<1>2. Append(s, op) = s \o o
  OBVIOUS
<1> HIDE DEF o
<1>3. Own(s \o o, t) = Own(s, t) \o Own(o, t)
  BY <1>0, OwnConcat
<1> DEFINE p == Own(s, t)
<1>4. p \in Seq(X)
  BY OwnTyped
<1> HIDE DEF p
<1>5. p \o <<>> = p /\ p \o <<op>> = Append(p, op)
  BY <1>4
<1> QED  BY <1>1, <1>2, <1>3, <1>5 DEF p

-----------------------------------------------------------------------------
(* Redos that step 1 leaves are at the head, and of one toplevel.          *)
RedosFirst(ops) ==
  \A i \in 1..Len(ops) : ops[i].kind = "redo" =>
    \A j \in 1..i : ops[j].kind = "redo" /\ ops[j].tl = ops[i].tl

(* A list is its head and its tail.                                        *)
LEMMA HeadFirst ==
  ASSUME NEW X, NEW s \in Seq(X), s # <<>>
  PROVE  /\ Head(s) \in X /\ Tail(s) \in Seq(X) /\ s = <<Head(s)>> \o Tail(s)
         /\ Head(s) = s[1] /\ Len(s) \in Nat /\ 1 \in 1..Len(s) /\ Len(Tail(s)) = Len(s) - 1
         /\ \A i \in 1..Len(Tail(s)) : i + 1 \in 1..Len(s) /\ Tail(s)[i] = s[i + 1]
<1>1. Len(s) \in Nat /\ Len(s) # 0
  BY LenProperties, EmptySeq
<1>2. Tail(s) \in Seq(X) /\ Len(Tail(s)) = Len(s) - 1
  BY HeadTailProperties
<1>3. Head(s) \in X /\ Head(s) = s[1] /\ 1 \in 1..Len(s)
  BY <1>1, HeadTailProperties
<1>4. \A i \in 1..Len(Tail(s)) : i + 1 \in 1..Len(s) /\ Tail(s)[i] = s[i + 1]
  BY <1>1, <1>2
<1>5. s = <<Head(s)>> \o Tail(s)
  BY <1>1, <1>3
<1> QED  BY <1>1, <1>2, <1>3, <1>4, <1>5

(* The members of a list with one more in front.                           *)
LEMMA ConsMembers ==
  ASSUME NEW X, NEW s \in Seq(X), NEW e \in X
  PROVE  /\ <<e>> \o s \in Seq(X) /\ Len(<<e>> \o s) = Len(s) + 1 /\ (<<e>> \o s)[1] = e
         /\ Head(<<e>> \o s) = e /\ <<e>> \o s # <<>> /\ Tail(<<e>> \o s) = s
         /\ \A i \in 1..Len(s) : (<<e>> \o s)[i + 1] = s[i]
<1>1. <<e>> \in Seq(X) /\ Len(<<e>>) = 1 /\ <<e>>[1] = e
  OBVIOUS
<1>2. Len(s) \in Nat
  BY LenProperties
<1> QED  BY <1>1, <1>2, ConcatProperties

(* Step 1 keeps redos in front, or fails; a failure stays one.             *)
LEMMA RedosStayFirst ==
  ASSUME NEW X, NEW op \in X, NEW acc \in Pairs(X), RedosFirst(acc.ops), PairOff(op, acc).ok
  PROVE  acc.ok /\ RedosFirst(PairOff(op, acc).ops)
<1> DEFINE s == acc.ops
           h == Head(s)
           u == <<op>> \o s
           r == Tail(s)
           L == Len(s)
           M == Len(r)
           N == Len(u)
<1>1. s \in Seq(X) /\ acc.ok \in BOOLEAN
  BY DEF Pairs
<1>2. acc.ok /\ (s = <<>> \/ h.kind # "redo" \/ (op.tl = h.tl /\ op.kind \in {"undo", "redo"}))
  BY <1>1 DEF PairOff, Pairs
<1>3. PairOff(op, acc).ops = IF s = <<>> \/ h.kind # "redo" \/ op.kind # "undo" THEN u ELSE r
  BY <1>1, <1>2 DEF PairOff, Pairs
<1>4. /\ u \in Seq(X) /\ N = L + 1 /\ u[1] = op
      /\ \A i \in 1..L : u[i + 1] = s[i]
  BY <1>1, ConsMembers
<1>5. L \in Nat
  BY <1>1, LenProperties
<1>6. s # <<>> => /\ h = s[1] /\ 1 \in 1..L /\ M = L - 1
                  /\ \A i \in 1..M : i + 1 \in 1..L /\ r[i] = s[i + 1]
  BY <1>1, HeadFirst
<1>7. \A i \in 1..L : s[i].kind = "redo" =>
        \A j \in 1..i : s[j].kind = "redo" /\ s[j].tl = s[i].tl
  BY DEF RedosFirst, L, M, N
<1>8. s = <<>> => L = 0
  OBVIOUS
<1> HIDE DEF s, h, u, r, L, M, N
<1>9. \A i \in 1..(L + 1) : i = 1 \/ (i - 1 \in 1..L /\ (i - 1) + 1 = i)
  BY <1>5
<1>10. CASE s = <<>> \/ h.kind # "redo"
  <2>1. \A i \in 1..L : s[i].kind # "redo"
    <3>1. CASE s = <<>>
      BY <1>8, <3>1
    <3>2. CASE s # <<>> /\ h.kind # "redo"
      <4>1. \A i \in 1..L : 1 \in 1..i
        BY <1>5
      <4> QED  BY <1>6, <1>7, <3>2, <4>1
    <3> QED  BY <1>10, <3>1, <3>2
  <2>2. \A i \in 1..N : u[i].kind = "redo" => i = 1
    BY <1>4, <1>9, <2>1
  <2>3. \A i \in 1..N : u[i].kind = "redo" =>
          \A j \in 1..i : u[j].kind = "redo" /\ u[j].tl = u[i].tl
    BY <2>2
  <2> QED  BY <1>2, <1>3, <1>10, <2>3 DEF RedosFirst, L, M, N
<1>11. CASE s # <<>> /\ h.kind = "redo" /\ op.kind = "undo"
  <2>1. \A i \in 1..M : r[i].kind = "redo" =>
          \A j \in 1..i : r[j].kind = "redo" /\ r[j].tl = r[i].tl
    <3>0. M \in Nat /\ M = L - 1
      BY <1>1, <1>6, <1>11, HeadFirst, LenProperties DEF M, r, s
    <3> SUFFICES ASSUME NEW i \in 1..M, r[i].kind = "redo", NEW j \in 1..i
                 PROVE  r[j].kind = "redo" /\ r[j].tl = r[i].tl
      OBVIOUS
    <3>1. j \in 1..M /\ j + 1 \in 1..(i + 1) /\ i + 1 \in 1..L
      BY <1>5, <3>0
    <3>2. r[i] = s[i + 1] /\ r[j] = s[j + 1]
      BY <1>6, <1>11, <3>1
    <3> QED  BY <1>7, <3>1, <3>2
  <2> QED  BY <1>2, <1>3, <1>11, <2>1 DEF RedosFirst, L, M, N
<1>12. CASE s # <<>> /\ h.kind = "redo" /\ op.kind # "undo"
  <2>1. op.kind = "redo" /\ op.tl = h.tl
    BY <1>2, <1>12
  <2>2. ASSUME NEW i \in 1..(L + 1), u[i].kind = "redo", NEW j \in 1..i
        PROVE  u[j].kind = "redo" /\ u[j].tl = u[i].tl
    <3>1. CASE i = 1
      BY <2>2, <3>1
    <3>2. CASE i - 1 \in 1..L /\ (i - 1) + 1 = i
      <4>1. u[i] = s[i - 1] /\ s[i - 1].kind = "redo"
        BY <1>4, <2>2, <3>2
      <4>2. \A k \in 1..(i - 1) : s[k].kind = "redo" /\ s[k].tl = s[i - 1].tl
        BY <1>7, <3>2, <4>1
      <4>3. 1 \in 1..(i - 1)
        BY <3>2
      <4>4. op.tl = s[i - 1].tl
        BY <1>6, <1>12, <2>1, <4>2, <4>3
      <4>5. CASE j = 1
        BY <1>4, <2>1, <4>1, <4>4, <4>5
      <4>6. CASE j # 1
        <5>1. j - 1 \in 1..(i - 1) /\ j - 1 \in 1..L /\ (j - 1) + 1 = j
          BY <1>5, <3>2, <4>6
        <5>2. u[j] = s[j - 1]
          BY <1>4, <5>1
        <5> QED  BY <4>1, <4>2, <5>1, <5>2
      <4> QED  BY <4>5, <4>6
    <3> QED  BY <1>9, <3>1, <3>2
  <2>3. RedosFirst(u)
    BY <1>4, <2>2 DEF RedosFirst, L, M, N
  <2> QED  BY <1>2, <1>3, <1>12, <2>3
<1> QED  BY <1>10, <1>11, <1>12

(* An op meets the same redo in the ops of its own toplevel as in those of *)
(* all: no other toplevel's is at the head of both.                        *)
LEMMA PairOffOwn ==
  ASSUME NEW X, NEW op \in X, NEW acc \in Pairs(X), RedosFirst(acc.ops), PairOff(op, acc).ok,
         NEW t, NEW own \in Pairs(X), own.ok, own.ops = Own(acc.ops, t)
  PROVE  /\ PairOff(op, own).ok \/ op.tl # t
         /\ Own(PairOff(op, acc).ops, t) = IF op.tl = t THEN PairOff(op, own).ops ELSE own.ops
<1> DEFINE s == acc.ops
           h == Head(s)
           u == <<op>> \o s
           r == Tail(s)
           p == Own(s, t)
           q == Own(r, t)
<1>1. s \in Seq(X) /\ acc.ok \in BOOLEAN
  BY DEF Pairs
<1>2. acc.ok /\ (s = <<>> \/ h.kind # "redo" \/ (op.tl = h.tl /\ op.kind \in {"undo", "redo"}))
  BY <1>1 DEF PairOff, Pairs
<1>3. PairOff(op, acc).ops = IF s = <<>> \/ h.kind # "redo" \/ op.kind # "undo" THEN u ELSE r
  BY <1>1, <1>2 DEF PairOff, Pairs
<1>4. p \in Seq(X) /\ own.ops = p
  BY <1>1, OwnTyped
<1>5. PairOff(op, own) =
        IF p = <<>> \/ Head(p).kind # "redo"
        THEN [own EXCEPT !.ops = <<op>> \o p]
        ELSE IF op.tl # Head(p).tl \/ op.kind \notin {"undo", "redo"}
             THEN [own EXCEPT !.ok = FALSE]
             ELSE [own EXCEPT !.ops = IF op.kind = "undo" THEN Tail(p) ELSE <<op>> \o p]
  BY <1>4 DEF PairOff
<1>6. Own(u, t) = IF op.tl = t THEN <<op>> \o p ELSE p
  <2>1. PICK e \in Seq(X) : e = s
    BY <1>1
  <2>2. Own(<<op>> \o e, t) = IF op.tl = t THEN <<op>> \o Own(e, t) ELSE Own(e, t)
    BY OwnCons
  <2> QED  BY <2>1, <2>2, Zenon
<1>7. s # <<>> => h \in X /\ r \in Seq(X) /\ s = <<h>> \o r /\ h = s[1]
  BY <1>1, HeadFirst
<1>8. CASE s = <<>> \/ h.kind # "redo"
  <2>1. p = <<>> \/ Head(p).kind # "redo"
    <3> SUFFICES ASSUME p # <<>>, Head(p).kind = "redo"  PROVE FALSE
      OBVIOUS
    <3>1. Head(p) = p[1] /\ 1 \in 1..Len(p)
      BY <1>4, HeadFirst
    <3>2. PICK i \in 1..Len(s) : p[1] = s[i]
      BY <1>1, <3>1, OwnTyped
    <3>3. s[i].kind = "redo" /\ 1 \in 1..i
      BY <1>1, <3>1, <3>2, LenProperties
    <3>4. s[1].kind = "redo"
      BY <3>3 DEF RedosFirst
    <3>5. s # <<>>
      BY <3>2
    <3> QED  BY <1>7, <1>8, <3>4, <3>5
  <2>2. PairOff(op, own) = [own EXCEPT !.ops = <<op>> \o p]
    BY <1>5, <2>1
  <2> HIDE DEF s, h, u, r, p
  <2>3. PairOff(op, own).ok /\ PairOff(op, own).ops = <<op>> \o p
    BY <2>2 DEF Pairs
  <2> QED  BY <1>3, <1>4, <1>6, <1>8, <2>3
<1>9. CASE s # <<>> /\ h.kind = "redo"
  <2>1. op.tl = h.tl /\ op.kind \in {"undo", "redo"}
    BY <1>2, <1>9
  <2>2. p = IF h.tl = t THEN <<h>> \o q ELSE q
    <3> DEFINE e == h
               f == r
    <3>1. e \in X /\ f \in Seq(X) /\ s = <<e>> \o f
      BY <1>7, <1>9
    <3> HIDE DEF e, f
    <3>2. Own(<<e>> \o f, t) = IF e.tl = t THEN <<e>> \o Own(f, t) ELSE Own(f, t)
      BY <3>1, OwnCons
    <3> QED  BY <3>1, <3>2 DEF e, f
  <2>3. q \in Seq(X)
    BY <1>7, <1>9, OwnTyped
  <2> HIDE DEF q
  <2>4. <<h>> \o q # <<>> /\ Head(<<h>> \o q) = h /\ Tail(<<h>> \o q) = q
    BY <1>7, <1>9, <2>3, ConsMembers
  <2>5. CASE op.tl = t
    <3>1. p # <<>> /\ Head(p) = h /\ Tail(p) = q
      BY <2>1, <2>2, <2>4, <2>5
    <3>2. PairOff(op, own) = [own EXCEPT !.ops = IF op.kind = "undo" THEN q ELSE <<op>> \o p]
      BY <1>5, <1>9, <2>1, <3>1
    <3> HIDE DEF s, h, u, r, p
    <3>3. /\ PairOff(op, own).ok
          /\ PairOff(op, own).ops = IF op.kind = "undo" THEN q ELSE <<op>> \o p
      BY <3>2 DEF Pairs
    <3> QED  BY <1>3, <1>6, <1>9, <2>5, <3>3 DEF q
  <2>6. CASE op.tl # t
    BY <1>3, <1>4, <1>6, <1>9, <2>1, <2>2, <2>6 DEF q
  <2> QED  BY <2>5, <2>6
<1> QED  BY <1>8, <1>9

(* Step 1 of a toplevel's own ops makes its own of what step 1 makes of    *)
(* all.                                                                    *)
LEMMA PairedOwn ==
  ASSUME NEW X, NEW s \in Seq(X), NEW t, Paired(s).ok
  PROVE  /\ RedosFirst(Paired(s).ops)
         /\ Paired(Own(s, t)) \in Pairs(X) /\ Paired(Own(s, t)).ok
         /\ Paired(Own(s, t)).ops = Own(Paired(s).ops, t)
<1> DEFINE Good(a, o) == a.ok => RedosFirst(a.ops) /\ o.ok /\ o.ops = Own(a.ops, t)
           T == {l \in Seq(X) : Good(Paired(l), Paired(Own(l, t)))}
<1>1. <<>> \in T
  <2> DEFINE e == <<>>
  <2>1. e \in Seq(X) /\ Own(e, t) = e
    BY OwnEmpty
  <2>2. Paired(e).ops = e /\ Paired(e).ok
    BY PairedEmpty
  <2>3. RedosFirst(e)
    BY DEF RedosFirst
  <2> HIDE DEF e
  <2>4. e \in T
    BY <2>1, <2>2, <2>3
  <2> QED  BY <2>4 DEF e
<1>2. ASSUME NEW l \in Seq(X), NEW e \in X, l \in T  PROVE <<e>> \o l \in T
  <2> DEFINE a == Paired(l)
             o == Paired(Own(l, t))
             m == <<e>> \o l
             b == Paired(m)
             v == Paired(Own(m, t))
  <2>1. m \in Seq(X)
    BY ConsMembers
  <2>2. a \in Pairs(X) /\ b = PairOff(e, a)
    BY PairedTyped, PairedCons
  <2>3. Own(l, t) \in Seq(X)
    BY OwnTyped
  <2>4. o \in Pairs(X)
    BY <2>3, PairedTyped
  <2>5. v = IF e.tl = t THEN PairOff(e, o) ELSE o
    <3> DEFINE w == Own(l, t)
    <3>1. Own(m, t) = IF e.tl = t THEN <<e>> \o w ELSE w
      BY OwnCons
    <3> HIDE DEF w
    <3>2. Paired(<<e>> \o w) = PairOff(e, Paired(w))
      BY <2>3, PairedCons DEF w
    <3> QED  BY <3>1, <3>2 DEF w
  <2>6. Good(a, o)
    BY <1>2
  <2> HIDE DEF a, o, b, v
  <2>7. ASSUME b.ok  PROVE RedosFirst(b.ops) /\ v.ok /\ v.ops = Own(b.ops, t)
    <3>1. a.ok
      BY <2>2, <2>7 DEF PairOff, Pairs
    <3>2. RedosFirst(a.ops) /\ o.ok /\ o.ops = Own(a.ops, t)
      BY <2>6, <3>1
    <3>3. RedosFirst(b.ops)
      BY <2>2, <2>7, <3>2, RedosStayFirst
    <3>4. /\ PairOff(e, o).ok \/ e.tl # t
          /\ Own(PairOff(e, a).ops, t) = IF e.tl = t THEN PairOff(e, o).ops ELSE o.ops
      BY <2>2, <2>4, <2>7, <3>2, PairOffOwn
    <3> QED  BY <2>2, <2>5, <3>2, <3>3, <3>4
  <2> QED  BY <2>1, <2>7 DEF b, v
<1> HIDE DEF T
<1>3. Seq(X) \subseteq T
  BY <1>1, <1>2, InductFront
<1>4. Good(Paired(s), Paired(Own(s, t)))
  BY <1>3 DEF T
<1>5. Own(s, t) \in Seq(X)
  BY OwnTyped
<1>6. Paired(Own(s, t)) \in Pairs(X)
  BY <1>5, PairedTyped
<1> QED  BY <1>4, <1>6

(* An undo takes away the same ops of its toplevel, whatever is between.   *)
LEMMA DropUndoneOwn ==
  ASSUME NEW X, NEW s \in Seq(X), NEW op \in X, NEW t
  PROVE  Own(DropUndone(s, op), t) =
           IF op.tl = t THEN DropUndone(Own(s, t), op) ELSE Own(s, t)
<1> DEFINE Stays(r, i) == \/ r[i].tl # op.tl
                          \/ \E j \in (i + 1)..Len(r) : SavepointOf(r[j], op.tl)
           o == Own(s, t)
           L == Len(s)
           I == {i \in DOMAIN s : Stays(s, i)}
           J == {i \in DOMAIN o : Stays(o, i)}
           K == {i \in DOMAIN s : s[i].tl = t}
           p == Kept(s, I)
           M == {k \in DOMAIN p : p[k].tl = t}
<1>1. /\ DropUndone(s, op) = IF op.kind # "undo" THEN Append(s, op) ELSE p
      /\ DropUndone(o, op) = IF op.kind # "undo" THEN Append(o, op) ELSE Kept(o, J)
  BY DEF DropUndone
<1>2. o \in Seq(X) /\ o = Kept(s, K)
  BY OwnTyped DEF Own
<1>3. L \in Nat /\ DOMAIN s = 1..L
  BY LenProperties
<1>4. CASE op.kind # "undo"
  <2> HIDE DEF o, I, J, K, p
  <2>1. Own(Append(s, op), t) = IF op.tl = t THEN Append(o, op) ELSE o
    BY OwnAppend DEF o
  <2> QED  BY <1>1, <1>4, <2>1 DEF o
<1>5. CASE op.kind = "undo" /\ op.tl # t
  <2>1. K \cap 1..Len(s) \subseteq I
    BY <1>5
  <2>2. p \in Seq(X)
    BY KeptIsKept
  <2>3. PICK m : KeptBy(p, m, s, I)
    BY KeptIsKept
  <2>4. DOMAIN p = 1..Len(p)
    BY <2>2, LenProperties
  <2>5. Own(p, t) = Kept(p, M)
    BY DEF Own
  <2> HIDE DEF I, p
  <2>6. \A k \in 1..Len(p) : k \in M <=> m[k] \in K
    <3>1. \A k \in 1..Len(p) : m[k] \in 1..L /\ p[k] = s[m[k]]
      BY <2>3 DEF KeptBy, Enumerates
    <3> QED  BY <1>3, <2>4, <3>1
  <2> HIDE DEF K, M
  <2>7. Kept(p, M) = Kept(s, K)
    BY <2>1, <2>3, <2>6, KeptAgain DEF p
  <2> QED  BY <1>1, <1>2, <1>5, <2>5, <2>7 DEF o
<1>6. CASE op.kind = "undo" /\ op.tl = t
  <2> DEFINE N == I \cap K
  <2>1. p \in Seq(X)
    BY KeptIsKept
  <2>2. PICK m : KeptBy(p, m, s, I)
    BY KeptIsKept
  <2>3. PICK n : KeptBy(o, n, s, K)
    BY <1>2, KeptIsKept
  <2>4. DOMAIN p = 1..Len(p)
    BY <2>1, LenProperties
  <2>5. Own(p, t) = Kept(p, M)
    BY DEF Own
  <2>6. Kept(p, M) = Kept(s, N)
    <3> HIDE DEF I, p
    <3>1. \A k \in 1..Len(p) : k \in M <=> m[k] \in N
      <4>1. \A k \in 1..Len(p) : m[k] \in I /\ m[k] \in 1..L /\ p[k] = s[m[k]]
        BY <2>2 DEF KeptBy, Enumerates
      <4> QED  BY <1>3, <2>4, <4>1
    <3>2. N \cap 1..Len(s) \subseteq I
      OBVIOUS
    <3> HIDE DEF K, M, N
    <3> QED  BY <2>2, <3>1, <3>2, KeptAgain DEF p
  <2>7. Kept(o, J) = Kept(s, N)
    <3>1. DOMAIN o = 1..Len(o) /\ Len(o) \in Nat
      BY <1>2, LenProperties
    <3> DEFINE a == Len(o)
    <3>2. /\ \A k \in 1..a : n[k] \in K /\ n[k] \in 1..L /\ o[k] = s[n[k]]
          /\ \A k, l \in 1..a : k < l => n[k] < n[l]
          /\ \A i \in K \cap 1..L : \E k \in 1..a : n[k] = i
      BY <2>3 DEF KeptBy, Enumerates
    <3>3. a \in Nat /\ DOMAIN o = 1..a
      BY <3>1
    <3>4. \A k \in 1..a : k \in J <=> \E l \in (k + 1)..a : SavepointOf(o[l], t)
      <4>1. \A k \in 1..a : o[k].tl = t
        BY <1>3, <3>2
      <4> QED  BY <1>6, <3>3, <4>1
    <3>5. \A i \in 1..L : i \in N <=> i \in K /\ \E j \in (i + 1)..L : SavepointOf(s[j], t)
      BY <1>3, <1>6
    <3>6. \A j \in 1..L : SavepointOf(s[j], t) => j \in K
      BY <1>3 DEF SavepointOf
    <3> HIDE DEF o, J, I, K, N, L, a
    <3>7. ASSUME NEW k \in 1..a  PROVE k \in J <=> n[k] \in N
      <4>1. n[k] \in 1..L /\ n[k] \in K
        BY <3>2
      <4>2. ASSUME NEW l \in (k + 1)..a, SavepointOf(o[l], t)
            PROVE  \E j \in (n[k] + 1)..L : SavepointOf(s[j], t)
        <5>1. l \in 1..a /\ k < l
          BY <3>3, <4>2
        <5>2. n[k] < n[l] /\ n[l] \in 1..L /\ o[l] = s[n[l]]
          BY <3>2, <5>1
        <5>3. n[l] \in (n[k] + 1)..L
          BY <1>3, <4>1, <5>2
        <5> QED  BY <4>2, <5>2, <5>3
      <4>3. ASSUME NEW j \in (n[k] + 1)..L, SavepointOf(s[j], t)
            PROVE  \E l \in (k + 1)..a : SavepointOf(o[l], t)
        <5>1. j \in 1..L /\ n[k] < j
          BY <1>3, <4>1, <4>3
        <5>2. PICK l \in 1..a : n[l] = j
          BY <3>2, <3>6, <4>3, <5>1
        <5>3. k < l
          <6>1. ~(l < k) /\ l # k
            <7>1. ~(n[l] < n[k]) /\ n[l] # n[k]
              BY <1>3, <4>1, <5>1, <5>2
            <7> QED  BY <3>2, <5>2, <7>1
          <6> QED  BY <3>3, <5>2, <6>1
        <5>4. l \in (k + 1)..a /\ o[l] = s[j]
          BY <3>2, <3>3, <5>2, <5>3
        <5> QED  BY <4>3, <5>4
      <4> QED  BY <3>4, <3>5, <4>1, <4>2, <4>3
    <3>8. N \cap 1..Len(s) \subseteq K
      BY DEF N
    <3>9. KeptBy(Kept(s, K), n, s, K) /\ \A k \in 1..Len(Kept(s, K)) : k \in J <=> n[k] \in N
      BY <1>2, <2>3, <3>7 DEF a
    <3>10. Kept(Kept(s, K), J) = Kept(s, N)
      BY <3>8, <3>9, KeptAgain
    <3> QED  BY <1>2, <3>10
  <2> QED  BY <1>1, <1>6, <2>5, <2>6, <2>7
<1> QED  BY <1>4, <1>5, <1>6

(* So does step 3.                                                         *)
LEMMA DroppedOwn ==
  ASSUME NEW X, NEW s \in Seq(X), NEW t
  PROVE  Dropped(Own(s, t)) = Own(Dropped(s), t)
<1> DEFINE T == {l \in Seq(X) : Dropped(Own(l, t)) = Own(Dropped(l), t)}
<1>1. <<>> \in T
  <2>1. Own(<<>>, t) = <<>> /\ Dropped(<<>>) = <<>>
    BY OwnEmpty, DroppedEmpty
  <2> QED  BY <2>1
<1>2. ASSUME NEW l \in Seq(X), NEW e \in X, l \in T  PROVE Append(l, e) \in T
  <2> DEFINE m == Append(l, e)
             w == Own(l, t)
             d == Dropped(l)
  <2>1. m \in Seq(X)
    BY AppendProperties
  <2>2. w \in Seq(X) /\ d \in Seq(X) /\ Dropped(w) = Own(d, t)
    BY <1>2, OwnTyped, DroppedTyped
  <2>3. Dropped(m) = DropUndone(d, e)
    BY DroppedAppend
  <2>4. Own(m, t) = IF e.tl = t THEN Append(w, e) ELSE w
    BY OwnAppend
  <2> HIDE DEF m, w, d
  <2>5. Dropped(Append(w, e)) = DropUndone(Dropped(w), e)
    BY <2>2, DroppedAppend
  <2>6. Own(DropUndone(d, e), t) = IF e.tl = t THEN DropUndone(Own(d, t), e) ELSE Own(d, t)
    BY <2>2, DropUndoneOwn
  <2>7. Dropped(Own(m, t)) = Own(Dropped(m), t)
    BY <2>2, <2>3, <2>4, <2>5, <2>6
  <2> QED  BY <2>1, <2>7 DEF m
<1> HIDE DEF T
<1>3. Seq(X) \subseteq T
  BY <1>1, <1>2, InductBack
<1> QED  BY <1>3 DEF T

(* preprocess of many toplevels' ops is, for each of them, preprocess of   *)
(* its own: undos and redos find the same partners and savepoints.         *)
THEOREM PreprocessOwn ==
  ASSUME NEW X, NEW s \in Seq(X), NEW t, Preprocess(s).ok
  PROVE  /\ Preprocess(Own(s, t)).ok
         /\ Preprocess(Own(s, t)).ops = Own(Preprocess(s).ops, t)
<1> DEFINE a == Paired(s)
           w == Own(s, t)
           o == Paired(w)
<1>1. a \in Pairs(X)
  BY PairedTyped
<1>2. /\ Preprocess(s).ok = (a.ok /\ (a.ops = <<>> \/ Head(a.ops).kind # "redo"))
      /\ Preprocess(s).ops = Dropped(a.ops)
  BY PreprocessIs
<1>3. /\ Preprocess(w).ok = (o.ok /\ (o.ops = <<>> \/ Head(o.ops).kind # "redo"))
      /\ Preprocess(w).ops = Dropped(o.ops)
  BY PreprocessIs
<1>4. /\ RedosFirst(a.ops)
      /\ o \in Pairs(X) /\ o.ok /\ o.ops = Own(a.ops, t)
  BY <1>2, PairedOwn
<1> HIDE DEF a, w, o
<1>5. Dropped(o.ops) = Own(Dropped(a.ops), t)
  BY <1>1, <1>4, DroppedOwn DEF Pairs
<1>6. o.ops = <<>> \/ Head(o.ops).kind # "redo"
  <2> DEFINE p == a.ops
             q == Own(p, t)
  <2>1. p \in Seq(X)
    BY <1>1 DEF Pairs
  <2>2. p = <<>> \/ Head(p).kind # "redo"
    BY <1>2
  <2> HIDE DEF p
  <2> SUFFICES ASSUME q # <<>>, Head(q).kind = "redo"  PROVE FALSE
    BY <1>4 DEF p
  <2>3. q \in Seq(X)
    BY <2>1, OwnTyped
  <2>4. Head(q) = q[1] /\ 1 \in 1..Len(q)
    BY <2>3, HeadFirst
  <2>5. PICK i \in 1..Len(p) : q[1] = p[i]
    BY <2>1, <2>4, OwnTyped
  <2>6. p[i].kind = "redo" /\ 1 \in 1..i
    BY <2>1, <2>4, <2>5, LenProperties
  <2>7. p[1].kind = "redo"
    BY <1>4, <2>6 DEF RedosFirst, p
  <2>8. p # <<>>
    BY <2>5
  <2>9. Head(p) = p[1]
    BY <2>1, <2>8, HeadFirst
  <2> QED  BY <2>2, <2>7, <2>8, <2>9
<1> QED  BY <1>2, <1>3, <1>4, <1>5, <1>6 DEF w

-----------------------------------------------------------------------------
(* The ops of one toplevel, with redos after them.                         *)
About(X, t) == \A x \in X : x.tl = t

Redo(X) == {x \in X : x.kind = "redo"}

(* A failure stays one.                                                    *)
LEMMA PairOffFails ==
  ASSUME NEW X, NEW op, NEW acc \in Pairs(X), PairOff(op, acc).ok
  PROVE  acc.ok
<1>1. acc.ok \in BOOLEAN /\ acc = [ok |-> acc.ok, ops |-> acc.ops]
  BY DEF Pairs
<1> QED  BY <1>1 DEF PairOff

(* Step 1 of what is in front depends on what step 1 makes of the rest.    *)
LEMMA PairedRest ==
  ASSUME NEW X, NEW s \in Seq(X), NEW u \in Seq(X), Paired(s) = Paired(u), NEW a \in Seq(X)
  PROVE  Paired(a \o s) = Paired(a \o u) /\ (Paired(a \o s).ok => Paired(s).ok)
<1> DEFINE T == {l \in Seq(X) : Paired(l \o s) = Paired(l \o u) /\ (Paired(l \o s).ok => Paired(s).ok)}
<1>1. <<>> \in T
  <2>1. <<>> \o s = s /\ <<>> \o u = u /\ <<>> \in Seq(X)
    BY ConcatEmptySeq
  <2> QED  BY <2>1
<1>2. ASSUME NEW l \in Seq(X), NEW e \in X, l \in T  PROVE <<e>> \o l \in T
  <2>0. <<e>> \in Seq(X)
    OBVIOUS
  <2>1. /\ (<<e>> \o l) \o s = <<e>> \o (l \o s)
        /\ (<<e>> \o l) \o u = <<e>> \o (l \o u)
        /\ l \o s \in Seq(X) /\ l \o u \in Seq(X) /\ <<e>> \o l \in Seq(X)
    BY <2>0, ConcatAssociative, ConcatProperties
  <2>2. /\ Paired(<<e>> \o (l \o s)) = PairOff(e, Paired(l \o s))
        /\ Paired(<<e>> \o (l \o u)) = PairOff(e, Paired(l \o u))
    BY <2>1, PairedCons
  <2>3. Paired(l \o s) \in Pairs(X)
    BY <2>1, PairedTyped
  <2>4. PairOff(e, Paired(l \o s)).ok => Paired(l \o s).ok
    BY <2>3, PairOffFails
  <2> QED  BY <1>2, <2>1, <2>2, <2>4
<1> HIDE DEF T
<1>3. a \in T
  BY <1>1, <1>2, InductFront
<1> QED  BY <1>3 DEF T

(* Step 1 leaves redos that are alone.                                     *)
LEMMA PairedRedos ==
  ASSUME NEW X, NEW t, About(X, t), NEW y \in Seq(Redo(X))
  PROVE  Paired(y) = [ok |-> TRUE, ops |-> y]
<1> DEFINE R == Redo(X)
           T == {l \in Seq(R) : Paired(l) = [ok |-> TRUE, ops |-> l]}
<1>1. <<>> \in T
  BY PairedEmpty
<1>2. ASSUME NEW l \in Seq(R), NEW e \in R, l \in T  PROVE <<e>> \o l \in T
  <2>1. e \in X /\ e.kind = "redo" /\ e.tl = t
    BY DEF Redo, About
  <2>2. Paired(<<e>> \o l) = PairOff(e, [ok |-> TRUE, ops |-> l])
    <3>1. Paired(<<e>> \o l) = PairOff(e, Paired(l))
      <4> HIDE DEF R
      <4> QED  BY PairedCons
    <3> QED  BY <1>2, <3>1
  <2>3. l # <<>> => Head(l).kind = "redo" /\ Head(l).tl = t
    <3>1. l # <<>> => Head(l) \in R
      OBVIOUS
    <3> QED  BY <3>1 DEF Redo, About
  <2>4. <<e>> \o l \in Seq(R)
    <3> HIDE DEF R
    <3> QED  BY ConsMembers
  <2>5. PairOff(e, [ok |-> TRUE, ops |-> l]) = [ok |-> TRUE, ops |-> <<e>> \o l]
    BY <2>1, <2>3 DEF PairOff
  <2> QED  BY <2>2, <2>4, <2>5
<1> HIDE DEF T, R
<1>3. y \in T
  BY <1>1, <1>2, InductFront DEF R
<1> QED  BY <1>3 DEF T

(* Lists of ops, one after the other, in either order.                     *)
LEMMA AppendConcat ==
  ASSUME NEW X, NEW a \in Seq(X), NEW x \in X, NEW y \in Seq(X)
  PROVE  /\ Append(a, x) \o y = a \o (<<x>> \o y)
         /\ Append(a, x) \in Seq(X) /\ <<x>> \o y \in Seq(X) /\ <<x>> \in Seq(X)
         /\ Append(a, x) = a \o <<x>>
<1>1. <<x>> \in Seq(X) /\ Append(a, x) = a \o <<x>>
  OBVIOUS
<1> QED  BY <1>1, ConcatAssociative, ConcatProperties

(* An op added at the end is the first of what comes after.                *)
LEMMA AppendShifts ==
  ASSUME NEW X, NEW a \in Seq(X), NEW x \in X, NEW y \in Seq(X)
  PROVE  Append(a, x) \o y = a \o (<<x>> \o y)
<1>1. PICK o \in Seq(X) : o = <<x>> /\ Append(a, x) = a \o o
  <2>1. <<x>> \in Seq(X)
    OBVIOUS
  <2>2. Append(a, x) = a \o <<x>>
    OBVIOUS
  <2> QED  BY <2>1, <2>2
<1>2. (a \o o) \o y = a \o (o \o y)
  BY ConcatAssociative
<1> QED  BY <1>1, <1>2

(* An undo takes out the redo after it.                                    *)
LEMMA UndoThenRedos ==
  ASSUME NEW X, NEW t, About(X, t), NEW a \in Seq(X), NEW x \in X, x.kind = "undo",
         NEW y \in Seq(Redo(X)), y # <<>>
  PROVE  Tail(y) \in Seq(Redo(X)) /\ Preprocess(Append(a, x) \o y) = Preprocess(a \o Tail(y))
<1> DEFINE R == Redo(X)
           z == Tail(y)
<1>0. y \in Seq(R) /\ R \subseteq X
  BY DEF Redo
<1>1. Head(y) \in R /\ z \in Seq(R)
  <2> HIDE DEF R
  <2> QED  BY <1>0, HeadFirst
<1>2. y \in Seq(X) /\ z \in Seq(X)
  BY <1>0, <1>1
<1>3. Head(y).kind = "redo" /\ Head(y).tl = x.tl
  BY <1>1 DEF Redo, About
<1> HIDE DEF z
<1>4. Paired(y) = [ok |-> TRUE, ops |-> y] /\ Paired(z) = [ok |-> TRUE, ops |-> z]
  BY <1>1, PairedRedos
<1>5. PairOff(x, [ok |-> TRUE, ops |-> y]) = [ok |-> TRUE, ops |-> z]
  BY <1>3 DEF PairOff, z
<1>6. Paired(<<x>> \o y) = PairOff(x, Paired(y))
  BY <1>2, PairedCons
<1> DEFINE w == <<x>> \o y
<1>7. Paired(w) = Paired(z)
  BY <1>4, <1>5, <1>6
<1>8. w \in Seq(X) /\ Append(a, x) \o y = a \o w
  BY <1>2, AppendConcat
<1> HIDE DEF w
<1>9. Paired(a \o w) = Paired(a \o z)
  BY <1>2, <1>7, <1>8, PairedRest
<1>10. Preprocess(a \o w) = Preprocess(a \o z)
  BY <1>9, PreprocessIs, Zenon
<1> QED  BY <1>1, <1>8, <1>10 DEF z

(* Next to anything else a redo is an error.                               *)
LEMMA EditThenRedos ==
  ASSUME NEW X, NEW t, About(X, t), NEW a \in Seq(X), NEW x \in X, x.kind \notin {"undo", "redo"},
         NEW y \in Seq(Redo(X)), y # <<>>
  PROVE  ~Preprocess(Append(a, x) \o y).ok
<1> DEFINE R == Redo(X)
           w == <<x>> \o y
<1>0. y \in Seq(R) /\ R \subseteq X
  BY DEF Redo
<1>1. Head(y) \in R
  <2> HIDE DEF R
  <2> QED  BY <1>0, HeadFirst
<1>2. y \in Seq(X)
  BY <1>0
<1>3. Head(y).kind = "redo"
  BY <1>1 DEF Redo
<1>4. Paired(y) = [ok |-> TRUE, ops |-> y]
  BY PairedRedos
<1>5. ~PairOff(x, [ok |-> TRUE, ops |-> y]).ok
  BY <1>3 DEF PairOff
<1>6. Paired(w) = PairOff(x, Paired(y))
  BY <1>2, PairedCons
<1>7. w \in Seq(X) /\ Append(a, x) \o y = a \o w
  BY <1>2, AppendConcat
<1> HIDE DEF w
<1>8. ~Paired(a \o w).ok
  BY <1>4, <1>5, <1>6, <1>7, PairedRest
<1>9. ~Preprocess(a \o w).ok
  BY <1>8, PreprocessIs
<1> QED  BY <1>7, <1>9

(* Redos and nothing else are an error, unless there are none.             *)
LEMMA PreprocessRedos ==
  ASSUME NEW X, NEW t, About(X, t), NEW y \in Seq(Redo(X))
  PROVE  Preprocess(y).ok <=> y = <<>>
<1> DEFINE R == Redo(X)
<1>1. y # <<>> => Head(y).kind = "redo"
  <2>1. y # <<>> => Head(y) \in R
    <3> HIDE DEF R
    <3> QED  BY HeadFirst DEF R
  <2> QED  BY <2>1 DEF Redo
<1>2. Paired(y).ok = TRUE /\ Paired(y).ops = y
  <2>1. Paired(y) = [ok |-> TRUE, ops |-> y]
    BY PairedRedos
  <2> QED  BY <2>1
<1>3. y = <<>> => Preprocess(y).ok
  BY PreprocessShort
<1>4. y # <<>> => ~Preprocess(y).ok
  BY <1>1, <1>2, PreprocessIs
<1> QED  BY <1>3, <1>4

(* Both fail, or both give the same.                                       *)
Agree(p, q) == (p.ok <=> q.ok) /\ (p.ok => p = q)

(* It does not matter which redos they are.                                *)
LEMMA RedosAlike ==
  ASSUME NEW X, NEW t, About(X, t), NEW a \in Seq(X),
         NEW y \in Seq(Redo(X)), NEW z \in Seq(Redo(X)), Len(y) = Len(z)
  PROVE  Agree(Preprocess(a \o y), Preprocess(a \o z))
<1> DEFINE R == Redo(X)
           T == {l \in Seq(X) : \A u, v \in Seq(R) :
                   Len(u) = Len(v) => Agree(Preprocess(l \o u), Preprocess(l \o v))}
<1>0. R \subseteq X /\ \A l \in Seq(R) : l \in Seq(X)
  <2>1. R \subseteq X
    BY DEF Redo
  <2> HIDE DEF R
  <2> QED  BY <2>1
<1>01. \A l \in Seq(X) : \A x \in X : \A q \in Seq(X) : Append(l, x) \o q = l \o (<<x>> \o q)
  <2> TAKE l \in Seq(X)
  <2> TAKE x \in X
  <2> TAKE q \in Seq(X)
  <2> QED  BY AppendShifts
<1>1. <<>> \in T
  <2>1. ASSUME NEW u \in Seq(R), NEW v \in Seq(R), Len(u) = Len(v)
        PROVE  Agree(Preprocess(<<>> \o u), Preprocess(<<>> \o v))
    <3>1. <<>> \o u = u /\ <<>> \o v = v
      BY ConcatEmptySeq
    <3>2. (Preprocess(u).ok <=> u = <<>>) /\ (Preprocess(v).ok <=> v = <<>>)
      BY PreprocessRedos
    <3>3. u = <<>> <=> v = <<>>
      BY <2>1, EmptySeq
    <3> QED  BY <3>1, <3>2, <3>3 DEF Agree
  <2> QED  BY <2>1
<1>2. ASSUME NEW l \in Seq(X), NEW x \in X, l \in T  PROVE Append(l, x) \in T
  <2>0. Append(l, x) \in Seq(X)
    BY AppendProperties
  <2>1. ASSUME NEW u \in Seq(R), NEW v \in Seq(R), Len(u) = Len(v)
        PROVE  Agree(Preprocess(Append(l, x) \o u), Preprocess(Append(l, x) \o v))
    <3>1. u = <<>> <=> v = <<>>
      BY <2>1, EmptySeq
    <3>2. CASE u = <<>>
      BY <3>1, <3>2 DEF Agree
    <3>3. CASE x.kind = "redo"
      <4>1. x \in R
        BY <3>3 DEF Redo
      <4>2. PICK uu : uu = <<x>> \o u
        OBVIOUS
      <4>3. PICK vv : vv = <<x>> \o v
        OBVIOUS
      <4>31. Append(l, x) \o u = l \o uu /\ Append(l, x) \o v = l \o vv
        <5>1. u \in Seq(X) /\ v \in Seq(X)
          BY <1>0
        <5>2. \A q \in Seq(X) : Append(l, x) \o q = l \o (<<x>> \o q)
          BY <1>01
        <5> QED  BY <4>2, <4>3, <5>1, <5>2
      <4> HIDE DEF R
      <4>32. uu \in Seq(R) /\ Len(uu) = Len(u) + 1
        BY <4>1, <4>2, ConsMembers
      <4>33. vv \in Seq(R) /\ Len(vv) = Len(v) + 1
        BY <4>1, <4>3, ConsMembers
      <4>34. Len(uu) = Len(vv)
        BY <2>1, <4>32, <4>33
      <4>4. Agree(Preprocess(l \o uu), Preprocess(l \o vv))
        BY <1>2, <4>32, <4>33, <4>34
      <4> QED  BY <4>31, <4>4
    <3>4. CASE x.kind = "undo" /\ u # <<>>
      <4>1. /\ Tail(u) \in Seq(R) /\ Preprocess(Append(l, x) \o u) = Preprocess(l \o Tail(u))
            /\ Tail(v) \in Seq(R) /\ Preprocess(Append(l, x) \o v) = Preprocess(l \o Tail(v))
        BY <3>1, <3>4, UndoThenRedos
      <4>2. Len(Tail(u)) = Len(Tail(v))
        <5> HIDE DEF R
        <5> QED  BY <2>1, <3>1, <3>4, HeadTailProperties
      <4> HIDE DEF R
      <4>3. Agree(Preprocess(l \o Tail(u)), Preprocess(l \o Tail(v)))
        BY <1>2, <4>1, <4>2
      <4> QED  BY <4>1, <4>3
    <3>5. CASE x.kind \notin {"undo", "redo"} /\ u # <<>>
      <4>1. ~Preprocess(Append(l, x) \o u).ok /\ ~Preprocess(Append(l, x) \o v).ok
        BY <3>1, <3>5, EditThenRedos
      <4> QED  BY <4>1 DEF Agree
    <3> QED  BY <3>2, <3>3, <3>4, <3>5
  <2> QED  BY <2>0, <2>1
<1> HIDE DEF T, R
<1>3. a \in T
  BY <1>1, <1>2, InductBack
<1> QED  BY <1>3 DEF T, R

(* What is left of a when n redos come after it.                           *)
Redos(r, n) == [i \in 1..n |-> r]
Then(a, r, n) == Preprocess(a \o Redos(r, n))

(* There are n of them, and the tail of one more is they.                  *)
LEMMA RedosTyped ==
  ASSUME NEW X, NEW r \in X, NEW n \in Nat
  PROVE  /\ Redos(r, n) \in Seq(X) /\ Len(Redos(r, n)) = n
         /\ Redos(r, 0) = <<>> /\ Redos(r, n + 1) # <<>>
         /\ Tail(Redos(r, n + 1)) = Redos(r, n)
<1>1. \A m \in Nat : Redos(r, m) \in Seq(X) /\ Len(Redos(r, m)) = m /\ \A i \in 1..m : Redos(r, m)[i] = r
  BY DEF Redos
<1>2. Redos(r, 0) = <<>> /\ Redos(r, n + 1) # <<>>
  <2>1. Len(Redos(r, 0)) = 0 /\ Redos(r, 0) \in Seq(X)
    BY <1>1
  <2>2. n + 1 \in Nat /\ n + 1 # 0
    OBVIOUS
  <2>3. Len(Redos(r, n + 1)) = n + 1
    BY <1>1, <2>2
  <2> QED  BY <2>1, <2>2, <2>3, EmptySeq
<1> DEFINE u == Redos(r, n)
           v == Redos(r, n + 1)
<1>3. u \in Seq(X) /\ Len(u) = n /\ \A i \in 1..n : u[i] = r
  BY <1>1
<1>4. v \in Seq(X) /\ Len(v) = n + 1 /\ v # <<>> /\ \A i \in 1..(n + 1) : v[i] = r
  <2>1. n + 1 \in Nat
    OBVIOUS
  <2> QED  BY <1>1, <1>2, <2>1
<1> HIDE DEF u, v
<1>5. Tail(v) \in Seq(X) /\ Len(Tail(v)) = n /\ \A i \in 1..n : Tail(v)[i] = v[i + 1]
  BY <1>4
<1>6. \A i \in 1..n : i + 1 \in 1..(n + 1)
  OBVIOUS
<1>7. \A i \in 1..n : Tail(v)[i] = u[i]
  BY <1>3, <1>4, <1>5, <1>6
<1>8. Tail(v) = u
  BY <1>3, <1>5, <1>7, SeqEqual
<1> QED  BY <1>1, <1>2, <1>8 DEF u, v

(* With no redo it is preprocess.                                          *)
LEMMA ThenNone ==
  ASSUME NEW X, NEW a \in Seq(X), NEW r
  PROVE  Then(a, r, 0) = Preprocess(a)
<1>1. Redos(r, 0) = <<>>
  <2>1. r \in {r} /\ 0 \in Nat
    OBVIOUS
  <2> QED  BY <2>1, RedosTyped
<1>2. a \o Redos(r, 0) = a
  BY <1>1, ConcatEmptySeq
<1> QED  BY <1>2 DEF Then

(* A redo in the list is one more of them.                                 *)
LEMMA ThenRedo ==
  ASSUME NEW X, NEW t, About(X, t), NEW r \in Redo(X), NEW a \in Seq(X), NEW x \in X,
         x.kind = "redo", NEW n \in Nat
  PROVE  Agree(Then(Append(a, x), r, n), Then(a, r, n + 1))
<1> DEFINE R == Redo(X)
<1>0. r \in R /\ x \in R
  BY DEF Redo
<1>1. PICK y : y = Redos(r, n)
  OBVIOUS
<1>2. PICK z : z = Redos(r, n + 1)
  OBVIOUS
<1>3. PICK w : w = <<x>> \o y
  OBVIOUS
<1>4. y \in Seq(R) /\ Len(y) = n
  <2> HIDE DEF R
  <2> QED  BY <1>0, <1>1, RedosTyped
<1>5. z \in Seq(R) /\ Len(z) = n + 1
  <2>1. n + 1 \in Nat
    OBVIOUS
  <2> HIDE DEF R
  <2> QED  BY <1>0, <1>2, <2>1, RedosTyped
<1>6. w \in Seq(R) /\ Len(w) = n + 1
  <2> HIDE DEF R
  <2>1. <<x>> \o y \in Seq(R) /\ Len(<<x>> \o y) = Len(y) + 1
    BY <1>0, <1>4, ConsMembers
  <2> QED  BY <1>3, <1>4, <2>1
<1>7. Append(a, x) \o y = a \o w
  <2>1. y \in Seq(X)
    <3>1. R \subseteq X
      BY DEF Redo
    <3> HIDE DEF R
    <3> QED  BY <1>4, <3>1
  <2>2. Append(a, x) \o y = a \o (<<x>> \o y)
    BY <2>1, AppendConcat
  <2> QED  BY <1>3, <2>2
<1>8. Len(w) = Len(z)
  BY <1>5, <1>6
<1>9. Agree(Preprocess(a \o w), Preprocess(a \o z))
  BY <1>5, <1>6, <1>8, RedosAlike
<1> QED  BY <1>1, <1>2, <1>7, <1>9 DEF Then

(* An undo in the list is one less.                                        *)
LEMMA ThenUndo ==
  ASSUME NEW X, NEW t, About(X, t), NEW r \in Redo(X), NEW a \in Seq(X), NEW x \in X,
         x.kind = "undo", NEW n \in Nat
  PROVE  Then(Append(a, x), r, n + 1) = Then(a, r, n)
<1>1. PICK y : y = Redos(r, n + 1)
  OBVIOUS
<1>2. y \in Seq(Redo(X)) /\ y # <<>> /\ Tail(y) = Redos(r, n)
  <2>1. n + 1 \in Nat
    OBVIOUS
  <2>2. Redos(r, n + 1) \in Seq(Redo(X))
    BY <2>1, RedosTyped
  <2> QED  BY <1>1, <2>2, RedosTyped
<1>3. Preprocess(Append(a, x) \o y) = Preprocess(a \o Tail(y))
  BY <1>2, UndoThenRedos
<1> QED  BY <1>1, <1>2, <1>3 DEF Then

(* After anything else there is nothing to redo.                           *)
LEMMA ThenEdit ==
  ASSUME NEW X, NEW t, About(X, t), NEW r \in Redo(X), NEW a \in Seq(X), NEW x \in X,
         x.kind \notin {"undo", "redo"}, NEW n \in Nat
  PROVE  ~Then(Append(a, x), r, n + 1).ok
<1>1. PICK y : y = Redos(r, n + 1)
  OBVIOUS
<1>2. y \in Seq(Redo(X)) /\ y # <<>>
  <2>1. n + 1 \in Nat
    OBVIOUS
  <2>2. Redos(r, n + 1) \in Seq(Redo(X))
    BY <2>1, RedosTyped
  <2> QED  BY <1>1, <2>2, RedosTyped
<1>3. ~Preprocess(Append(a, x) \o y).ok
  BY <1>2, EditThenRedos
<1> QED  BY <1>1, <1>3 DEF Then

(* Nor at the start.                                                       *)
LEMMA ThenAtFirst ==
  ASSUME NEW X, NEW t, About(X, t), NEW r \in Redo(X), NEW n \in Nat
  PROVE  Then(<<>>, r, n).ok <=> n = 0
<1>1. PICK y : y = Redos(r, n)
  OBVIOUS
<1>2. y \in Seq(Redo(X)) /\ Len(y) = n
  BY <1>1, RedosTyped
<1>3. <<>> \o y = y
  BY <1>2, ConcatEmptySeq
<1>4. Preprocess(y).ok <=> y = <<>>
  BY <1>2, PreprocessRedos
<1>5. y = <<>> <=> n = 0
  BY <1>2, EmptySeq
<1> QED  BY <1>1, <1>3, <1>4, <1>5 DEF Then

-----------------------------------------------------------------------------
(* PairOff, case by case.                                                  *)
LEMMA PairOffFront ==
  ASSUME NEW e, NEW b \in BOOLEAN, NEW q, q = <<>> \/ Head(q).kind # "redo"
  PROVE  PairOff(e, [ok |-> b, ops |-> q]) = [ok |-> b, ops |-> <<e>> \o q]
  BY DEF PairOff

(* A redo next to something that is not an undo is an error,               *)
LEMMA PairOffAlien ==
  ASSUME NEW e, NEW b \in BOOLEAN, NEW q, q # <<>>, Head(q).kind = "redo",
         e.tl # Head(q).tl \/ e.kind \notin {"undo", "redo"}
  PROVE  PairOff(e, [ok |-> b, ops |-> q]) = [ok |-> FALSE, ops |-> q]
  BY DEF PairOff

(* next to an undo it takes the undo out,                                  *)
LEMMA PairOffUndo ==
  ASSUME NEW e, NEW b \in BOOLEAN, NEW q, q # <<>>, Head(q).kind = "redo",
         e.tl = Head(q).tl, e.kind = "undo"
  PROVE  PairOff(e, [ok |-> b, ops |-> q]) = [ok |-> b, ops |-> Tail(q)]
  BY DEF PairOff

(* and any other op stays.                                                 *)
LEMMA PairOffRedo ==
  ASSUME NEW e, NEW b \in BOOLEAN, NEW q, q # <<>>, Head(q).kind = "redo",
         e.tl = Head(q).tl, e.kind = "redo"
  PROVE  PairOff(e, [ok |-> b, ops |-> q]) = [ok |-> b, ops |-> <<e>> \o q]
  BY DEF PairOff

(* What is not a redo stays where it is in step 1, and is for step 3.      *)
LEMMA PairedLast ==
  ASSUME NEW X, NEW x \in X, x.kind # "redo", NEW a \in Seq(X)
  PROVE  Paired(Append(a, x)) = [ok |-> Paired(a).ok, ops |-> Append(Paired(a).ops, x)]
<1> DEFINE More(p) == [ok |-> p.ok, ops |-> Append(p.ops, x)]
           T == {l \in Seq(X) : Paired(Append(l, x)) = More(Paired(l))}
<1>1. <<>> \in T
  <2> DEFINE e == <<>>
             u == <<x>>
  <2>1. e \in Seq(X) /\ Append(e, x) = u /\ <<x>> \o e = u
    OBVIOUS
  <2>2. Paired(e) = [ok |-> TRUE, ops |-> e]
    BY PairedEmpty
  <2>3. PairOff(x, [ok |-> TRUE, ops |-> e]) = [ok |-> TRUE, ops |-> <<x>> \o e]
    BY DEF PairOff
  <2> HIDE DEF e, u
  <2>4. Paired(<<x>> \o e) = PairOff(x, Paired(e))
    BY <2>1, PairedCons
  <2>5. Paired(Append(e, x)) = [ok |-> TRUE, ops |-> u]
    BY <2>1, <2>2, <2>3, <2>4
  <2>6. More(Paired(e)) = [ok |-> TRUE, ops |-> u]
    <3>1. PICK p : p = Paired(e)
      OBVIOUS
    <3>2. p.ok = TRUE /\ p.ops = e
      BY <2>2, <3>1
    <3> QED  BY <2>1, <3>1, <3>2
  <2> QED  BY <2>1, <2>5, <2>6 DEF e
<1>2. ASSUME NEW l \in Seq(X), NEW e \in X, l \in T  PROVE <<e>> \o l \in T
  <2> DEFINE m == <<e>> \o l
  <2>1. PICK p : p = Paired(l)
    OBVIOUS
  <2>2. p \in Pairs(X) /\ p.ops \in Seq(X) /\ p.ok \in BOOLEAN /\ p = [ok |-> p.ok, ops |-> p.ops]
    <3>1. p \in Pairs(X)
      BY <2>1, PairedTyped
    <3> QED  BY <3>1 DEF Pairs
  <2>3. m \in Seq(X) /\ Append(l, x) \in Seq(X)
    BY ConsMembers, AppendProperties
  <2>4. Append(m, x) = <<e>> \o Append(l, x)
    <3>1. <<e>> \in Seq(X) /\ <<x>> \in Seq(X) /\ Append(l, x) = l \o <<x>> /\ Append(m, x) = m \o <<x>>
      BY <2>3, AppendConcat
    <3>2. (<<e>> \o l) \o <<x>> = <<e>> \o (l \o <<x>>)
      BY <3>1, ConcatAssociative
    <3> QED  BY <3>1, <3>2
  <2> HIDE DEF m
  <2>5. Paired(m) = PairOff(e, p) /\ Paired(Append(m, x)) = PairOff(e, More(p))
    <3>1. Paired(m) = PairOff(e, Paired(l))
      BY PairedCons DEF m
    <3>2. Paired(<<e>> \o Append(l, x)) = PairOff(e, Paired(Append(l, x)))
      BY <2>3, PairedCons
    <3>3. Paired(Append(l, x)) = More(p)
      BY <1>2, <2>1
    <3> QED  BY <2>1, <2>4, <3>1, <3>2, <3>3
  <2>6. PairOff(e, More(p)) = More(PairOff(e, p))
    <3>0. PICK b \in BOOLEAN : b = p.ok
      BY <2>2
    <3>00. PICK q : q = p.ops
      OBVIOUS
    <3>01. PICK w : w = Append(q, x)
      OBVIOUS
    <3>1. q \in Seq(X) /\ w \in Seq(X) /\ w # <<>>
      BY <2>2, <3>00, <3>01
    <3>2. q = <<>> => Head(w) = x
      BY <3>1, <3>01
    <3>3. q # <<>> => Head(w) = Head(q) /\ Tail(w) = Append(Tail(q), x)
      BY <3>1, <3>01
    <3>4. <<e>> \o w = Append(<<e>> \o q, x)
      <4>1. <<e>> \in Seq(X)
        OBVIOUS
      <4> QED  BY <3>1, <3>01, <4>1
    <3>5. More(p) = [ok |-> b, ops |-> w] /\ p = [ok |-> b, ops |-> q]
      BY <2>2, <3>0, <3>00, <3>01
    <3>51. \A c, z : More([ok |-> c, ops |-> z]) = [ok |-> c, ops |-> Append(z, x)]
      OBVIOUS
    <3> HIDE DEF More
    <3>6. CASE q = <<>> \/ Head(q).kind # "redo"
      <4>1. PairOff(e, [ok |-> b, ops |-> q]) = [ok |-> b, ops |-> <<e>> \o q]
        BY <3>6, PairOffFront
      <4>2. Head(w).kind # "redo"
        BY <3>2, <3>3, <3>6
      <4>3. PairOff(e, [ok |-> b, ops |-> w]) = [ok |-> b, ops |-> <<e>> \o w]
        BY <4>2, PairOffFront
      <4> QED  BY <3>4, <3>5, <3>51, <4>1, <4>3
    <3>7. CASE q # <<>> /\ Head(q).kind = "redo"
      <4>1. Head(w).kind = "redo" /\ Head(w) = Head(q) /\ w # <<>> /\ Tail(w) = Append(Tail(q), x)
        BY <3>1, <3>3, <3>7
      <4>2. CASE e.tl # Head(q).tl \/ e.kind \notin {"undo", "redo"}
        <5>1. PairOff(e, [ok |-> b, ops |-> q]) = [ok |-> FALSE, ops |-> q]
          BY <3>7, <4>2, PairOffAlien
        <5>2. PairOff(e, [ok |-> b, ops |-> w]) = [ok |-> FALSE, ops |-> w]
          BY <4>1, <4>2, PairOffAlien
        <5> QED  BY <3>01, <3>5, <3>51, <5>1, <5>2
      <4>3. CASE e.tl = Head(q).tl /\ e.kind = "undo"
        <5>1. PairOff(e, [ok |-> b, ops |-> q]) = [ok |-> b, ops |-> Tail(q)]
          BY <3>7, <4>3, PairOffUndo
        <5>2. PairOff(e, [ok |-> b, ops |-> w]) = [ok |-> b, ops |-> Tail(w)]
          BY <4>1, <4>3, PairOffUndo
        <5> QED  BY <3>5, <3>51, <4>1, <5>1, <5>2
      <4>4. CASE e.tl = Head(q).tl /\ e.kind = "redo"
        <5>1. PairOff(e, [ok |-> b, ops |-> q]) = [ok |-> b, ops |-> <<e>> \o q]
          BY <3>7, <4>4, PairOffRedo
        <5>2. PairOff(e, [ok |-> b, ops |-> w]) = [ok |-> b, ops |-> <<e>> \o w]
          BY <4>1, <4>4, PairOffRedo
        <5> QED  BY <3>4, <3>5, <3>51, <5>1, <5>2
      <4> QED  BY <4>2, <4>3, <4>4
    <3> QED  BY <3>6, <3>7
  <2>7. Append(m, x) \in Seq(X)
    BY <2>3, AppendProperties
  <2>8. Paired(Append(m, x)) = More(Paired(m))
    BY <2>5, <2>6
  <2> HIDE DEF More
  <2> QED  BY <2>3, <2>8 DEF m
<1> HIDE DEF T
<1>3. a \in T
  BY <1>1, <1>2, InductFront
<1> QED  BY <1>3 DEF T

(* So does the whole of preprocess: it deals with the last op last.        *)
LEMMA PreprocessLast ==
  ASSUME NEW X, NEW x \in X, x.kind # "redo", NEW a \in Seq(X)
  PROVE  /\ Preprocess(Append(a, x)).ok <=> Preprocess(a).ok
         /\ Preprocess(Append(a, x)).ops = DropUndone(Preprocess(a).ops, x)
<1>1. PICK q : q = Paired(a).ops
  OBVIOUS
<1>2. q \in Seq(X)
  BY <1>1, PairedTyped DEF Pairs
<1>3. PICK w : w = Append(q, x)
  OBVIOUS
<1>4. Paired(Append(a, x)) = [ok |-> Paired(a).ok, ops |-> w]
  BY <1>1, <1>3, PairedLast
<1>5. Paired(Append(a, x)).ok = Paired(a).ok /\ Paired(Append(a, x)).ops = w
  BY <1>4
<1>6. w # <<>> /\ (q = <<>> => Head(w) = x) /\ (q # <<>> => Head(w) = Head(q))
  BY <1>2, <1>3
<1>7. Dropped(w) = DropUndone(Dropped(q), x)
  BY <1>2, <1>3, DroppedAppend
<1>8. (w = <<>> \/ Head(w).kind # "redo") <=> (q = <<>> \/ Head(q).kind # "redo")
  BY <1>6
<1>9. Preprocess(Append(a, x)).ok <=> Preprocess(a).ok
  BY <1>1, <1>5, <1>8, PreprocessIs
<1>10. Preprocess(Append(a, x)).ops = Dropped(w) /\ Preprocess(a).ops = Dropped(q)
  BY <1>1, <1>5, PreprocessIs
<1> QED  BY <1>7, <1>9, <1>10

-----------------------------------------------------------------------------
(* Redos can be added up to some number of them: that of the undos that    *)
(* nothing but redos came after.                                           *)
LEMMA HowMany ==
  ASSUME NEW X, NEW t, About(X, t), NEW r \in Redo(X), NEW a \in Seq(X)
  PROVE  \E k \in 0..(Len(a) + 1) : \A n \in Nat : Then(a, r, n).ok <=> n < k
<1> DEFINE Upto(l, k) == \A n \in Nat : Then(l, r, n).ok <=> n < k
           T == {l \in Seq(X) : \E k \in 0..(Len(l) + 1) : Upto(l, k)}
<1>1. <<>> \in T
  <2> DEFINE e == <<>>
  <2>1. e \in Seq(X) /\ 1 \in 0..(Len(e) + 1)
    OBVIOUS
  <2>2. \A n \in Nat : Then(e, r, n).ok <=> n = 0
    BY ThenAtFirst
  <2>3. \A n \in Nat : n = 0 <=> n < 1
    OBVIOUS
  <2>4. Upto(e, 1)
    BY <2>2, <2>3
  <2> HIDE DEF e, Upto
  <2>5. e \in T
    BY <2>1, <2>4
  <2> QED  BY <2>5 DEF e
<1>2. ASSUME NEW l \in Seq(X), NEW x \in X, l \in T  PROVE Append(l, x) \in T
  <2>0. PICK m : m = Append(l, x)
    OBVIOUS
  <2>1. m \in Seq(X) /\ Len(m) = Len(l) + 1 /\ Len(l) \in Nat
    BY <2>0, AppendProperties, LenProperties
  <2>2. PICK k \in 0..(Len(l) + 1) : Upto(l, k)
    BY <1>2
  <2>3. \A n \in Nat : Then(l, r, n).ok <=> n < k
    BY <2>2
  <2> SUFFICES \E j \in 0..(Len(m) + 1) : Upto(m, j)
    BY <2>0, <2>1
  <2>4. CASE x.kind = "redo"
    <3>1. \A n \in Nat : Then(m, r, n).ok <=> Then(l, r, n + 1).ok
      <4>1. \A n \in Nat : Agree(Then(m, r, n), Then(l, r, n + 1))
        BY <2>0, <2>4, ThenRedo
      <4> QED  BY <4>1 DEF Agree
    <3>2. PICK j \in 0..(Len(m) + 1) : \A n \in Nat : n + 1 < k <=> n < j
      <4>1. CASE k = 0
        <5>1. 0 \in 0..(Len(m) + 1) /\ \A n \in Nat : n + 1 < k <=> n < 0
          BY <2>1, <4>1
        <5> QED  BY <5>1
      <4>2. CASE k # 0
        <5>1. k - 1 \in 0..(Len(m) + 1) /\ \A n \in Nat : n + 1 < k <=> n < k - 1
          BY <2>1, <4>2
        <5> QED  BY <5>1
      <4> QED  BY <4>1, <4>2
    <3>3. \A n \in Nat : n + 1 \in Nat
      OBVIOUS
    <3> QED  BY <2>3, <3>1, <3>2, <3>3
  <2>5. CASE x.kind = "undo"
    <3>1. \A n \in Nat : Then(m, r, n + 1).ok <=> Then(l, r, n).ok
      <4>1. \A n \in Nat : Then(m, r, n + 1) = Then(l, r, n)
        BY <2>0, <2>5, ThenUndo
      <4> QED  BY <4>1
    <3>2. Then(m, r, 0).ok <=> Then(l, r, 0).ok
      <4>1. Then(m, r, 0) = Preprocess(m) /\ Then(l, r, 0) = Preprocess(l)
        BY <2>1, ThenNone
      <4>2. Preprocess(m).ok <=> Preprocess(l).ok
        BY <2>0, <2>5, PreprocessLast
      <4> QED  BY <4>1, <4>2
    <3>3. PICK j \in 0..(Len(m) + 1) : (0 < k <=> 0 < j) /\ \A n \in Nat : n < k <=> n + 1 < j
      <4>1. CASE k = 0
        <5>1. 0 \in 0..(Len(m) + 1) /\ (0 < k <=> 0 < 0) /\ \A n \in Nat : n < k <=> n + 1 < 0
          BY <2>1, <4>1
        <5> QED  BY <5>1
      <4>2. CASE k # 0
        <5>1. k + 1 \in 0..(Len(m) + 1) /\ (0 < k <=> 0 < k + 1) /\ \A n \in Nat : n < k <=> n + 1 < k + 1
          BY <2>1, <4>2
        <5> QED  BY <5>1
      <4> QED  BY <4>1, <4>2
    <3>4. \A n \in Nat : n = 0 \/ \E i \in Nat : n = i + 1
      <4>1. \A n \in Nat : n # 0 => n - 1 \in Nat /\ n = (n - 1) + 1
        OBVIOUS
      <4> QED  BY <4>1
    <3>5. ASSUME NEW n \in Nat PROVE Then(m, r, n).ok <=> n < j
      <4>1. CASE n = 0
        <5>1. 0 \in Nat
          OBVIOUS
        <5> QED  BY <2>3, <3>2, <3>3, <4>1, <5>1
      <4>2. ASSUME NEW i \in Nat, n = i + 1 PROVE Then(m, r, n).ok <=> n < j
        BY <2>3, <3>1, <3>3, <4>2
      <4> QED  BY <3>4, <4>1, <4>2
    <3> QED  BY <3>5
  <2>6. CASE x.kind \notin {"undo", "redo"}
    <3>1. \A n \in Nat : ~Then(m, r, n + 1).ok
      BY <2>0, <2>6, ThenEdit
    <3>2. Then(m, r, 0).ok <=> Then(l, r, 0).ok
      <4>1. Then(m, r, 0) = Preprocess(m) /\ Then(l, r, 0) = Preprocess(l)
        BY <2>1, ThenNone
      <4>2. Preprocess(m).ok <=> Preprocess(l).ok
        BY <2>0, <2>6, PreprocessLast
      <4> QED  BY <4>1, <4>2
    <3>3. PICK j \in 0..(Len(m) + 1) : (0 < k <=> 0 < j) /\ \A n \in Nat : ~(n + 1 < j)
      <4>1. CASE k = 0
        <5>1. 0 \in 0..(Len(m) + 1) /\ (0 < k <=> 0 < 0) /\ \A n \in Nat : ~(n + 1 < 0)
          BY <2>1, <4>1
        <5> QED  BY <5>1
      <4>2. CASE k # 0
        <5>1. 1 \in 0..(Len(m) + 1) /\ (0 < k <=> 0 < 1) /\ \A n \in Nat : ~(n + 1 < 1)
          BY <2>1, <4>2
        <5> QED  BY <5>1
      <4> QED  BY <4>1, <4>2
    <3>4. \A n \in Nat : n = 0 \/ \E i \in Nat : n = i + 1
      <4>1. \A n \in Nat : n # 0 => n - 1 \in Nat /\ n = (n - 1) + 1
        OBVIOUS
      <4> QED  BY <4>1
    <3>5. ASSUME NEW n \in Nat PROVE Then(m, r, n).ok <=> n < j
      <4>1. CASE n = 0
        <5>1. 0 \in Nat
          OBVIOUS
        <5> QED  BY <2>3, <3>2, <3>3, <4>1, <5>1
      <4>2. ASSUME NEW i \in Nat, n = i + 1 PROVE Then(m, r, n).ok <=> n < j
        BY <3>1, <3>3, <4>2
      <4> QED  BY <3>4, <4>1, <4>2
    <3> QED  BY <3>5
  <2> QED  BY <2>4, <2>5, <2>6
<1> HIDE DEF T
<1>3. a \in T
  BY <1>1, <1>2, InductBack
<1> QED  BY <1>3 DEF T

(* Undos of a toplevel do the same.                                        *)
LEMMA UndosAlike ==
  ASSUME NEW d, NEW x, NEW u, x.kind = "undo", u.kind = "undo", x.tl = u.tl
  PROVE  DropUndone(d, x) = DropUndone(d, u)
  BY DEF DropUndone

(* A redo takes an undo back: what was there is what the undo leaves of    *)
(* what is there with the redo.                                            *)
LEMMA Undone ==
  ASSUME NEW X, NEW t, About(X, t), NEW r \in Redo(X), NEW u, u.kind = "undo", u.tl = t,
         NEW a \in Seq(X), NEW n \in Nat, Then(a, r, n + 1).ok
  PROVE  Then(a, r, n).ok /\ Then(a, r, n).ops = DropUndone(Then(a, r, n + 1).ops, u)
<1> DEFINE Back(p, q) == q.ok => p.ok /\ p.ops = DropUndone(q.ops, u)
           T == {l \in Seq(X) : \A m \in Nat : Back(Then(l, r, m), Then(l, r, m + 1))}
<1>0. \A m \in Nat : m + 1 \in Nat /\ (m = 0 \/ \E i \in Nat : m = i + 1)
  <2>1. \A m \in Nat : m # 0 => m - 1 \in Nat /\ m = (m - 1) + 1
    OBVIOUS
  <2> QED  BY <2>1
<1>1. <<>> \in T
  <2>1. <<>> \in Seq(X)
    OBVIOUS
  <2>2. \A m \in Nat : ~Then(<<>>, r, m + 1).ok
    <3>1. \A m \in Nat : m + 1 \in Nat /\ m + 1 # 0
      OBVIOUS
    <3> QED  BY <3>1, ThenAtFirst
  <2> QED  BY <2>1, <2>2
<1>2. ASSUME NEW l \in Seq(X), NEW x \in X, l \in T  PROVE Append(l, x) \in T
  <2>0. PICK h : h = Append(l, x)
    OBVIOUS
  <2>1. h \in Seq(X)
    BY <2>0, AppendProperties
  <2>2. ASSUME NEW m \in Nat PROVE Back(Then(l, r, m), Then(l, r, m + 1))
    BY <1>2
  <2>3. x.tl = t
    BY DEF About
  <2>4. ASSUME NEW m \in Nat PROVE Back(Then(h, r, m), Then(h, r, m + 1))
    <3>1. CASE x.kind = "redo"
      <4>1. Agree(Then(h, r, m), Then(l, r, m + 1))
        BY <2>0, <3>1, ThenRedo
      <4>2. Agree(Then(h, r, m + 1), Then(l, r, (m + 1) + 1))
        BY <1>0, <2>0, <3>1, ThenRedo
      <4>3. Back(Then(l, r, m + 1), Then(l, r, (m + 1) + 1))
        BY <1>0, <2>2
      <4> QED  BY <4>1, <4>2, <4>3 DEF Agree
    <3>2. CASE x.kind = "undo" /\ m = 0
      <4>1. Then(h, r, 0) = Preprocess(h) /\ Then(l, r, 0) = Preprocess(l)
        BY <2>1, ThenNone
      <4>2. Then(h, r, m + 1) = Then(l, r, m)
        BY <2>0, <3>2, ThenUndo
      <4>3. /\ Preprocess(h).ok <=> Preprocess(l).ok
            /\ Preprocess(h).ops = DropUndone(Preprocess(l).ops, x)
        BY <2>0, <3>2, PreprocessLast
      <4>4. DropUndone(Preprocess(l).ops, x) = DropUndone(Preprocess(l).ops, u)
        BY <2>3, <3>2, UndosAlike
      <4>5. PICK p : p = Preprocess(l)
        OBVIOUS
      <4>6. PICK q : q = Preprocess(h)
        OBVIOUS
      <4>7. (q.ok <=> p.ok) /\ q.ops = DropUndone(p.ops, u)
        BY <4>3, <4>4, <4>5, <4>6
      <4>8. Then(h, r, m) = q /\ Then(h, r, m + 1) = p
        BY <3>2, <4>1, <4>2, <4>5, <4>6
      <4> QED  BY <4>7, <4>8
    <3>3. ASSUME x.kind = "undo", NEW i \in Nat, m = i + 1
          PROVE  Back(Then(h, r, m), Then(h, r, m + 1))
      <4>1. Then(h, r, i + 1) = Then(l, r, i) /\ Then(h, r, (i + 1) + 1) = Then(l, r, i + 1)
        <5>1. i + 1 \in Nat
          OBVIOUS
        <5>2. \A j \in Nat : Then(Append(l, x), r, j + 1) = Then(l, r, j)
          BY <3>3, ThenUndo
        <5> QED  BY <2>0, <5>1, <5>2
      <4>2. Back(Then(l, r, i), Then(l, r, i + 1))
        BY <2>2
      <4> QED  BY <3>3, <4>1, <4>2
    <3>4. CASE x.kind \notin {"undo", "redo"}
      <4>1. ~Then(h, r, m + 1).ok
        BY <2>0, <3>4, ThenEdit
      <4> QED  BY <4>1
    <3> QED  BY <1>0, <3>1, <3>2, <3>3, <3>4
  <2> QED  BY <2>0, <2>1, <2>4
<1> HIDE DEF T
<1>3. a \in T
  BY <1>1, <1>2, InductBack
<1>4. Back(Then(a, r, n), Then(a, r, n + 1))
  BY <1>3 DEF T
<1> QED  BY <1>4

(* The front of a list, when one more is at its end.                       *)
LEMMA FrontSame ==
  ASSUME NEW X, NEW d \in Seq(X), NEW y \in X
  PROVE  /\ \A n \in 0..Len(d) : SubSeq(Append(d, y), 1, n) = SubSeq(d, 1, n)
         /\ SubSeq(d, 1, Len(d)) = d
<1>1. PICK e : e = Append(d, y)
  OBVIOUS
<1>2. PICK L \in Nat : L = Len(d)
  BY LenProperties
<1>3. e \in Seq(X) /\ Len(e) = L + 1 /\ \A i \in 1..L : e[i] = d[i]
  BY <1>1, <1>2, AppendProperties
<1>4. ASSUME NEW n \in 0..L PROVE SubSeq(e, 1, n) = SubSeq(d, 1, n)
  <2>1. \A i \in 1..n : i \in 1..L /\ i \in 1..(L + 1)
    OBVIOUS
  <2>2. \A i \in 1..n : d[i] \in X /\ e[i] \in X
    BY <1>2, <1>3, <2>1, ElementOfSeq
  <2>3. PICK p : p = SubSeq(d, 1, n)
    OBVIOUS
  <2>4. PICK q : q = SubSeq(e, 1, n)
    OBVIOUS
  <2>5. p \in Seq(X) /\ Len(p) = n /\ \A i \in 1..n : p[i] = d[i]
    BY <1>2, <2>1, <2>2, <2>3
  <2>6. q \in Seq(X) /\ Len(q) = n /\ \A i \in 1..n : q[i] = e[i]
    BY <1>3, <2>1, <2>2, <2>4
  <2>7. \A i \in 1..n : p[i] = q[i]
    BY <1>3, <2>1, <2>5, <2>6
  <2>8. p = q
    BY <2>5, <2>6, <2>7, SeqEqual
  <2> QED  BY <2>3, <2>4, <2>8
<1>5. SubSeq(d, 1, L) = d
  <2>2. \A i \in 1..L : d[i] \in X
    BY <1>2, ElementOfSeq
  <2>3. PICK p : p = SubSeq(d, 1, L)
    OBVIOUS
  <2>5. p \in Seq(X) /\ Len(p) = L /\ \A i \in 1..L : p[i] = d[i]
    BY <1>2, <2>2, <2>3
  <2>8. p = d
    BY <1>2, <2>5, SeqEqual
  <2> QED  BY <2>3, <2>8
<1> QED  BY <1>1, <1>2, <1>4, <1>5

-----------------------------------------------------------------------------
(* What undoing will show, of a list without undos: what was there before  *)
(* each of its savepoints, from the first that had something before it.    *)
Before(reduced, t) == [i \in DOMAIN reduced |-> Replayed(SubSeq(reduced, 1, i - 1), t)]

Savepoints(reduced) == {i \in DOMAIN reduced : reduced[i].kind = "save"}

Noticed(reduced, before) ==
  {i \in Savepoints(reduced) : \E j \in Savepoints(reduced) : j <= i /\ before[j] # Nothing}

Behind(reduced, t) == Kept(Before(reduced, t), Noticed(reduced, Before(reduced, t)))

Later(p, shown) == IF p = <<>> /\ shown = Nothing THEN <<>> ELSE Append(p, shown)

(* One more op.                                                            *)
LEMMA BeforeAppend ==
  ASSUME NEW X, NEW d \in Seq(X), NEW y \in X, NEW t
  PROVE  /\ Before(Append(d, y), t) = Append(Before(d, t), Replayed(d, t))
         /\ \E V : Before(d, t) \in Seq(V) /\ Replayed(d, t) \in V
         /\ Len(Before(d, t)) = Len(d)
<1>1. PICK e : e = Append(d, y)
  OBVIOUS
<1>2. PICK L \in Nat : L = Len(d)
  BY LenProperties
<1>3. e \in Seq(X) /\ Len(e) = L + 1 /\ DOMAIN e = 1..(L + 1) /\ DOMAIN d = 1..L
  BY <1>1, <1>2, AppendProperties, LenProperties
<1>4. PICK b : b = Before(d, t)
  OBVIOUS
<1>5. PICK c : c = Before(e, t)
  OBVIOUS
<1>6. PICK v : v = Replayed(d, t)
  OBVIOUS
<1>7. /\ b = [i \in 1..L |-> Replayed(SubSeq(d, 1, i - 1), t)]
      /\ c = [i \in 1..(L + 1) |-> Replayed(SubSeq(e, 1, i - 1), t)]
  BY <1>3, <1>4, <1>5 DEF Before
<1>8. \A i \in 1..L : b[i] = c[i]
  <2> TAKE i \in 1..L
  <2>1. i - 1 \in 0..L /\ i \in 1..(L + 1)
    OBVIOUS
  <2>2. SubSeq(e, 1, i - 1) = SubSeq(d, 1, i - 1)
    BY <1>1, <1>2, <2>1, FrontSame
  <2> QED  BY <1>7, <2>1, <2>2
<1>9. c[L + 1] = v
  <2>1. SubSeq(e, 1, L) = d
    <3>1. L \in 0..L
      OBVIOUS
    <3> QED  BY <1>1, <1>2, <3>1, FrontSame
  <2>2. (L + 1) - 1 = L /\ L + 1 \in 1..(L + 1)
    OBVIOUS
  <2>3. c[L + 1] = Replayed(SubSeq(e, 1, (L + 1) - 1), t)
    BY <1>7, <2>2
  <2> QED  BY <1>6, <2>1, <2>2, <2>3
<1>10. PICK V : V = {c[i] : i \in 1..(L + 1)}
  OBVIOUS
<1>11. b \in Seq(V) /\ Len(b) = L
  <2>1. \A i \in 1..L : b[i] \in V
    BY <1>8, <1>10
  <2>2. b = [i \in 1..L |-> b[i]]
    BY <1>7
  <2>3. b \in [1..L -> V]
    BY <2>1, <2>2
  <2> QED  BY <2>3
<1>12. c \in Seq(V) /\ Len(c) = L + 1
  <2>1. c = [i \in 1..(L + 1) |-> c[i]]
    BY <1>7
  <2>2. c \in [1..(L + 1) -> V]
    BY <1>10, <2>1
  <2>3. L + 1 \in Nat
    OBVIOUS
  <2> QED  BY <2>2, <2>3
<1>13. v \in V
  <2>1. L + 1 \in 1..(L + 1)
    OBVIOUS
  <2> QED  BY <1>9, <1>10, <2>1
<1>14. PICK w : w = Append(b, v)
  OBVIOUS
<1>15. w \in Seq(V) /\ Len(w) = L + 1 /\ w[L + 1] = v /\ \A i \in 1..L : w[i] = b[i]
  BY <1>11, <1>13, <1>14, AppendProperties
<1>16. \A i \in 1..(L + 1) : c[i] = w[i]
  <2>1. \A i \in 1..(L + 1) : i \in 1..L \/ i = L + 1
    OBVIOUS
  <2> QED  BY <1>8, <1>9, <1>15, <2>1
<1>17. c = w
  BY <1>12, <1>15, <1>16, SeqEqual
<1> QED  BY <1>1, <1>2, <1>4, <1>5, <1>6, <1>11, <1>13, <1>14, <1>17

(* A savepoint puts what there was behind, another op nothing.             *)
LEMMA BehindAppend ==
  ASSUME NEW X, NEW d \in Seq(X), NEW y \in X, NEW t
  PROVE  Behind(Append(d, y), t) = IF y.kind = "save" THEN Later(Behind(d, t), Replayed(d, t))
                                   ELSE Behind(d, t)
<1>1. PICK e : e = Append(d, y)
  OBVIOUS
<1>2. PICK L \in Nat : L = Len(d)
  BY LenProperties
<1>3. /\ e \in Seq(X) /\ Len(e) = L + 1 /\ DOMAIN e = 1..(L + 1) /\ DOMAIN d = 1..L
      /\ e[L + 1] = y /\ \A i \in 1..L : e[i] = d[i]
  BY <1>1, <1>2, AppendProperties, LenProperties
<1>4. PICK b : b = Before(d, t)
  OBVIOUS
<1>5. PICK c : c = Before(e, t)
  OBVIOUS
<1>6. PICK v : v = Replayed(d, t)
  OBVIOUS
<1>7. PICK V : b \in Seq(V) /\ v \in V
  BY <1>4, <1>6, BeforeAppend
<1>8. c = Append(b, v) /\ Len(b) = L
  BY <1>1, <1>2, <1>4, <1>5, <1>6, BeforeAppend
<1>9. c \in Seq(V) /\ Len(c) = L + 1 /\ c[L + 1] = v /\ \A i \in 1..L : c[i] = b[i]
  BY <1>7, <1>8, AppendProperties
<1>10. PICK I : I = Noticed(d, b)
  OBVIOUS
<1>11. PICK J : J = Noticed(e, c)
  OBVIOUS
<1>12. Behind(d, t) = Kept(b, I) /\ Behind(e, t) = Kept(c, J)
  BY <1>4, <1>5, <1>10, <1>11 DEF Behind
<1>13. /\ \A i \in 1..L : i \in I <=> d[i].kind = "save" /\ \E j \in 1..L : d[j].kind = "save" /\ j <= i /\ b[j] # Nothing
       /\ I \subseteq 1..L
  BY <1>3, <1>10 DEF Noticed, Savepoints
<1>14. \A i \in 1..(L + 1) : i \in J <=>
         e[i].kind = "save" /\ \E j \in 1..(L + 1) : e[j].kind = "save" /\ j <= i /\ c[j] # Nothing
  BY <1>3, <1>11 DEF Noticed, Savepoints
<1>15. \A i \in 1..L : i \in J <=> i \in I
  <2> TAKE i \in 1..L
  <2>1. i \in 1..(L + 1) /\ \A j \in 1..(L + 1) : j <= i => j \in 1..L
    OBVIOUS
  <2>2. 1..L \subseteq 1..(L + 1)
    OBVIOUS
  <2> QED  BY <1>3, <1>9, <1>13, <1>14, <2>1, <2>2
<1>16. L + 1 \in J <=> y.kind = "save" /\ (I # {} \/ v # Nothing)
  <2>1. L + 1 \in 1..(L + 1) /\ 1..L \subseteq 1..(L + 1)
        /\ \A j \in 1..(L + 1) : j <= L + 1 /\ (j \in 1..L \/ j = L + 1)
    OBVIOUS
  <2>2. L + 1 \in J <=> y.kind = "save" /\ \E j \in 1..(L + 1) : e[j].kind = "save" /\ c[j] # Nothing
    BY <1>3, <1>14, <2>1
  <2>3. (\E j \in 1..(L + 1) : e[j].kind = "save" /\ c[j] # Nothing)
          <=> (\E j \in 1..L : d[j].kind = "save" /\ b[j] # Nothing) \/ (y.kind = "save" /\ v # Nothing)
    BY <1>3, <1>9, <2>1
  <2>4. (\E j \in 1..L : d[j].kind = "save" /\ b[j] # Nothing) <=> I # {}
    <3>1. ASSUME NEW j \in 1..L, d[j].kind = "save", b[j] # Nothing PROVE j \in I
      <4>1. j <= j
        OBVIOUS
      <4> QED  BY <1>13, <3>1, <4>1
    <3>2. ASSUME NEW i \in I PROVE \E j \in 1..L : d[j].kind = "save" /\ b[j] # Nothing
      BY <1>13
    <3> QED  BY <3>1, <3>2
  <2> QED  BY <2>2, <2>3, <2>4
<1>17. Kept(c, J) = IF L + 1 \in J THEN Append(Kept(b, J), v) ELSE Kept(b, J)
  BY <1>7, <1>8, KeptAppend
<1>18. Kept(b, J) = Kept(b, I)
  <2>1. I \cap 1..Len(b) = J \cap 1..Len(b)
    BY <1>8, <1>15
  <2> QED  BY <1>7, <2>1, KeptSame
<1>19. Kept(b, I) = <<>> <=> I = {}
  <2>1. I = {} => Kept(b, I) = <<>>
    <3>1. I = {} => I \cap 1..Len(b) = {}
      OBVIOUS
    <3> QED  BY <1>7, <3>1, KeptNone
  <2>2. ASSUME NEW i \in I PROVE Kept(b, I) # <<>>
    <3>1. i \in 1..Len(b)
      BY <1>8, <1>13
    <3>2. PICK k \in 1..Len(Kept(b, I)) : TRUE
      BY <1>7, <3>1, KeptMembers
    <3>3. Kept(b, I) \in Seq(V)
      BY <1>7, KeptMembers
    <3>4. PICK p : p = Kept(b, I)
      OBVIOUS
    <3>5. p = <<>> => Len(p) = 0
      OBVIOUS
    <3>6. k \in 1..Len(p)
      BY <3>2, <3>4
    <3>7. ~(Len(p) = 0)
      BY <3>6
    <3> QED  BY <3>4, <3>5, <3>7
  <2> QED  BY <2>1, <2>2
<1>20. PICK p : p = Kept(b, I)
  OBVIOUS
<1>21. Behind(e, t) = IF y.kind = "save" /\ (p # <<>> \/ v # Nothing) THEN Append(p, v) ELSE p
  BY <1>12, <1>16, <1>17, <1>18, <1>19, <1>20
<1>22. Behind(d, t) = p
  BY <1>12, <1>20
<1> QED  BY <1>1, <1>6, <1>21, <1>22 DEF Later

(* What undoing shows is what was last behind.                             *)
LEMMA UndoBehind ==
  ASSUME NEW X, NEW t, About(X, t), NEW u, u.kind = "undo", u.tl = t, NEW d \in Seq(X)
  PROVE  Behind(d, t) = Later(Behind(DropUndone(d, u), t), Replayed(DropUndone(d, u), t))
<1> DEFINE T == {l \in Seq(X) :
                   Behind(l, t) = Later(Behind(DropUndone(l, u), t), Replayed(DropUndone(l, u), t))}
           Stays(l) == {i \in DOMAIN l : \/ l[i].tl # u.tl
                                         \/ \E j \in (i + 1)..Len(l) : SavepointOf(l[j], u.tl)}
<1>0. \A l : DropUndone(l, u) = Kept(l, Stays(l))
  BY DEF DropUndone
<1>1. <<>> \in T
  <2>0. PICK e : e = <<>>
    OBVIOUS
  <2>1. e \in Seq(X) /\ Len(e) = 0
    BY <2>0
  <2>2. Stays(e) \cap 1..Len(e) = {}
    BY <2>1
  <2>3. PICK S : S = Stays(e)
    OBVIOUS
  <2>4. Kept(e, S) = <<>>
    BY <2>1, <2>2, <2>3, KeptNone
  <2>5. DropUndone(e, u) = e
    BY <1>0, <2>0, <2>3, <2>4
  <2>6. Replayed(e, t) = Nothing
    BY <2>0, ReplayedIs, OwnEmpty, ReplayShort
  <2>7. Behind(e, t) = e
    <3>1. PICK b : b = Before(e, t)
      OBVIOUS
    <3>2. DOMAIN e = {}
      BY <2>0
    <3>3. Noticed(e, b) = {}
      BY <3>2 DEF Noticed, Savepoints
    <3>4. b = e
      <4>1. b = [i \in DOMAIN e |-> Replayed(SubSeq(e, 1, i - 1), t)]
        BY <3>1 DEF Before
      <4>2. b = [i \in {} |-> Replayed(SubSeq(e, 1, i - 1), t)]
        BY <3>2, <4>1
      <4>3. DOMAIN b = {}
        BY <4>2
      <4> QED  BY <2>0, <4>2, <4>3
    <3>5. Kept(e, {}) = <<>>
      BY <2>1, KeptNone
    <3> QED  BY <2>0, <3>1, <3>3, <3>4, <3>5 DEF Behind
  <2>8. e \in T
    BY <2>0, <2>1, <2>5, <2>6, <2>7 DEF Later
  <2> QED  BY <2>0, <2>8
<1>2. ASSUME NEW l \in Seq(X), NEW y \in X, l \in T  PROVE Append(l, y) \in T
  <2>1. PICK e : e = Append(l, y)
    OBVIOUS
  <2>2. PICK L \in Nat : L = Len(l)
    BY LenProperties
  <2>3. /\ e \in Seq(X) /\ Len(e) = L + 1 /\ DOMAIN e = 1..(L + 1) /\ DOMAIN l = 1..L
        /\ e[L + 1] = y /\ \A i \in 1..L : e[i] = l[i]
    BY <2>1, <2>2, AppendProperties, LenProperties
  <2>4. \A i \in 1..(L + 1) : e[i].tl = u.tl
    BY <2>3, ElementOfSeq DEF About
  <2>5. PICK S : S = Stays(e)
    OBVIOUS
  <2>6. PICK R : R = Stays(l)
    OBVIOUS
  <2>7. S = {i \in 1..(L + 1) : \E j \in (i + 1)..(L + 1) : e[j].kind = "save"}
    <3>1. S = {i \in 1..(L + 1) : e[i].tl # u.tl \/ \E j \in (i + 1)..(L + 1) : SavepointOf(e[j], u.tl)}
      BY <2>3, <2>5
    <3>2. \A i \in 1..(L + 1) : \A j \in (i + 1)..(L + 1) : SavepointOf(e[j], u.tl) <=> e[j].kind = "save"
      <4>1. \A i \in 1..(L + 1) : \A j \in (i + 1)..(L + 1) : j \in 1..(L + 1)
        OBVIOUS
      <4> QED  BY <2>4, <4>1 DEF SavepointOf
    <3> QED  BY <2>4, <3>1, <3>2
  <2>8. DropUndone(e, u) = Kept(e, S) /\ DropUndone(l, u) = Kept(l, R)
    BY <1>0, <2>5, <2>6
  <2>9. L + 1 \notin S
    <3>1. ((L + 1) + 1)..(L + 1) = {}
      OBVIOUS
    <3> QED  BY <2>7, <3>1
  <2>10. Kept(e, S) = Kept(l, S)
    BY <2>1, <2>2, <2>9, KeptAppend
  <2>11. CASE y.kind = "save"
    <3>1. 1..Len(l) \subseteq S
      <4>1. \A i \in 1..L : i \in 1..(L + 1) /\ L + 1 \in (i + 1)..(L + 1)
        OBVIOUS
      <4> QED  BY <2>2, <2>3, <2>7, <2>11, <4>1
    <3>2. Kept(l, S) = l
      BY <3>1, KeptAll
    <3>3. DropUndone(e, u) = l
      BY <2>8, <2>10, <3>2
    <3>4. Behind(e, t) = Later(Behind(l, t), Replayed(l, t))
      BY <2>1, <2>11, BehindAppend
    <3> QED  BY <2>1, <2>3, <3>3, <3>4
  <2>12. CASE y.kind # "save"
    <3>1. R = {i \in 1..L : \E j \in (i + 1)..L : l[j].kind = "save"}
      <4>1. R = {i \in 1..L : l[i].tl # u.tl \/ \E j \in (i + 1)..L : SavepointOf(l[j], u.tl)}
        BY <2>2, <2>3, <2>6
      <4>2. \A i \in 1..L : i \in 1..(L + 1) /\ \A j \in (i + 1)..L : j \in 1..L /\ j \in 1..(L + 1)
        OBVIOUS
      <4>3. \A i \in 1..L : l[i].tl = u.tl
        BY <2>3, <2>4, <4>2
      <4>4. \A i \in 1..L : \A j \in (i + 1)..L : SavepointOf(l[j], u.tl) <=> l[j].kind = "save"
        BY <4>2, <4>3 DEF SavepointOf
      <4> QED  BY <4>1, <4>3, <4>4
    <3>2. \A i \in 1..L : i \in S <=> i \in R
      <4> TAKE i \in 1..L
      <4>1. i \in 1..(L + 1) /\ \A j \in (i + 1)..(L + 1) : j = L + 1 \/ (j \in (i + 1)..L /\ j \in 1..L)
        OBVIOUS
      <4>2. \A j \in (i + 1)..L : j \in (i + 1)..(L + 1) /\ j \in 1..L
        OBVIOUS
      <4> QED  BY <2>3, <2>7, <2>12, <3>1, <4>1, <4>2
    <3>3. S \cap 1..Len(l) = R \cap 1..Len(l)
      BY <2>2, <3>2
    <3>4. Kept(l, S) = Kept(l, R)
      BY <3>3, KeptSame
    <3>5. DropUndone(e, u) = DropUndone(l, u)
      BY <2>8, <2>10, <3>4
    <3>6. Behind(e, t) = Behind(l, t)
      BY <2>1, <2>12, BehindAppend
    <3>7. Behind(l, t) = Later(Behind(DropUndone(l, u), t), Replayed(DropUndone(l, u), t))
      BY <1>2
    <3> QED  BY <2>1, <2>3, <3>5, <3>6, <3>7
  <2> QED  BY <2>11, <2>12
<1> HIDE DEF T
<1>3. d \in T
  BY <1>1, <1>2, InductBack
<1> QED  BY <1>3 DEF T

-----------------------------------------------------------------------------
(* What redoing will show: what is there with one redo more, and so on.    *)
Ahead(a, r, t) ==
  [n \in {n \in 1..Len(a) : Then(a, r, n).ok} |-> Replayed(Then(a, r, n).ops, t)]

(* So many redos, and no more, can come after a: fewer than k.             *)
Redoable(a, r, k) == \A n \in Nat : Then(a, r, n).ok <=> n < k

(* V has all that a and redos can show.                                    *)
Replays(a, r, t, V) == \A n \in Nat : Replayed(Then(a, r, n).ops, t) \in V

IsAhead(f, a, r, t, k, V) ==
  /\ f \in Seq(V) /\ Len(f) = k - 1
  /\ \A n \in 1..(k - 1) : f[n] = Replayed(Then(a, r, n).ops, t)

(* It is a list.                                                           *)
LEMMA AheadIs ==
  ASSUME NEW X, NEW t, NEW r, NEW a \in Seq(X), NEW k \in 1..(Len(a) + 1), Redoable(a, r, k),
         NEW V, Replays(a, r, t, V)
  PROVE  IsAhead(Ahead(a, r, t), a, r, t, k, V)
<1>1. PICK L \in Nat : L = Len(a)
  BY LenProperties
<1>2. PICK f : f = Ahead(a, r, t)
  OBVIOUS
<1>3. k \in 1..(L + 1) /\ k - 1 \in Nat
  BY <1>1
<1>4. {n \in 1..L : Then(a, r, n).ok} = 1..(k - 1)
  <2>1. \A n \in 1..L : Then(a, r, n).ok <=> n < k
    BY DEF Redoable
  <2>2. \A n \in 1..L : n < k <=> n \in 1..(k - 1)
    BY <1>3
  <2>3. 1..(k - 1) \subseteq 1..L
    BY <1>3
  <2> QED  BY <2>1, <2>2, <2>3
<1>5. f = [n \in 1..(k - 1) |-> Replayed(Then(a, r, n).ops, t)]
  BY <1>1, <1>2, <1>4 DEF Ahead
<1>6. \A n \in 1..(k - 1) : f[n] = Replayed(Then(a, r, n).ops, t) /\ f[n] \in V
  BY <1>5 DEF Replays
<1>7. f = [n \in 1..(k - 1) |-> f[n]]
  BY <1>5
<1>8. f \in [1..(k - 1) -> V]
  BY <1>6, <1>7
<1>9. f \in Seq(V) /\ Len(f) = k - 1
  BY <1>3, <1>8
<1> QED  BY <1>2, <1>6, <1>9 DEF IsAhead

(* An undo puts in front what there was.                                   *)
LEMMA AheadUndo ==
  ASSUME NEW X, NEW t, About(X, t), NEW r \in Redo(X), NEW a \in Seq(X), NEW x \in X,
         x.kind = "undo", Preprocess(a).ok
  PROVE  Ahead(Append(a, x), r, t) = <<Replayed(Preprocess(a).ops, t)>> \o Ahead(a, r, t)
<1>1. PICK e : e = Append(a, x)
  OBVIOUS
<1>2. PICK L \in Nat : L = Len(a)
  BY LenProperties
<1>3. e \in Seq(X) /\ Len(e) = L + 1
  BY <1>1, <1>2, AppendProperties
<1>4. PICK k \in 0..(L + 1) : \A n \in Nat : Then(a, r, n).ok <=> n < k
  BY <1>2, HowMany
<1>5. PICK h \in 0..(Len(e) + 1) : \A n \in Nat : Then(e, r, n).ok <=> n < h
  BY <1>3, HowMany
<1>6. \A n \in Nat : Then(e, r, n + 1) = Then(a, r, n) /\ n + 1 \in Nat
  BY <1>1, ThenUndo
<1>7. k \in 1..(L + 1)
  <2>1. Then(a, r, 0).ok
    BY ThenNone
  <2>2. 0 \in Nat
    OBVIOUS
  <2> QED  BY <1>4, <2>1, <2>2
<1>8. h = k + 1
  <2>1. \A n \in Nat : n + 1 < h <=> n < k
    BY <1>4, <1>5, <1>6
  <2>2. h \in Nat /\ k \in Nat /\ k # 0 /\ k - 1 \in Nat
    BY <1>3, <1>7
  <2>3. (k - 1) + 1 < h <=> k - 1 < k
    BY <2>1, <2>2
  <2>4. k + 1 < h <=> k < k
    BY <2>1, <2>2
  <2> QED  BY <2>2, <2>3, <2>4
<1>9. h \in 1..(Len(e) + 1)
  BY <1>3, <1>7, <1>8
<1>10. PICK V : V = {Replayed(Then(a, r, n).ops, t) : n \in Nat} \cup {Replayed(Then(e, r, n).ops, t) : n \in Nat}
  OBVIOUS
<1>11. \A n \in Nat : Replayed(Then(a, r, n).ops, t) \in V /\ Replayed(Then(e, r, n).ops, t) \in V
  BY <1>10
<1>12. PICK f : f = Ahead(a, r, t)
  OBVIOUS
<1>13. PICK g : g = Ahead(e, r, t)
  OBVIOUS
<1>14. f \in Seq(V) /\ Len(f) = k - 1 /\ \A n \in 1..(k - 1) : f[n] = Replayed(Then(a, r, n).ops, t)
  <2>1. k \in 1..(Len(a) + 1) /\ Redoable(a, r, k)
    BY <1>2, <1>4, <1>7 DEF Redoable
  <2>2. Replays(a, r, t, V)
    BY <1>11 DEF Replays
  <2>3. IsAhead(f, a, r, t, k, V)
    BY <1>12, <2>1, <2>2, AheadIs
  <2> QED  BY <2>3 DEF IsAhead
<1>15. g \in Seq(V) /\ Len(g) = h - 1 /\ \A n \in 1..(h - 1) : g[n] = Replayed(Then(e, r, n).ops, t)
  <2>1. Replays(e, r, t, V)
    BY <1>11 DEF Replays
  <2>2. e \in Seq(X) /\ Redoable(e, r, h)
    BY <1>3, <1>5 DEF Redoable
  <2>3. IsAhead(g, e, r, t, h, V)
    BY <1>9, <1>13, <2>1, <2>2, AheadIs
  <2> QED  BY <2>3 DEF IsAhead
<1>16. PICK v \in V : v = Replayed(Then(a, r, 0).ops, t)
  BY <1>11
<1>17. PICK w : w = <<v>> \o f
  OBVIOUS
<1>18. w \in Seq(V) /\ Len(w) = Len(f) + 1 /\ w[1] = v /\ \A i \in 1..Len(f) : w[i + 1] = f[i]
  BY <1>14, <1>16, <1>17, ConsMembers
<1>19. Len(w) = k /\ \A i \in 1..(k - 1) : w[i + 1] = f[i]
  BY <1>7, <1>14, <1>18
<1>20. Len(g) = k /\ \A n \in 1..k : g[n] = Replayed(Then(e, r, n).ops, t)
  BY <1>7, <1>8, <1>15
<1>21. ASSUME NEW n \in 1..k PROVE g[n] = w[n]
  <2>1. n - 1 \in Nat /\ (n - 1) + 1 = n /\ (n = 1 \/ n - 1 \in 1..(k - 1))
    BY <1>7
  <2>2. g[n] = Replayed(Then(a, r, n - 1).ops, t)
    <3>1. Then(e, r, (n - 1) + 1) = Then(a, r, n - 1)
      BY <1>6, <2>1
    <3> QED  BY <1>20, <2>1, <3>1
  <2>3. CASE n = 1
    <3>1. n - 1 = 0
      BY <2>3
    <3>2. g[n] = v
      BY <1>16, <2>2, <3>1
    <3> QED  BY <1>18, <2>3, <3>2
  <2>4. CASE n - 1 \in 1..(k - 1)
    <3>1. w[(n - 1) + 1] = f[n - 1]
      BY <1>19, <2>4
    <3>2. f[n - 1] = Replayed(Then(a, r, n - 1).ops, t)
      BY <1>14, <2>4
    <3> QED  BY <2>1, <2>2, <3>1, <3>2
  <2> QED  BY <2>1, <2>3, <2>4
<1>22. g = w
  BY <1>15, <1>18, <1>19, <1>20, <1>21, SeqEqual
<1>23. Then(a, r, 0) = Preprocess(a)
  BY ThenNone
<1>24. v = Replayed(Preprocess(a).ops, t)
  BY <1>16, <1>23
<1> QED  BY <1>1, <1>12, <1>13, <1>17, <1>22, <1>24

(* A redo shows the first.                                                 *)
LEMMA AheadRedo ==
  ASSUME NEW X, NEW t, About(X, t), NEW r \in Redo(X), NEW a \in Seq(X), NEW x \in X,
         x.kind = "redo", Preprocess(Append(a, x)).ok
  PROVE  /\ Ahead(a, r, t) # <<>>
         /\ Replayed(Preprocess(Append(a, x)).ops, t) = Head(Ahead(a, r, t))
         /\ Ahead(Append(a, x), r, t) = Tail(Ahead(a, r, t))
         /\ Then(a, r, 1).ok /\ Preprocess(Append(a, x)).ops = Then(a, r, 1).ops
<1>1. PICK e : e = Append(a, x)
  OBVIOUS
<1>2. PICK L \in Nat : L = Len(a)
  BY LenProperties
<1>3. e \in Seq(X) /\ Len(e) = L + 1
  BY <1>1, <1>2, AppendProperties
<1>4. PICK k \in 0..(L + 1) : \A n \in Nat : Then(a, r, n).ok <=> n < k
  BY <1>2, HowMany
<1>5. PICK h \in 0..(Len(e) + 1) : \A n \in Nat : Then(e, r, n).ok <=> n < h
  BY <1>3, HowMany
<1>6. \A n \in Nat : Agree(Then(e, r, n), Then(a, r, n + 1)) /\ n + 1 \in Nat
  BY <1>1, ThenRedo
<1>7. 0 < h
  <2>1. Then(e, r, 0) = Preprocess(e)
    BY <1>3, ThenNone
  <2>2. Then(e, r, 0).ok /\ 0 \in Nat
    BY <1>1, <2>1
  <2> QED  BY <1>5, <2>2
<1>8. k = h + 1
  <2>1. \A n \in Nat : n < h <=> n + 1 < k
    BY <1>4, <1>5, <1>6 DEF Agree
  <2>2. h \in Nat /\ k \in Nat /\ h # 0 /\ h - 1 \in Nat
    BY <1>3, <1>7
  <2>3. (h - 1) + 1 < k /\ ~(h + 1 < k)
    BY <2>1, <2>2
  <2> QED  BY <2>2, <2>3
<1>9. h \in 1..(Len(e) + 1) /\ k \in 1..(L + 1) /\ h \in Nat
  BY <1>3, <1>7, <1>8
<1>10. PICK V : V = {Replayed(Then(a, r, n).ops, t) : n \in Nat} \cup {Replayed(Then(e, r, n).ops, t) : n \in Nat}
  OBVIOUS
<1>11. \A n \in Nat : Replayed(Then(a, r, n).ops, t) \in V /\ Replayed(Then(e, r, n).ops, t) \in V
  BY <1>10
<1>12. PICK f : f = Ahead(a, r, t)
  OBVIOUS
<1>13. PICK g : g = Ahead(e, r, t)
  OBVIOUS
<1>14. f \in Seq(V) /\ Len(f) = k - 1 /\ \A n \in 1..(k - 1) : f[n] = Replayed(Then(a, r, n).ops, t)
  <2>1. k \in 1..(Len(a) + 1)
    BY <1>2, <1>9
  <2>2. Replays(a, r, t, V)
    BY <1>11 DEF Replays
  <2>3. Redoable(a, r, k)
    BY <1>4 DEF Redoable
  <2>4. IsAhead(f, a, r, t, k, V)
    BY <1>12, <2>1, <2>2, <2>3, AheadIs
  <2> QED  BY <2>4 DEF IsAhead
<1>15. g \in Seq(V) /\ Len(g) = h - 1 /\ \A n \in 1..(h - 1) : g[n] = Replayed(Then(e, r, n).ops, t)
  <2>1. Replays(e, r, t, V)
    BY <1>11 DEF Replays
  <2>2. e \in Seq(X) /\ Redoable(e, r, h)
    BY <1>3, <1>5 DEF Redoable
  <2>3. IsAhead(g, e, r, t, h, V)
    BY <1>9, <1>13, <2>1, <2>2, AheadIs
  <2> QED  BY <2>3 DEF IsAhead
<1>16. Len(f) = h /\ f # <<>> /\ 1 \in 1..(k - 1)
  <2>1. Len(f) = h
    BY <1>8, <1>9, <1>14
  <2>2. f = <<>> => Len(f) = 0
    OBVIOUS
  <2> QED  BY <1>7, <1>8, <1>9, <2>1, <2>2
<1>17. Head(f) = f[1] /\ Tail(f) \in Seq(V) /\ Len(Tail(f)) = h - 1
       /\ \A i \in 1..(h - 1) : Tail(f)[i] = f[i + 1]
  <2>1. /\ Tail(f) \in Seq(V) /\ Len(Tail(f)) = Len(f) - 1
        /\ \A i \in 1..Len(Tail(f)) : Tail(f)[i] = f[i + 1]
    BY <1>14, <1>16, HeadTailProperties
  <2>2. Head(f) = f[1]
    BY <1>14, <1>16, HeadFirst
  <2> QED  BY <1>16, <2>1, <2>2
<1>18. Then(a, r, 1).ok /\ Then(e, r, 0) = Then(a, r, 1)
  <2>1. Agree(Then(e, r, 0), Then(a, r, 0 + 1))
    BY <1>6
  <2>2. 0 + 1 = 1 /\ 0 \in Nat
    OBVIOUS
  <2>3. Then(e, r, 0).ok
    BY <1>5, <1>7, <2>2
  <2> QED  BY <2>1, <2>2, <2>3 DEF Agree
<1>19. Then(e, r, 0) = Preprocess(e)
  BY <1>3, ThenNone
<1>20. f[1] = Replayed(Then(a, r, 1).ops, t)
  BY <1>14, <1>16
<1>21. ASSUME NEW n \in 1..(h - 1) PROVE g[n] = Tail(f)[n]
  <2>1. n \in Nat /\ n + 1 \in 1..(k - 1) /\ n < h
    BY <1>8, <1>9
  <2>2. Then(e, r, n) = Then(a, r, n + 1)
    BY <1>5, <1>6, <2>1 DEF Agree
  <2>3. f[n + 1] = Replayed(Then(a, r, n + 1).ops, t)
    BY <1>14, <2>1
  <2>4. g[n] = Replayed(Then(e, r, n).ops, t)
    BY <1>15
  <2> QED  BY <1>17, <2>2, <2>3, <2>4
<1>22. g = Tail(f)
  <2>1. PICK z : z = Tail(f)
    OBVIOUS
  <2>2. z \in Seq(V) /\ Len(z) = h - 1 /\ \A n \in 1..(h - 1) : g[n] = z[n]
    BY <1>17, <1>21, <2>1
  <2>3. g = z
    BY <1>15, <2>2, SeqEqual
  <2> QED  BY <2>1, <2>3
<1> QED  BY <1>1, <1>12, <1>13, <1>16, <1>17, <1>18, <1>19, <1>20, <1>22

(* Any other op forgets it.                                                *)
LEMMA AheadEdit ==
  ASSUME NEW X, NEW t, About(X, t), NEW r \in Redo(X), NEW a \in Seq(X), NEW x \in X,
         x.kind \notin {"undo", "redo"}
  PROVE  Ahead(Append(a, x), r, t) = <<>>
<1>1. PICK e : e = Append(a, x)
  OBVIOUS
<1>2. e \in Seq(X)
  BY <1>1, AppendProperties
<1>3. PICK L \in Nat : L = Len(e)
  BY <1>2, LenProperties
<1>4. \A n \in Nat : ~Then(e, r, n + 1).ok
  BY <1>1, ThenEdit
<1>5. {n \in 1..L : Then(e, r, n).ok} = {}
  <2>1. \A n \in 1..L : n - 1 \in Nat /\ (n - 1) + 1 = n
    OBVIOUS
  <2>2. \A n \in 1..L : ~Then(e, r, n).ok
    <3> TAKE n \in 1..L
    <3>1. ~Then(e, r, (n - 1) + 1).ok
      BY <1>4, <2>1
    <3> QED  BY <2>1, <3>1
  <2> QED  BY <2>2
<1>6. PICK f : f = Ahead(e, r, t)
  OBVIOUS
<1>7. f = [n \in {} |-> Replayed(Then(e, r, n).ops, t)]
  BY <1>3, <1>5, <1>6 DEF Ahead
<1>8. f = <<>>
  <2>1. DOMAIN f = {}
    BY <1>7
  <2> QED  BY <1>7, <2>1
<1> QED  BY <1>1, <1>6, <1>8

-----------------------------------------------------------------------------
(* What a list shows, and what undoing will show after it.                 *)
Shows(a, t) == Replayed(Preprocess(a).ops, t)
Was(a, t) == Behind(Preprocess(a).ops, t)

(* An undo shows what was behind.                                          *)
LEMMA UndoStep ==
  ASSUME NEW X, NEW t, About(X, t), NEW a \in Seq(X), NEW x \in X, x.kind = "undo"
  PROVE  Was(a, t) = Later(Was(Append(a, x), t), Shows(Append(a, x), t))
<1>1. PICK d : d = Preprocess(a).ops
  OBVIOUS
<1>2. d \in Seq(X)
  BY <1>1, PreprocessTyped
<1>3. Preprocess(Append(a, x)).ops = DropUndone(d, x)
  BY <1>1, PreprocessLast
<1>4. x.tl = t
  BY DEF About
<1>5. Behind(d, t) = Later(Behind(DropUndone(d, x), t), Replayed(DropUndone(d, x), t))
  BY <1>2, <1>4, UndoBehind
<1> QED  BY <1>1, <1>3, <1>5 DEF Was, Shows

(* A redo puts what there was behind.                                      *)
LEMMA RedoStep ==
  ASSUME NEW X, NEW t, About(X, t), NEW r \in Redo(X), NEW a \in Seq(X), NEW x \in X,
         x.kind = "redo", Preprocess(Append(a, x)).ok
  PROVE  Was(Append(a, x), t) = Later(Was(a, t), Shows(a, t))
<1>1. PICK u : u = Plain("undo", t, <<>>)
  OBVIOUS
<1>2. u.kind = "undo" /\ u.tl = t
  BY <1>1 DEF Plain, Op
<1>3. PICK d : d = Then(a, r, 1).ops
  OBVIOUS
<1>4. Then(a, r, 1).ok /\ Preprocess(Append(a, x)).ops = d
  BY <1>3, AheadRedo
<1>5. 0 \in Nat /\ 0 + 1 = 1
  OBVIOUS
<1>6. Then(a, r, 0).ops = DropUndone(d, u)
  <2>1. Then(a, r, 0 + 1).ok
    BY <1>4, <1>5
  <2>2. Then(a, r, 0).ops = DropUndone(Then(a, r, 0 + 1).ops, u)
    BY <1>2, <1>5, <2>1, Undone
  <2> QED  BY <1>3, <1>5, <2>2
<1>7. Then(a, r, 0) = Preprocess(a)
  BY ThenNone
<1>8. d \in Seq(X)
  <2>1. Append(a, x) \in Seq(X)
    BY AppendProperties
  <2> QED  BY <1>4, <2>1, PreprocessTyped
<1>9. Behind(d, t) = Later(Behind(DropUndone(d, u), t), Replayed(DropUndone(d, u), t))
  BY <1>2, <1>8, UndoBehind
<1>10. Preprocess(a).ops = DropUndone(d, u)
  BY <1>6, <1>7
<1> QED  BY <1>4, <1>9, <1>10 DEF Was, Shows

(* A savepoint does, any other op leaves it to the one before.             *)
LEMMA EditStep ==
  ASSUME NEW X, NEW t, NEW a \in Seq(X), NEW x \in X, x.kind \notin {"undo", "redo"}
  PROVE  Was(Append(a, x), t) = IF x.kind = "save" THEN Later(Was(a, t), Shows(a, t)) ELSE Was(a, t)
<1>1. PICK d : d = Preprocess(a).ops
  OBVIOUS
<1>2. d \in Seq(X)
  BY <1>1, PreprocessTyped
<1>3. Preprocess(Append(a, x)).ops = DropUndone(d, x)
  BY <1>1, PreprocessLast
<1>4. DropUndone(d, x) = Append(d, x)
  BY DEF DropUndone
<1>5. Behind(Append(d, x), t) = IF x.kind = "save" THEN Later(Behind(d, t), Replayed(d, t)) ELSE Behind(d, t)
  BY <1>2, BehindAppend
<1> QED  BY <1>1, <1>3, <1>4, <1>5 DEF Was, Shows

-----------------------------------------------------------------------------
(* What can be shown.                                                      *)
Shapes(X) == [by : {op.by : op \in X} \cup {<<>>}, name : {op.name : op \in X} \cup {NoName},
              gone : BOOLEAN]

LEMMA AppliedTyped ==
  ASSUME NEW X, NEW v \in Shapes(X), NEW op \in X
  PROVE  Applied(v, op) \in Shapes(X)
<1>1. Nothing \in Shapes(X)
  BY DEF Nothing, Shapes
<1>2. op.by \in {o.by : o \in X} \cup {<<>>} /\ op.name \in {o.name : o \in X} \cup {NoName}
  OBVIOUS
<1>3. [by |-> op.by, name |-> op.name, gone |-> FALSE] \in Shapes(X)
  BY <1>2 DEF Shapes
<1>4. [v EXCEPT !.by = op.by] \in Shapes(X)
  BY <1>2 DEF Shapes
<1>5. [v EXCEPT !.by = op.by, !.name = op.name] \in Shapes(X)
  BY <1>2 DEF Shapes
<1>6. [v EXCEPT !.gone = TRUE] \in Shapes(X)
  BY DEF Shapes
<1> HIDE DEF Shapes
<1> QED  BY <1>1, <1>3, <1>4, <1>5, <1>6 DEF Applied

(* A savepoint changes nothing that is shown.                              *)
LEMMA ReplaySave ==
  ASSUME NEW X, NEW s \in Seq(X), NEW x \in X, x.kind = "save"
  PROVE  Replay(Append(s, x)) = Replay(s)
<1>1. PICK e : e = Append(s, x)
  OBVIOUS
<1>2. PICK L \in Nat : L = Len(s)
  BY LenProperties
<1>3. e \in Seq(X) /\ Len(e) = L + 1 /\ e[L + 1] = x /\ \A i \in 1..L : e[i] = s[i]
  BY <1>1, <1>2, AppendProperties
<1>4. PICK V : V = Shapes(X)
  OBVIOUS
<1>5. Nothing \in V /\ \A v \in V : \A op \in X : Applied(v, op) \in V
  <2>1. Nothing \in V
    BY <1>4 DEF Nothing, Shapes
  <2> QED  BY <1>4, <2>1, AppliedTyped
<1>6. PICK g : BuildsReplay(g, s)
  BY <1>5, ReplayIsBuilt
<1>7. PICK f : BuildsReplay(f, e)
  BY <1>3, <1>5, ReplayIsBuilt
<1>8. g[0] = Nothing /\ (\A k \in 1..L : g[k] = Applied(g[k - 1], s[k])) /\ Replay(s) = g[L]
  BY <1>2, <1>6 DEF BuildsReplay
<1>9. f[0] = Nothing /\ (\A k \in 1..(L + 1) : f[k] = Applied(f[k - 1], e[k])) /\ Replay(e) = f[L + 1]
  BY <1>3, <1>7 DEF BuildsReplay
<1> DEFINE S == {i \in 0..L : f[i] = g[i]}
<1>10. 0 \in S
  BY <1>8, <1>9
<1>11. ASSUME NEW i \in 1..L, i - 1 \in S PROVE i \in S
  <2>1. i \in 1..(L + 1) /\ i \in 0..L /\ f[i - 1] = g[i - 1]
    BY <1>11
  <2>2. f[i] = Applied(g[i - 1], s[i])
    BY <1>3, <1>9, <2>1
  <2> QED  BY <1>8, <2>1, <2>2
<1> HIDE DEF S
<1>12. 0..L \subseteq S
  BY <1>10, <1>11, InductTo
<1>13. f[L] = g[L]
  BY <1>12 DEF S
<1>14. L + 1 \in 1..(L + 1) /\ (L + 1) - 1 = L
  OBVIOUS
<1>15. f[L + 1] = Applied(f[L], x)
  BY <1>3, <1>9, <1>14
<1>16. \A v : Applied(v, x) = v
  BY DEF Applied
<1> QED  BY <1>1, <1>8, <1>9, <1>13, <1>15, <1>16

LEMMA ShowsSave ==
  ASSUME NEW X, NEW t, NEW a \in Seq(X), NEW x \in X, x.kind = "save"
  PROVE  Shows(Append(a, x), t) = Shows(a, t)
<1>1. PICK d : d = Preprocess(a).ops
  OBVIOUS
<1>2. d \in Seq(X)
  BY <1>1, PreprocessTyped
<1>3. Preprocess(Append(a, x)).ops = Append(d, x)
  <2>1. Preprocess(Append(a, x)).ops = DropUndone(d, x)
    BY <1>1, PreprocessLast
  <2> QED  BY <2>1 DEF DropUndone
<1>4. PICK w : w = Own(d, t)
  OBVIOUS
<1>5. w \in Seq(X)
  BY <1>2, <1>4, OwnTyped
<1>6. Own(Append(d, x), t) = IF x.tl = t THEN Append(w, x) ELSE w
  BY <1>2, <1>4, OwnAppend
<1>7. Replay(Append(w, x)) = Replay(w)
  BY <1>5, ReplaySave
<1>8. Replayed(Append(d, x), t) = Replayed(d, t)
  BY <1>4, <1>6, <1>7, ReplayedIs
<1> QED  BY <1>1, <1>3, <1>8 DEF Shows

-----------------------------------------------------------------------------
(* What was there, kept as often as there are savepoints.                  *)
Again(p, shown, n) == IF p = <<>> /\ shown = Nothing THEN <<>> ELSE p \o Redos(shown, n)

LEMMA AgainMore ==
  ASSUME NEW V, NEW p \in Seq(V), NEW v \in V, NEW n \in Nat
  PROVE  /\ Again(p, v, n) \in Seq(V)
         /\ Again(p, v, 0) = p
         /\ Again(p, v, n + 1) = Later(Again(p, v, n), v)
         /\ Again(p, v, n) = Again(p, v, Len(Again(p, v, n)) - Len(p))
<1>1. PICK u : u = Redos(v, n)
  OBVIOUS
<1>2. PICK w : w = Redos(v, n + 1)
  OBVIOUS
<1>3. \A m \in Nat : Redos(v, m) \in Seq(V) /\ Len(Redos(v, m)) = m /\ \A i \in 1..m : Redos(v, m)[i] = v
  BY DEF Redos
<1>4. u \in Seq(V) /\ Len(u) = n /\ \A i \in 1..n : u[i] = v
  BY <1>1, <1>3
<1>5. w \in Seq(V) /\ Len(w) = n + 1 /\ \A i \in 1..(n + 1) : w[i] = v
  <2>1. n + 1 \in Nat
    OBVIOUS
  <2> QED  BY <1>2, <1>3, <2>1
<1>6. w = Append(u, v)
  <2>1. PICK z : z = Append(u, v)
    OBVIOUS
  <2>2. z \in Seq(V) /\ Len(z) = n + 1 /\ z[n + 1] = v /\ \A i \in 1..n : z[i] = u[i]
    BY <1>4, <2>1, AppendProperties
  <2>3. \A i \in 1..(n + 1) : i \in 1..n \/ i = n + 1
    OBVIOUS
  <2>4. \A i \in 1..(n + 1) : w[i] = z[i]
    BY <1>4, <1>5, <2>2, <2>3
  <2>5. w = z
    BY <1>5, <2>2, <2>4, SeqEqual
  <2> QED  BY <2>1, <2>5
<1>7. p \o u \in Seq(V) /\ Len(p \o u) = Len(p) + n
  BY <1>4, ConcatProperties
<1>8. p \o w = Append(p \o u, v)
  BY <1>4, <1>6
<1>9. Redos(v, 0) = <<>> /\ p \o <<>> = p
  BY RedosTyped
<1>10. Len(p) \in Nat
  BY LenProperties
<1>11. CASE p = <<>> /\ v = Nothing
  <2>1. \A m : Again(p, v, m) = p
    BY <1>11 DEF Again
  <2>2. Later(p, v) = p
    BY <1>11 DEF Later
  <2> QED  BY <2>1, <2>2
<1>12. CASE ~(p = <<>> /\ v = Nothing)
  <2>1. /\ Again(p, v, n) = p \o u /\ Again(p, v, n + 1) = p \o w
        /\ Again(p, v, 0) = p
    BY <1>1, <1>2, <1>9, <1>12 DEF Again
  <2>2. ~(p \o u = <<>> /\ v = Nothing)
    <3> SUFFICES ASSUME p \o u = <<>>, v = Nothing PROVE FALSE
      OBVIOUS
    <3>1. Len(p) = 0
      BY <1>4, <1>7, <1>10
    <3>2. p = <<>>
      BY <3>1, EmptySeq
    <3> QED  BY <1>12, <3>2
  <2>3. PICK z : z = p \o u
    OBVIOUS
  <2>4. Later(z, v) = Append(z, v)
    BY <2>2, <2>3 DEF Later
  <2>5. Len(z) - Len(p) = n
    BY <1>7, <1>10, <2>3
  <2> QED  BY <1>7, <1>8, <2>1, <2>3, <2>4, <2>5
<1> QED  BY <1>11, <1>12

(* What undoing will show is a list of what there was.                     *)
LEMMA WasTyped ==
  ASSUME NEW X, NEW y \in X, NEW a \in Seq(X), NEW t
  PROVE  \E V : Was(a, t) \in Seq(V) /\ Shows(a, t) \in V
<1>1. PICK d : d = Preprocess(a).ops
  OBVIOUS
<1>2. d \in Seq(X)
  BY <1>1, PreprocessTyped
<1>3. PICK V : Before(d, t) \in Seq(V) /\ Replayed(d, t) \in V
  BY <1>2, BeforeAppend
<1>4. Behind(d, t) \in Seq(V)
  BY <1>3, KeptMembers DEF Behind
<1> QED  BY <1>1, <1>3, <1>4 DEF Was, Shows

(* The ops of a list that are savepoints, and those that change something  *)
(* but are no undo and no redo.                                            *)
Saves(X) == {x \in X : x.kind = "save"}
Changing(X) == {x \in X : x.kind \notin {"save", "undo", "redo"}}

(* What there is behind a list after savepoints at its end.                *)
LEMMA SavesBehind ==
  ASSUME NEW X, NEW t, NEW a \in Seq(X), NEW s \in Seq(Saves(X))
  PROVE  Shows(a \o s, t) = Shows(a, t) /\ Was(a \o s, t) = Again(Was(a, t), Shows(a, t), Len(s))
<1> DEFINE T == {l \in Seq(Saves(X)) :
                   /\ Shows(a \o l, t) = Shows(a, t)
                   /\ Was(a \o l, t) = Again(Was(a, t), Shows(a, t), Len(l))}
<1>1. PICK Y : Y = Saves(X)
  OBVIOUS
<1>2. \A y \in Y : y \in X /\ y.kind = "save"
  BY <1>1 DEF Saves
<1>3. PICK p : p = Was(a, t)
  OBVIOUS
<1>4. PICK v : v = Shows(a, t)
  OBVIOUS
<1>5. <<>> \in T
  <2>1. PICK l : l = <<>>
    OBVIOUS
  <2>2. l \in Seq(Saves(X)) /\ Len(l) = 0 /\ a \o l = a
    BY <2>1
  <2>3. Again(p, v, 0) = p
    <3>1. CASE p = <<>> /\ v = Nothing
      BY <3>1 DEF Again
    <3>2. CASE ~(p = <<>> /\ v = Nothing)
      <4>1. PICK d : d = Preprocess(a).ops
        OBVIOUS
      <4>2. d \in Seq(X)
        BY <4>1, PreprocessTyped
      <4>3. PICK b : b = Before(d, t)
        OBVIOUS
      <4>4. PICK V : V = {b[i] : i \in 1..Len(d)}
        OBVIOUS
      <4>5. DOMAIN d = 1..Len(d) /\ Len(d) \in Nat
        BY <4>2, LenProperties
      <4>6. b \in Seq(V)
        <5>1. b = [i \in 1..Len(d) |-> b[i]]
          BY <4>3, <4>5 DEF Before
        <5>2. b \in [1..Len(d) -> V]
          BY <4>4, <5>1
        <5> QED  BY <4>5, <5>2
      <4>7. p \in Seq(V)
        BY <1>3, <4>1, <4>3, <4>6, KeptMembers DEF Was, Behind
      <4>8. PICK W : W = V \cup {v}
        OBVIOUS
      <4>9. p \in Seq(W) /\ v \in W
        BY <4>7, <4>8
      <4> QED  BY <4>9, AgainMore
    <3> QED  BY <3>1, <3>2
  <2> QED  BY <1>3, <1>4, <2>1, <2>2, <2>3
<1>6. ASSUME NEW l \in Seq(Y), NEW x \in Y, l \in T PROVE Append(l, x) \in T
  <2>1. l \in Seq(X) /\ x \in X /\ x.kind = "save"
    <3>1. \A i \in 1..Len(l) : l[i] \in X
      BY <1>2, ElementOfSeq
    <3>2. l = [i \in 1..Len(l) |-> l[i]] /\ Len(l) \in Nat
      BY LenProperties
    <3>3. l \in [1..Len(l) -> X]
      BY <3>1, <3>2
    <3> QED  BY <1>2, <3>2, <3>3
  <2>2. PICK b : b = a \o l
    OBVIOUS
  <2>3. b \in Seq(X) /\ a \o Append(l, x) = Append(b, x)
    BY <2>1, <2>2
  <2>4. PICK h : h = Append(l, x)
    OBVIOUS
  <2>5. PICK n \in Nat : n = Len(l)
    BY LenProperties
  <2>6. h \in Seq(Saves(X)) /\ Len(h) = n + 1
    BY <1>1, <2>4, <2>5
  <2>7. Shows(b, t) = v /\ Was(b, t) = Again(p, v, n)
    BY <1>3, <1>4, <1>6, <2>2, <2>5
  <2>8. Shows(Append(b, x), t) = v
    BY <2>1, <2>3, <2>7, ShowsSave
  <2>9. Was(Append(b, x), t) = Later(Again(p, v, n), v)
    BY <2>1, <2>3, <2>7, EditStep
  <2>10. PICK V : p \in Seq(V) /\ v \in V
    BY <1>3, <1>4, <2>1, WasTyped
  <2>11. Again(p, v, n + 1) = Later(Again(p, v, n), v)
    BY <2>10, AgainMore
  <2> QED  BY <1>3, <1>4, <2>3, <2>4, <2>6, <2>8, <2>9, <2>11
<1> HIDE DEF T
<1>7. Seq(Y) \subseteq T
  BY <1>5, <1>6, InductBack
<1>8. s \in T
  BY <1>1, <1>7
<1> QED  BY <1>8 DEF T

(* Other edits leave it as it is.                                          *)
LEMMA EditsBehind ==
  ASSUME NEW X, NEW t, NEW a \in Seq(X), NEW d \in Seq(Changing(X))
  PROVE  Was(a \o d, t) = Was(a, t)
<1> DEFINE T == {l \in Seq(X) : Was(a \o l, t) = Was(a, t)}
<1>1. PICK Y : Y = Changing(X)
  OBVIOUS
<1>2. \A y \in Y : y \in X /\ y.kind \notin {"save", "undo", "redo"}
  BY <1>1 DEF Changing
<1>3. <<>> \in T
  <2>1. <<>> \in Seq(X) /\ a \o <<>> = a
    OBVIOUS
  <2> QED  BY <2>1
<1>4. ASSUME NEW l \in Seq(Y), NEW x \in Y, l \in T PROVE Append(l, x) \in T
  <2>1. l \in Seq(X) /\ x \in X /\ x.kind \notin {"save", "undo", "redo"}
    BY <1>2, <1>4
  <2>2. PICK b : b = a \o l
    OBVIOUS
  <2>3. b \in Seq(X) /\ a \o Append(l, x) = Append(b, x) /\ Append(l, x) \in Seq(X)
    BY <2>1, <2>2
  <2>4. Was(Append(b, x), t) = Was(b, t)
    BY <2>1, <2>3, EditStep
  <2> QED  BY <1>4, <2>2, <2>3, <2>4
<1> HIDE DEF T
<1>5. Seq(Y) \subseteq T
  BY <1>3, <1>4, InductBack
<1>6. d \in T
  BY <1>1, <1>5
<1> QED  BY <1>6 DEF T

(* A list whose last op is no undo and no redo has nothing ahead of it.    *)
LEMMA NothingAhead ==
  ASSUME NEW X, NEW t, About(X, t), NEW r \in Redo(X), NEW a \in Seq(X), NEW d \in Seq(X),
         d # <<>>, d[Len(d)].kind \notin {"undo", "redo"}
  PROVE  Ahead(a \o d, r, t) = <<>>
<1>1. PICK n \in Nat : Len(d) = n + 1
  <2>1. Len(d) \in Nat /\ Len(d) # 0
    BY LenProperties, EmptySeq
  <2>2. Len(d) - 1 \in Nat /\ Len(d) = (Len(d) - 1) + 1
    BY <2>1
  <2> QED  BY <2>2
<1>2. PICK x : x = d[n + 1]
  OBVIOUS
<1>3. x \in X /\ x.kind \notin {"undo", "redo"}
  <2>1. n + 1 \in 1..Len(d)
    BY <1>1
  <2> QED  BY <1>1, <1>2, <2>1, ElementOfSeq
<1>4. PICK f : f = [i \in 1..n |-> d[i]]
  OBVIOUS
<1>5. f \in Seq(X) /\ Len(f) = n /\ \A i \in 1..n : f[i] = d[i]
  <2>1. \A i \in 1..n : i \in 1..Len(d)
    BY <1>1
  <2>2. \A i \in 1..n : d[i] \in X
    BY <2>1, ElementOfSeq
  <2> QED  BY <1>4, <2>2
<1>6. d = Append(f, x)
  <2>1. PICK z : z = Append(f, x)
    OBVIOUS
  <2>2. z \in Seq(X) /\ Len(z) = n + 1 /\ z[n + 1] = x /\ \A i \in 1..n : z[i] = f[i]
    BY <1>3, <1>5, <2>1, AppendProperties
  <2>3. \A i \in 1..(n + 1) : i \in 1..n \/ i = n + 1
    OBVIOUS
  <2>4. \A i \in 1..(n + 1) : d[i] = z[i]
    BY <1>2, <1>5, <2>2, <2>3
  <2>5. d = z
    BY <1>1, <2>2, <2>4, SeqEqual
  <2> QED  BY <2>1, <2>5
<1>7. PICK b : b = a \o f
  OBVIOUS
<1>8. b \in Seq(X) /\ a \o d = Append(b, x)
  BY <1>3, <1>5, <1>6, <1>7
<1> QED  BY <1>3, <1>8, AheadEdit

(* What a step of a timeline is, of a list that gets longer.               *)
EditOf(a, e, r, t) ==
  /\ Ahead(e, r, t) = <<>>
  /\ Was(e, t) = Again(Was(a, t), Shows(a, t), Len(Was(e, t)) - Len(Was(a, t)))

UndoOf(a, e, r, t) ==
  /\ Ahead(e, r, t) = <<Shows(a, t)>> \o Ahead(a, r, t)
  /\ IF Was(a, t) = <<>>
     THEN Shows(e, t) = Nothing /\ Was(e, t) = Was(a, t)
     ELSE /\ Shows(e, t) = Was(a, t)[Len(Was(a, t))]
          /\ Was(e, t) = SubSeq(Was(a, t), 1, Len(Was(a, t)) - 1)

RedoOf(a, e, r, t) ==
  /\ Ahead(a, r, t) # <<>>
  /\ Shows(e, t) = Head(Ahead(a, r, t))
  /\ Ahead(e, r, t) = Tail(Ahead(a, r, t))
  /\ Was(e, t) = Later(Was(a, t), Shows(a, t))

(* An undo at the end is the undo of a timeline.                           *)
LEMMA UndoIsUndo ==
  ASSUME NEW X, NEW t, About(X, t), NEW r \in Redo(X), NEW a \in Seq(X), NEW x \in X,
         x.kind = "undo", Preprocess(a).ok
  PROVE  UndoOf(a, Append(a, x), r, t)
<1>1. PICK e : e = Append(a, x)
  OBVIOUS
<1>2. Ahead(e, r, t) = <<Shows(a, t)>> \o Ahead(a, r, t)
  BY <1>1, AheadUndo DEF Shows
<1>3. PICK p : p = Was(e, t)
  OBVIOUS
<1>4. PICK v : v = Shows(e, t)
  OBVIOUS
<1>5. Was(a, t) = Later(p, v)
  BY <1>1, <1>3, <1>4, UndoStep
<1>6. e \in Seq(X)
  BY <1>1, AppendProperties
<1>7. PICK V : p \in Seq(V) /\ v \in V
  BY <1>3, <1>4, <1>6, WasTyped
<1>8. PICK q : q = Was(a, t)
  OBVIOUS
<1>9. CASE p = <<>> /\ v = Nothing
  BY <1>1, <1>2, <1>3, <1>4, <1>5, <1>9 DEF UndoOf, Later
<1>10. CASE ~(p = <<>> /\ v = Nothing)
  <2>1. q = Append(p, v)
    BY <1>5, <1>8, <1>10 DEF Later
  <2>2. PICK L \in Nat : L = Len(p)
    BY <1>7, LenProperties
  <2>3. q # <<>> /\ Len(q) = L + 1 /\ q[L + 1] = v
    BY <1>7, <2>1, <2>2, AppendProperties
  <2>4. SubSeq(q, 1, L) = p
    <3>1. L \in 0..L
      OBVIOUS
    <3> QED  BY <1>7, <2>1, <2>2, <3>1, FrontSame
  <2>5. Len(q) - 1 = L
    BY <2>3
  <2>6. q # <<>> /\ v = q[Len(q)] /\ p = SubSeq(q, 1, Len(q) - 1)
    BY <2>3, <2>4, <2>5
  <2> QED  BY <1>1, <1>2, <1>3, <1>4, <1>8, <2>6 DEF UndoOf
<1> QED  BY <1>9, <1>10

(* Savepoints and then edits are an edit of a timeline.                    *)
LEMMA EditsAreEdit ==
  ASSUME NEW X, NEW t, About(X, t), NEW r \in Redo(X), NEW a \in Seq(X),
         NEW s \in Seq(Saves(X)), NEW d \in Seq(Changing(X)), d # <<>>
  PROVE  EditOf(a, a \o (s \o d), r, t)
<1>0. s \in Seq(X) /\ d \in Seq(X)
  BY DEF Saves, Changing
<1>1. PICK b : b = a \o s
  OBVIOUS
<1>2. PICK e : e = b \o d
  OBVIOUS
<1>3. b \in Seq(X) /\ e \in Seq(X) /\ a \o (s \o d) = e
  <2>1. b \in Seq(X)
    BY <1>0, <1>1, ConcatProperties
  <2>2. e \in Seq(X)
    BY <1>0, <1>2, <2>1, ConcatProperties
  <2>3. (a \o s) \o d = a \o (s \o d)
    BY <1>0, ConcatAssociative
  <2> QED  BY <1>1, <1>2, <2>1, <2>2, <2>3
<1>4. PICK p : p = Was(a, t)
  OBVIOUS
<1>5. PICK v : v = Shows(a, t)
  OBVIOUS
<1>6. PICK n \in Nat : n = Len(s)
  BY LenProperties
<1>7. Was(b, t) = Again(p, v, n)
  BY <1>1, <1>4, <1>5, <1>6, SavesBehind
<1>8. Was(e, t) = Again(p, v, n)
  <2>1. Was(b \o d, t) = Was(b, t)
    BY <1>3, EditsBehind
  <2> QED  BY <1>2, <1>7, <2>1
<1>9. PICK x \in X : TRUE
  BY DEF Redo
<1>10. PICK V : p \in Seq(V) /\ v \in V
  BY <1>4, <1>5, <1>9, WasTyped
<1>11. Again(p, v, n) = Again(p, v, Len(Again(p, v, n)) - Len(p))
  BY <1>10, AgainMore
<1>12. Ahead(e, r, t) = <<>>
  <2>1. Len(d) \in 1..Len(d)
    <3>1. Len(d) \in Nat /\ Len(d) # 0
      BY LenProperties, EmptySeq
    <3> QED  BY <3>1
  <2>2. d[Len(d)] \in Changing(X)
    BY <2>1, ElementOfSeq
  <2>3. d[Len(d)].kind \notin {"undo", "redo"}
    BY <2>2 DEF Changing
  <2>4. Ahead(b \o d, r, t) = <<>>
    BY <1>0, <1>3, <2>3, NothingAhead
  <2> QED  BY <1>2, <2>4
<1>13. Was(e, t) = Again(p, v, Len(Was(e, t)) - Len(p))
  BY <1>8, <1>11
<1> QED  BY <1>3, <1>4, <1>5, <1>12, <1>13 DEF EditOf

(* Whatever is added to a list by a request is a step of a timeline.       *)
LEMMA LongerIsStep ==
  ASSUME NEW X, NEW t, About(X, t), NEW r \in Redo(X), NEW a \in Seq(X), NEW w,
         \/ w = <<>>
         \/ \E x \in X : w = <<x>> /\ x.kind \in {"undo", "redo"}
         \/ \E s \in Seq(Saves(X)), d \in Seq(Changing(X)) : w = s \o d /\ d # <<>>,
         Preprocess(a).ok, Preprocess(a \o w).ok
  PROVE  \/ a \o w = a
         \/ EditOf(a, a \o w, r, t) \/ UndoOf(a, a \o w, r, t) \/ RedoOf(a, a \o w, r, t)
<1>1. CASE w = <<>>
  BY <1>1, ConcatEmptySeq
<1>2. ASSUME NEW x \in X, w = <<x>>, x.kind \in {"undo", "redo"}
      PROVE  UndoOf(a, a \o w, r, t) \/ RedoOf(a, a \o w, r, t)
  <2>1. PICK e : e = a \o w
    OBVIOUS
  <2>2. e = Append(a, x)
    BY <1>2, <2>1
  <2>3. CASE x.kind = "undo"
    BY <2>1, <2>2, <2>3, UndoIsUndo
  <2>4. CASE x.kind = "redo"
    <3>1. Preprocess(Append(a, x)).ok
      BY <2>1, <2>2
    <3>2. /\ Ahead(a, r, t) # <<>>
          /\ Replayed(Preprocess(Append(a, x)).ops, t) = Head(Ahead(a, r, t))
          /\ Ahead(Append(a, x), r, t) = Tail(Ahead(a, r, t))
      BY <2>4, <3>1, AheadRedo
    <3>3. Was(Append(a, x), t) = Later(Was(a, t), Shows(a, t))
      BY <2>4, <3>1, RedoStep
    <3> QED  BY <2>1, <2>2, <3>2, <3>3 DEF RedoOf, Shows
  <2> QED  BY <1>2, <2>3, <2>4
<1>3. ASSUME NEW s \in Seq(Saves(X)), NEW d \in Seq(Changing(X)), w = s \o d, d # <<>>
      PROVE  EditOf(a, a \o w, r, t)
  BY <1>3, EditsAreEdit
<1> QED  BY <1>1, <1>2, <1>3

=============================================================================
