----------------------------- MODULE OpLogProofs ----------------------------
(***************************************************************************)
(* What is proved of OpLog, for any browsers, servers, toplevels and       *)
(* names.  In this order:                                                  *)
(*                                                                         *)
(*  - LogInv, which every step keeps: the types, and that the rows there   *)
(*    are and the rows about to be saved render by themselves;             *)
(*  - LoneInv, which the steps keep when there is one server: the order of *)
(*    the ops in a row, and that what is saved extends it;                 *)
(*  - that requests are judged the latest in order;                        *)
(*  - that with one server the log implements Timeline.                    *)
(***************************************************************************)
EXTENDS OpLog, UndoProofs, FiniteSetTheorems, TLAPS

-----------------------------------------------------------------------------
(* Where the members of two lists, one after the other, are from.          *)
LEMMA ConcatMembers ==
  ASSUME NEW X, NEW a \in Seq(X), NEW w \in Seq(X)
  PROVE  \A i \in 1..Len(a \o w) : \/ \E k \in 1..Len(a) : (a \o w)[i] = a[k]
                                   \/ \E k \in 1..Len(w) : (a \o w)[i] = w[k]
<1>1. PICK n \in Nat : n = Len(a)
  BY LenProperties
<1>2. PICK m \in Nat : m = Len(w)
  BY LenProperties
<1>3. PICK c : c = a \o w
  OBVIOUS
<1>4. /\ Len(c) = Len(a) + Len(w)
      /\ \A i \in 1..(Len(a) + Len(w)) : c[i] = IF i <= Len(a) THEN a[i] ELSE w[i - Len(a)]
  BY <1>3, ConcatProperties
<1>5. Len(c) = n + m /\ \A i \in 1..(n + m) : c[i] = IF i <= n THEN a[i] ELSE w[i - n]
  BY <1>1, <1>2, <1>4, Zenon
<1>6. ASSUME NEW i \in 1..(n + m)
      PROVE  (\E k \in 1..n : c[i] = a[k]) \/ (\E k \in 1..m : c[i] = w[k])
  <2>1. CASE i <= n
    BY <1>5, <2>1
  <2>2. CASE ~(i <= n)
    <3>1. i - n \in 1..m /\ c[i] = w[i - n]
      BY <1>5, <2>2
    <3> QED  BY <3>1
  <2> QED  BY <2>1, <2>2
<1> QED  BY <1>1, <1>2, <1>3, <1>5, <1>6

-----------------------------------------------------------------------------
(* The rows of several toplevels, one after the other.                     *)
RowOf(row, t, X) == row.ops \in Seq(X) /\ \A i \in 1..Len(row.ops) : row.ops[i].tl = t

(* A row that was loaded is all there is of its toplevel in what was       *)
(* loaded.                                                                 *)
LEMMA LoadedOwn ==
  ASSUME NEW X, NEW n \in Nat, NEW order \in [1..n -> Toplevels],
         \A i, j \in 1..n : i # j => order[i] # order[j],
         \A t \in Toplevels : RowOf(rows[t], t, X)
  PROVE  /\ Loaded(order) \in Seq(X)
         /\ \A t \in Toplevels : Own(Loaded(order), t) =
              IF \E j \in 1..n : order[j] = t THEN rows[t].ops ELSE <<>>
<1> DEFINE seqs == [i \in DOMAIN order |-> rows[order[i]].ops]
           Body(g) == [i \in 1..n |-> IF i = 1 THEN seqs[i] ELSE g[i - 1] \o seqs[i]]
           flat == CHOOSE g : g = Body(g)
           Q == Seq(X)
           base == <<>>
           step == [a \in Q \X (1..n) |-> a[1] \o seqs[a[2]]]
<1>1. /\ seqs \in Seq(Q) /\ Len(seqs) = n
      /\ \A i \in 1..n : seqs[i] = rows[order[i]].ops /\ seqs[i] \in Q
  BY DEF RowOf
<1>2. Loaded(order) = IF n = 0 THEN seqs ELSE flat[n]
  <2>1. FlattenSeq(seqs) = IF Len(seqs) = 0 THEN seqs ELSE
          (CHOOSE g : g = [i \in 1..Len(seqs) |->
                             IF i = 1 THEN seqs[i] ELSE g[i - 1] \o seqs[i]])[Len(seqs)]
    BY DEF FlattenSeq
  <2>2. Len(seqs) = n
    BY <1>1
  <2>3. Loaded(order) = FlattenSeq(seqs)
    BY DEF Loaded
  <2> QED  BY <2>1, <2>2, <2>3, Zenon
<1>3. n = 0 => seqs = <<>>
  BY <1>1, EmptySeq
<1> HIDE DEF seqs
<1>4. \A q \in Q, i \in 1..n : step[<<q, i>>] = q \o seqs[i]
  OBVIOUS
<1>5. \A q \in Q, i \in 1..n : step[<<q, i>>] \in Q
  BY <1>1, <1>4, ConcatProperties
<1>6. base \in Q
  OBVIOUS
<1> HIDE DEF step
<1>7. PICK f \in [0..n -> Q] :
        f[0] = base /\ \A i \in 1..n : f[i] = step[<<f[i - 1], i>>]
  <2>1. IsStep(step, base, n, Q)
    BY <1>5, <1>6 DEF IsStep
  <2> HIDE DEF Q, base
  <2>2. \E f \in [0..n -> Q] : Builds(f, step, base, n)
    BY <2>1, Recursion
  <2> QED  BY <2>2 DEF Builds
<1>8. \A i \in 1..n : i - 1 \in 0..n /\ i \in 0..n
  OBVIOUS
<1>9. \A i \in 1..n : f[i] = f[i - 1] \o seqs[i]
  BY <1>4, <1>7, <1>8
<1>10. n # 0 => f[1] = seqs[1]
  <2> SUFFICES ASSUME n # 0  PROVE f[1] = seqs[1]
    OBVIOUS
  <2>1. 1 \in 1..n /\ 1 - 1 = 0
    OBVIOUS
  <2>2. f[1] = base \o seqs[1] /\ seqs[1] \in Q
    BY <1>1, <1>7, <1>9, <2>1
  <2> QED  BY <2>2
<1> DEFINE g == [i \in 1..n |-> f[i]]
<1>11. g = Body(g)
  <2>1. \A i \in 1..n : i # 1 => i - 1 \in 1..n
    OBVIOUS
  <2>2. \A i \in 1..n : g[i] = f[i]
    OBVIOUS
  <2>3. ASSUME NEW i \in 1..n  PROVE f[i] = IF i = 1 THEN seqs[i] ELSE g[i - 1] \o seqs[i]
    <3> HIDE DEF g
    <3>1. CASE i = 1
      BY <1>10, <3>1
    <3>2. CASE i # 1
      BY <1>9, <2>1, <2>2, <3>2
    <3> QED  BY <3>1, <3>2
  <2> QED  BY <2>3
<1>12. flat = Body(flat)
  BY <1>11, Zenon
<1> HIDE DEF flat
<1>13. /\ \A i \in 1..n : flat[i] = IF i = 1 THEN seqs[i] ELSE flat[i - 1] \o seqs[i]
  <2> HIDE DEF Body
  <2>1. \A i \in 1..n : flat[i] = Body(flat)[i]
    BY <1>12
  <2>2. \A i \in 1..n : Body(flat)[i] = IF i = 1 THEN seqs[i] ELSE flat[i - 1] \o seqs[i]
    BY DEF Body
  <2> QED  BY <2>1, <2>2
<1> HIDE DEF Body, Q
<1>14. Loaded(order) = f[n]
  <2>1. CASE n = 0
    BY <1>2, <1>3, <1>7, <2>1
  <2>2. CASE n # 0
    <3> DEFINE S == {i \in 0..n : i = 0 \/ flat[i] = f[i]}
    <3>1. 0 \in S
      OBVIOUS
    <3>2. ASSUME NEW i \in 1..n, i - 1 \in S  PROVE i \in S
      <4>1. CASE i = 1
        BY <1>8, <1>10, <1>13, <2>2, <4>1
      <4>2. CASE i # 1
        <5>1. flat[i - 1] = f[i - 1]
          BY <3>2, <4>2
        <5> QED  BY <1>8, <1>9, <1>13, <4>2, <5>1
      <4> QED  BY <4>1, <4>2
    <3> HIDE DEF S
    <3>3. 0..n \subseteq S
      BY <3>1, <3>2, InductTo
    <3>4. n \in S
      BY <3>3
    <3>5. flat[n] = f[n]
      BY <2>2, <3>4 DEF S
    <3> QED  BY <1>2, <2>2, <3>5
  <2> QED  BY <2>1, <2>2
<1>15. ASSUME NEW t \in Toplevels
       PROVE  Own(Loaded(order), t) = IF \E j \in 1..n : order[j] = t THEN rows[t].ops ELSE <<>>
  <2> DEFINE Had(i) == \E j \in 1..i : order[j] = t
             S == {i \in 0..n : Own(f[i], t) = IF Had(i) THEN rows[t].ops ELSE <<>>}
             r == rows[t].ops
  <2>0. r \in Seq(X)
    BY DEF RowOf
  <2>1. 0 \in S
    <3>1. Own(f[0], t) = <<>>
      BY <1>7, OwnEmpty
    <3>2. ~Had(0)
      OBVIOUS
    <3> QED  BY <3>1, <3>2
  <2>2. ASSUME NEW i \in 1..n, i - 1 \in S  PROVE i \in S
    <3> DEFINE p == f[i - 1]
               q == seqs[i]
    <3>1. p \in Seq(X) /\ q \in Seq(X) /\ f[i] = p \o q
      BY <1>1, <1>7, <1>8, <1>9 DEF Q
    <3>2. Own(p, t) = IF Had(i - 1) THEN r ELSE <<>>
      BY <2>2
    <3>3. q = rows[order[i]].ops /\ order[i] \in Toplevels
      BY <1>1
    <3>4. Had(i) <=> Had(i - 1) \/ order[i] = t
      <4>1. \A j \in 1..i : j \in 1..(i - 1) \/ j = i
        OBVIOUS
      <4>2. \A j \in 1..(i - 1) : j \in 1..i
        OBVIOUS
      <4>3. i \in 1..i
        OBVIOUS
      <4> QED  BY <4>1, <4>2, <4>3
    <3>5. order[i] = t => ~Had(i - 1)
      <4>1. \A j \in 1..(i - 1) : j \in 1..n /\ j # i
        OBVIOUS
      <4> QED  BY <4>1
    <3> HIDE DEF p, q, Had, r
    <3>6. Own(f[i], t) = Own(p, t) \o Own(q, t)
      BY <3>1, OwnConcat
    <3>7. order[i] = t => Own(q, t) = q
      <4> SUFFICES ASSUME order[i] = t  PROVE Own(q, t) = q
        OBVIOUS
      <4>1. \A k \in 1..Len(q) : q[k].tl = t
        BY <3>3 DEF RowOf
      <4> QED  BY <3>1, <4>1, OwnAll
    <3>8. order[i] # t => Own(q, t) = <<>>
      <4> SUFFICES ASSUME order[i] # t  PROVE Own(q, t) = <<>>
        OBVIOUS
      <4>1. \A k \in 1..Len(q) : q[k].tl # t
        BY <3>3 DEF RowOf
      <4> QED  BY <3>1, <4>1, OwnNone
    <3>9. r \o <<>> = r /\ <<>> \o <<>> = <<>> /\ <<>> \o r = r
      BY <2>0 DEF r
    <3>10. Own(f[i], t) = IF Had(i) THEN r ELSE <<>>
      <4>1. CASE order[i] = t
        <5>1. q = r
          BY <3>3, <4>1 DEF r
        <5> QED  BY <3>2, <3>4, <3>5, <3>6, <3>7, <3>9, <4>1, <5>1
      <4>2. CASE order[i] # t
        BY <3>2, <3>4, <3>6, <3>8, <3>9, <4>2
      <4> QED  BY <4>1, <4>2
    <3> QED  BY <1>8, <3>10 DEF r
  <2> HIDE DEF S
  <2>3. 0..n \subseteq S
    BY <2>1, <2>2, InductTo
  <2>4. n \in S
    BY <2>3
  <2> QED  BY <1>14, <2>4 DEF S
<1>16. f[n] \in Seq(X)
  BY <1>7 DEF Q
<1> QED  BY <1>14, <1>15, <1>16

(* What the SELECT returns is each row that is wanted, once.               *)
LEMMA WantedInOrder ==
  ASSUME NEW W, IsFiniteSet(W), NEW order \in SetToSeqs(W)
  PROVE  \E n \in Nat : /\ order \in [1..n -> W]
                        /\ \A i, j \in 1..n : i # j => order[i] # order[j]
                        /\ \A t \in W : \E j \in 1..n : order[j] = t
<1> DEFINE n == Cardinality(W)
           D == 1..n
<1>1. n \in Nat
  BY FS_CardinalityType
<1>2. order \in [D -> W] /\ \A i, j \in D : i # j => order[i] # order[j]
  BY DEF SetToSeqs
<1>3. IsFiniteSet(D) /\ Cardinality(D) = n
  <2> HIDE DEF n
  <2>1. 1 \in Int /\ n \in Int
    BY <1>1
  <2>2. IsFiniteSet(1..n) /\ Cardinality(1..n) = IF 1 > n THEN 0 ELSE n - 1 + 1
    BY <2>1, FS_Interval
  <2> QED  BY <1>1, <2>2
<1>4. order \in Injection(D, W)
  BY <1>2, Zenon DEF Injection, IsInjective
<1>5. order \in Surjection(D, W)
  <2> HIDE DEF D
  <2>1. Cardinality(D) = Cardinality(W) <=> order \in Surjection(D, W)
    BY <1>4, FS_Injection
  <2> QED  BY <1>3, <2>1
<1>6. \A t \in W : \E j \in D : order[j] = t
  BY <1>5 DEF Surjection
<1> QED  BY <1>1, <1>2, <1>6

-----------------------------------------------------------------------------
(* The ops that there can be, and the requests that carry them.            *)
Ops ==
  [kind : {"save", "set", "create", "rename", "addcol", "coltype", "retype", "delete", "undo", "redo"},
   tl : Toplevels, name : Names \cup {NoName}, by : (Browsers \cup {"old"}) \X Nat]

Requests == [from : Browsers, ctr : Nat, ops : Seq(Ops)]

(* A request that its browser has sent, with ops that are its own.         *)
IsSent(r) ==
  /\ r \in Requests
  /\ r.ctr \in 1..sent[r.from]
  /\ \A i \in 1..Len(r.ops) : r.ops[i].by = <<r.from, r.ctr>>

(* A row that can be replayed by itself, and gives what is rendered.       *)
Renders(row, t) ==
  /\ RowOf(row, t, Ops)
  /\ Preprocess(row.ops).ok
  /\ row.shown = Replayed(Preprocess(row.ops).ops, t)

(* What browsers have sent carries their own numbers.                      *)
ClientInv ==
  /\ sent \in [Browsers -> 0..MaxSends]
  /\ \A r \in net : IsSent(r)
  /\ known \subseteq Toplevels

(* The record in op_ctrs is never behind the last request judged latest,   *)
(* and never ahead of what was sent.                                       *)
CountersInv ==
  /\ ctr \in [Browsers -> Nat] /\ latest \in [Browsers -> Nat]
  /\ \A b \in Browsers : ctr[b] <= sent[b] /\ latest[b] <= ctr[b]

(* Every row renders by itself.                                            *)
RowsInv ==
  /\ DOMAIN rows = Toplevels
  /\ \A t \in Toplevels : Renders(rows[t], t)

(* What each server has in hand: a request, and rows that render.          *)
JobsInv ==
  /\ pc \in [Servers -> {"idle", "counted", "checked", "saving"}]
  /\ DOMAIN job = Servers /\ DOMAIN saves = Servers
  /\ \A s \in Servers :
       /\ IF pc[s] = "idle" THEN job[s] = NoJob ELSE IsSent(job[s])
       /\ IF pc[s] = "saving"
            THEN /\ DOMAIN saves[s] # {} /\ DOMAIN saves[s] \subseteq Tlids(job[s].ops)
                 /\ \A t \in DOMAIN saves[s] : Renders(saves[s][t], t)
            ELSE saves[s] = NoSaves

(* The invariant, for any number of servers.                               *)
LogInv == ClientInv /\ CountersInv /\ RowsInv /\ JobsInv /\ faults \in 0..MaxFaults

-----------------------------------------------------------------------------
(* One server.                                                             *)

(* The kinds of ops that a late request loses.                             *)
Ordered(op) == ~OrderFree(op)

(* No op that depends on its order is from after the latest of its browser.*)
StoredInv ==
  \A t \in Toplevels : \A i \in 1..Len(rows[t].ops) :
    LET op == rows[t].ops[i] IN
      Ordered(op) => op.by[2] = 0 \/ (op.by[1] \in Browsers /\ op.by[2] <= latest[op.by[1]])

(* What the server has judged is the latest, or has nothing to order; what *)
(* it is going to save extends the rows as they are.                       *)
AtWorkInv ==
  \A s \in Servers :
    /\ pc[s] \in {"checked", "saving"} =>
         \/ job[s].ctr = latest[job[s].from]
         \/ \A i \in 1..Len(job[s].ops) : OrderFree(job[s].ops[i])
    /\ pc[s] = "saving" =>
         \A t \in DOMAIN saves[s] : saves[s][t].ops = rows[t].ops \o Own(job[s].ops, t)

(* The invariant for one server.                                           *)
LoneInv == StoredInv /\ InOrder /\ AtWorkInv

(* The assumption of the theorems about one server.                        *)
LoneServer == \E s \in Servers : Servers = {s}

-----------------------------------------------------------------------------
(* What browsers send.                                                     *)

(* The ops of a request; a request whose ops need no order, when it is     *)
(* late, has each of them once.                                            *)
Of(by) == {op \in Ops : op.by = by}

FreeOnce(ops) ==
  \A i, j \in 1..Len(ops) : OrderFree(ops[i]) /\ ops[i] = ops[j] => i = j

(* Whatever a user does is an undo, a redo or a list of other ops, of its  *)
(* request and not empty.                                                  *)
IsChange(ops, by) ==
  \/ \E op \in Of(by) : ops = <<op>> /\ op.kind \in {"undo", "redo"}
  \/ ops \in Seq(Changing(Of(by))) /\ ops # <<>> /\ FreeOnce(ops)

LEMMA PlainTyped ==
  ASSUME NEW b \in Browsers, NEW n \in Nat, NEW by, by = <<b, n>>, NEW t \in Toplevels
  PROVE  /\ \A kind \in {"save", "set", "addcol", "coltype", "retype", "delete", "undo", "redo"} :
              Plain(kind, t, by) \in Of(by) /\ Plain(kind, t, by).kind = kind
         /\ \A kind \in {"create", "rename"}, name \in Names :
              Op(kind, t, name, by) \in Of(by) /\ Op(kind, t, name, by).kind = kind
  BY DEF Plain, Op, Ops, Of

(* One op, and two of which not both are free to be stored again.          *)
LEMMA OneIsChange ==
  ASSUME NEW by, NEW op \in Of(by), op.kind # "save"
  PROVE  IsChange(<<op>>, by)
<1>1. PICK ops : ops = <<op>>
  OBVIOUS
<1>2. Len(ops) = 1 /\ ops[1] = op /\ ops # <<>>
  BY <1>1
<1>3. CASE op.kind \in {"undo", "redo"}
  BY <1>3 DEF IsChange
<1>4. CASE op.kind \notin {"undo", "redo"}
  <2>1. op \in Changing(Of(by))
    BY <1>4 DEF Changing
  <2>2. ops \in Seq(Changing(Of(by)))
    BY <1>1, <2>1
  <2>3. FreeOnce(ops)
    BY <1>2 DEF FreeOnce
  <2> QED  BY <1>1, <1>2, <2>2, <2>3 DEF IsChange
<1> QED  BY <1>3, <1>4

LEMMA TwoAreChange ==
  ASSUME NEW by, NEW p \in Changing(Of(by)), NEW q \in Changing(Of(by)), p.kind # q.kind
  PROVE  IsChange(<<p, q>>, by)
<1>1. PICK ops : ops = <<p, q>>
  OBVIOUS
<1>2. Len(ops) = 2 /\ ops[1] = p /\ ops[2] = q /\ ops # <<>> /\ ops \in Seq(Changing(Of(by)))
  BY <1>1
<1>3. \A i \in 1..2 : i = 1 \/ i = 2
  OBVIOUS
<1>4. FreeOnce(ops)
  BY <1>2, <1>3 DEF FreeOnce
<1> QED  BY <1>1, <1>2, <1>4 DEF IsChange

(* Any number of ops that are not free.                                    *)
LEMMA ManyAreChange ==
  ASSUME NEW by, NEW ops \in Seq(Changing(Of(by))), ops # <<>>,
         \A i \in 1..Len(ops) : ~OrderFree(ops[i])
  PROVE  IsChange(ops, by)
  BY DEF IsChange, FreeOnce

(* Code of handlers.                                                       *)
LEMMA SetsTyped ==
  ASSUME NEW b \in Browsers, NEW n \in Nat, NEW by, by = <<b, n>>, NEW ts, ts \subseteq Toplevels,
         NEW max, NEW l \in SeqOf(Sets(ts, by), max)
  PROVE  l \in Seq(Changing(Of(by))) /\ \A i \in 1..Len(l) : l[i].kind = "set"
<1>1. PICK m \in Nat : l \in [1..m -> Sets(ts, by)]
  BY DEF SeqOf
<1>2. \A t \in ts : Plain("set", t, by) \in Of(by) /\ Plain("set", t, by).kind = "set"
  BY PlainTyped
<1>3. \A op \in Sets(ts, by) : op \in Changing(Of(by)) /\ op.kind = "set"
  BY <1>2 DEF Sets, Changing
<1>4. \A i \in 1..m : l[i] \in Changing(Of(by)) /\ l[i].kind = "set"
  BY <1>1, <1>3
<1>5. l \in [1..m -> Changing(Of(by))]
  BY <1>1, <1>4
<1> QED  BY <1>1, <1>4, <1>5

LEMMA ChangesTyped ==
  ASSUME known \subseteq Toplevels, NEW b \in Browsers, NEW n \in Nat, NEW by, by = <<b, n>>,
         NEW edit \in Edits, NEW ops \in Changes(edit, by)
  PROVE  IsChange(ops, by)
<1>1. PICK O : O = Of(by)
  OBVIOUS
<1>2. PICK C : C = Changing(O)
  OBVIOUS
<1>3. /\ Handlers \subseteq Toplevels /\ Datastores \subseteq Toplevels
      /\ edit \in {"code", "create", "rename", "columns", "delete", "undo", "redo"}
  BY EditsAssumption DEF Toplevels
<1>4. ASSUME NEW t \in Toplevels, NEW kind \in {"set", "addcol", "coltype", "retype", "delete"}
      PROVE  /\ Plain(kind, t, by) \in C /\ Plain(kind, t, by) \in Of(by)
             /\ Plain(kind, t, by).kind = kind
  BY <1>1, <1>2, PlainTyped DEF Changing
<1>5. ASSUME NEW t \in Toplevels, NEW name \in Names, NEW kind \in {"create", "rename"}
      PROVE  Op(kind, t, name, by) \in C /\ Op(kind, t, name, by).kind = kind
  BY <1>1, <1>2, PlainTyped DEF Changing
<1>6. CASE edit = "code"
  <2>1. ops \in SeqOf(Sets(Handlers, by), MaxEdits) /\ ops # <<>>
    BY <1>6 DEF Changes, CodeEdits
  <2>3. ops \in Seq(C) /\ \A i \in 1..Len(ops) : ops[i].kind = "set"
    BY <1>1, <1>2, <1>3, <2>1, SetsTyped
  <2>4. \A i \in 1..Len(ops) : ~OrderFree(ops[i])
    BY <2>3 DEF OrderFree
  <2> QED  BY <1>1, <1>2, <2>1, <2>3, <2>4, ManyAreChange
<1>7. CASE edit = "create"
  <2>1. PICK t \in Datastores \ known, name \in Names :
          ops = <<Op("create", t, name, by), Plain("addcol", t, by)>>
    BY <1>7 DEF Changes, Creations
  <2>2. PICK p : p = Op("create", t, name, by)
    OBVIOUS
  <2>3. PICK q : q = Plain("addcol", t, by)
    OBVIOUS
  <2>4. p \in C /\ q \in C /\ p.kind = "create" /\ q.kind = "addcol"
    BY <1>3, <1>4, <1>5, <2>2, <2>3
  <2>5. ops = <<p, q>>
    BY <2>1, <2>2, <2>3
  <2> QED  BY <1>1, <1>2, <2>4, <2>5, TwoAreChange
<1>8. CASE edit = "rename"
  <2>1. PICK p \in Namings(by), mentions \in Mentions(by) : ops = <<p>> \o mentions
    <3>1. ops \in Renames(by)
      BY <1>8 DEF Changes
    <3>2. PICK p \in Namings(by) : ops \in {<<p>> \o mentions : mentions \in Mentions(by)}
      BY <3>1 DEF Renames
    <3> QED  BY <3>2
  <2>2. PICK t \in Datastores \cap known, name \in Names : p = Op("rename", t, name, by)
    BY DEF Namings
  <2>3. p \in C /\ p.kind = "rename"
    BY <1>3, <1>5, <2>2
  <2>4. PICK ts : ts = Handlers \cap known
    OBVIOUS
  <2>5. mentions \in Seq(C) /\ \A i \in 1..Len(mentions) : mentions[i].kind = "set"
    <3>1. ts \subseteq Toplevels /\ mentions \in SeqOf(Sets(ts, by), MaxEdits - 1)
      BY <1>3, <2>4 DEF Mentions
    <3> QED  BY <1>1, <1>2, <3>1, SetsTyped
  <2>6. PICK o : o = <<p>>
    OBVIOUS
  <2>7. o \in Seq(C) /\ Len(o) = 1 /\ o[1] = p
    BY <2>3, <2>6
  <2>8. ops = o \o mentions
    BY <2>1, <2>6
  <2>9. ops \in Seq(C) /\ Len(ops) = Len(o) + Len(mentions)
    BY <2>5, <2>7, <2>8, ConcatProperties
  <2>10. \A i \in 1..Len(ops) : ~OrderFree(ops[i])
    <3>1. \A i \in 1..Len(o) : o[i].kind = "rename"
      BY <2>3, <2>7
    <3>2. \A i \in 1..Len(o \o mentions) : \/ \E k \in 1..Len(o) : (o \o mentions)[i] = o[k]
                                           \/ \E k \in 1..Len(mentions) : (o \o mentions)[i] = mentions[k]
      <4>1. o \in Seq(C) /\ mentions \in Seq(C)
        BY <2>5, <2>7
      <4> QED  BY <4>1, ConcatMembers
    <3> QED  BY <2>5, <2>8, <3>1, <3>2 DEF OrderFree
  <2>11. ops # <<>>
    <3>1. Len(mentions) \in Nat
      BY <2>5, LenProperties
    <3>2. Len(ops) # 0
      BY <2>7, <2>9, <3>1
    <3>3. ops = <<>> => Len(ops) = 0
      OBVIOUS
    <3> QED  BY <3>2, <3>3
  <2> QED  BY <1>1, <1>2, <2>9, <2>10, <2>11, ManyAreChange
<1>9. CASE edit = "columns"
  <2>1. PICK t \in Datastores \cap known :
          ops \in {<<Plain("addcol", t, by)>>, <<Plain("retype", t, by)>>,
                   <<Plain("coltype", t, by), Plain("addcol", t, by)>>,
                   <<Plain("retype", t, by), Plain("addcol", t, by)>>}
    BY <1>9 DEF Changes, ColumnEdits
  <2>2. PICK p : p = Plain("addcol", t, by)
    OBVIOUS
  <2>3. PICK q : q = Plain("retype", t, by)
    OBVIOUS
  <2>4. PICK r : r = Plain("coltype", t, by)
    OBVIOUS
  <2>5. /\ p \in C /\ q \in C /\ r \in C
        /\ p.kind = "addcol" /\ q.kind = "retype" /\ r.kind = "coltype"
    BY <1>3, <1>4, <2>2, <2>3, <2>4
  <2>6. p \in Of(by) /\ q \in Of(by)
    BY <1>3, <1>4, <2>2, <2>3
  <2>7. ops \in {<<p>>, <<q>>, <<r, p>>, <<q, p>>}
    BY <2>1, <2>2, <2>3, <2>4
  <2>8. IsChange(<<p>>, by) /\ IsChange(<<q>>, by)
    BY <2>5, <2>6, OneIsChange
  <2>9. IsChange(<<r, p>>, by) /\ IsChange(<<q, p>>, by)
    BY <1>1, <1>2, <2>5, TwoAreChange
  <2> QED  BY <2>7, <2>8, <2>9
<1>10. CASE edit \in {"delete", "undo", "redo"}
  <2>1. PICK t \in known : ops = <<Plain(edit, t, by)>>
    BY <1>10 DEF Changes
  <2>2. PICK p : p = Plain(edit, t, by)
    OBVIOUS
  <2>3. p \in Of(by) /\ p.kind = edit
    BY <1>10, <2>2, PlainTyped
  <2>4. p.kind # "save"
    BY <1>10, <2>3
  <2> QED  BY <2>1, <2>2, <2>3, <2>4, OneIsChange
<1> QED  BY <1>3, <1>6, <1>7, <1>8, <1>9, <1>10

(* Which says of each op what it is, and whose.                            *)
LEMMA ChangeTyped ==
  ASSUME NEW by, NEW ops, IsChange(ops, by)
  PROVE  /\ ops \in Seq(Ops) /\ Len(ops) \in Nat /\ ops # <<>>
         /\ \A i \in 1..Len(ops) : ops[i].by = by
<1>1. CASE \E op \in Of(by) : ops = <<op>>
  <2>1. PICK op \in Of(by) : ops = <<op>>
    BY <1>1
  <2>2. op \in Ops /\ op.by = by /\ Len(ops) = 1 /\ ops[1] = op /\ ops # <<>>
    BY <2>1 DEF Of
  <2>3. ops \in Seq(Ops)
    BY <2>1, <2>2
  <2> QED  BY <2>2, <2>3
<1>2. CASE ops \in Seq(Changing(Of(by))) /\ ops # <<>>
  <2>1. \A i \in 1..Len(ops) : ops[i] \in Ops /\ ops[i].by = by
    BY <1>2, ElementOfSeq DEF Changing, Of
  <2>2. PICK n \in Nat : n = Len(ops) /\ ops = [i \in 1..n |-> ops[i]]
    BY <1>2, LenProperties
  <2>3. ops \in [1..n -> Ops]
    BY <2>1, <2>2
  <2> QED  BY <1>2, <2>1, <2>2, <2>3
<1> QED  BY <1>1, <1>2 DEF IsChange

(* An op is about a toplevel.                                              *)
LEMMA OpsAbout == \A op \in Ops : op.tl \in Toplevels
  BY DEF Ops

(* Encoders.ops adds savepoints of the same request.                       *)
LEMMA EncodedTyped ==
  ASSUME NEW b \in Browsers, NEW n \in Nat, NEW ops \in Seq(Ops), Len(ops) \in Nat,
         \A i \in 1..Len(ops) : ops[i].by = <<b, n>>
  PROVE  /\ Encoded(ops) \in Seq(Ops)
         /\ \A i \in 1..Len(Encoded(ops)) : Encoded(ops)[i].by = <<b, n>>
<1> DEFINE L == Len(ops)
           saved == [i \in DOMAIN ops |-> Plain("save", ops[i].tl, ops[i].by)]
           u == saved \o ops
<1>1. L \in Nat /\ DOMAIN ops = 1..L /\ \A i \in 1..L : ops[i] \in Ops /\ ops[i].tl \in Toplevels
  <2>1. L \in Nat /\ DOMAIN ops = 1..L /\ \A i \in 1..L : ops[i] \in Ops
    BY ElementOfSeq
  <2> QED  BY <2>1, OpsAbout
<1>2. \A i \in 1..L : saved[i] \in Ops /\ saved[i].by = <<b, n>>
  <2>1. \A i \in 1..L : saved[i] = Plain("save", ops[i].tl, <<b, n>>)
    BY <1>1
  <2>2. \A t \in Toplevels : Plain("save", t, <<b, n>>) \in Of(<<b, n>>)
    BY PlainTyped
  <2> QED  BY <1>1, <2>1, <2>2 DEF Of
<1>3. saved \in Seq(Ops) /\ Len(saved) = L
  <2>1. saved = [i \in 1..L |-> saved[i]]
    BY <1>1
  <2> HIDE DEF saved, L
  <2> QED  BY <1>1, <1>2, <2>1
<1>4. \A i \in 1..L : ops[i].by = <<b, n>>
  OBVIOUS
<1>0. Len(ops) = L
  OBVIOUS
<1> HIDE DEF saved, L
<1>5. /\ u \in Seq(Ops) /\ Len(u) = L + L
      /\ \A i \in 1..L : u[i] = saved[i] /\ u[L + i] = ops[i]
  <2> DEFINE v == saved
  <2>1. v \in Seq(Ops) /\ Len(v) = L
    BY <1>3
  <2> HIDE DEF v
  <2>2. PICK w : w = v \o ops
    OBVIOUS
  <2>3. /\ w \in Seq(Ops) /\ Len(w) = Len(v) + Len(ops)
        /\ \A i \in 1..(Len(v) + Len(ops)) :
             w[i] = IF i <= Len(v) THEN v[i] ELSE ops[i - Len(v)]
    BY <2>1, <2>2, ConcatProperties
  <2>4. /\ Len(w) = L + L
        /\ \A i \in 1..(L + L) : w[i] = IF i <= L THEN v[i] ELSE ops[i - L]
    BY <1>0, <2>1, <2>3, Zenon
  <2>5. \A i \in 1..L : /\ i \in 1..(L + L) /\ i <= L
                       /\ L + i \in 1..(L + L) /\ ~(L + i <= L) /\ (L + i) - L = i
    BY <1>1
  <2>6. w \in Seq(Ops) /\ Len(w) = L + L /\ \A i \in 1..L : w[i] = v[i] /\ w[L + i] = ops[i]
    BY <2>3, <2>4, <2>5
  <2> QED  BY <2>2, <2>6 DEF v
<1>6. \A i \in 1..(L + L) : i \in 1..L \/ (i - L \in 1..L /\ L + (i - L) = i)
  BY <1>1
<1> HIDE DEF u
<1>7. \A i \in 1..(L + L) : u[i].by = <<b, n>>
  BY <1>2, <1>4, <1>5, <1>6
<1>8. Encoded(ops) = ops \/ Encoded(ops) = u
  BY DEF Encoded, u, saved
<1> QED  BY <1>4, <1>5, <1>7, <1>8 DEF L

(* Requests stay sent when their browser sends more.                       *)
LEMMA StaysSent ==
  ASSUME sent \in [Browsers -> Nat], sent' \in [Browsers -> Nat],
         \A b \in Browsers : sent[b] <= sent'[b],
         NEW r, IsSent(r)
  PROVE  IsSent(r)'
<1>1. r \in Requests /\ r.ctr \in 1..sent[r.from] /\ r.from \in Browsers
  BY DEF IsSent, Requests
<1>2. r.ctr \in 1..sent'[r.from]
  BY <1>1
<1> QED  BY <1>1, <1>2 DEF IsSent

(* A new request is typed, and those sent before stay so.                  *)
LEMMA SendKeeps ==
  ASSUME LogInv, NEW b \in Browsers, Send(b)
  PROVE  LogInv'
<1>1. /\ sent \in [Browsers -> 0..MaxSends] /\ known \subseteq Toplevels
      /\ \A r \in net : IsSent(r)
  BY DEF LogInv, ClientInv
<1>2. /\ sent[b] < MaxSends /\ sent' = [sent EXCEPT ![b] = @ + 1]
      /\ UNCHANGED <<ctr, rows, pc, job, saves, faults, latest>>
  BY DEF Send, server
<1>0. PICK n : n = sent[b] + 1
  OBVIOUS
<1>3. PICK ops :
        /\ \E edit \in Edits : ops \in Changes(edit, <<b, n>>)
        /\ net' = net \cup {[from |-> b, ctr |-> n, ops |-> Encoded(ops)]}
        /\ known' = known \cup Tlids(ops)
  BY <1>0 DEF Send
<1>4. MaxSends \in Nat /\ n \in 1..MaxSends /\ n \in Nat
  BY <1>0, <1>1, <1>2, BoundAssumption
<1>5. /\ sent' \in [Browsers -> 0..MaxSends] /\ sent'[b] = n
      /\ sent \in [Browsers -> Nat] /\ sent' \in [Browsers -> Nat]
      /\ \A c \in Browsers : sent[c] <= sent'[c]
  BY <1>0, <1>1, <1>2, <1>4
<1>6. /\ ops \in Seq(Ops) /\ Len(ops) \in Nat
      /\ \A i \in 1..Len(ops) : ops[i].by = <<b, n>>
  <2>1. PICK by : by = <<b, n>>
    OBVIOUS
  <2>2. IsChange(ops, by)
    BY <1>1, <1>3, <1>4, <2>1, ChangesTyped
  <2> QED  BY <2>1, <2>2, ChangeTyped
<1>7. /\ Encoded(ops) \in Seq(Ops)
      /\ \A i \in 1..Len(Encoded(ops)) : Encoded(ops)[i].by = <<b, n>>
  BY <1>4, <1>6, EncodedTyped
<1> HIDE DEF LogInv
<1>8. PICK q : q = [from |-> b, ctr |-> n, ops |-> Encoded(ops)]
  OBVIOUS
<1>81. IsSent(q)'
  <2>1. q \in Requests /\ q.from = b /\ q.ctr = n /\ q.ops = Encoded(ops)
    BY <1>4, <1>7, <1>8 DEF Requests
  <2>2. q.ctr \in 1..sent'[q.from]
    BY <1>4, <1>5, <2>1
  <2>3. \A i \in 1..Len(q.ops) : q.ops[i].by = <<q.from, q.ctr>>
    BY <1>7, <2>1
  <2> QED  BY <2>1, <2>2, <2>3 DEF IsSent
<1>9. ASSUME NEW r \in net'  PROVE IsSent(r)'
  <2>1. PICK x : x = r
    OBVIOUS
  <2>2. CASE x \in net
    <3>1. IsSent(x)
      BY <1>1, <2>2
    <3>2. IsSent(x)'
      BY <1>5, <3>1, StaysSent
    <3> QED  BY <2>1, <3>2
  <2> QED  BY <1>3, <1>8, <1>81, <2>1, <2>2
<1>10. known' \subseteq Toplevels
  <2>1. \A i \in DOMAIN ops : ops[i].tl \in Toplevels
    <3>1. \A i \in DOMAIN ops : ops[i] \in Ops
      BY <1>6, ElementOfSeq
    <3> QED  BY <3>1, OpsAbout
  <2> QED  BY <1>1, <1>3, <2>1 DEF Tlids
<1>11. ClientInv'
  BY <1>5, <1>9, <1>10 DEF ClientInv
<1>12. CountersInv'
  <2>1. CountersInv
    BY DEF LogInv
  <2>2. \A c \in Browsers : ctr[c] <= sent'[c]
    BY <1>5, <2>1 DEF CountersInv
  <2> QED  BY <1>2, <2>1, <2>2 DEF CountersInv
<1>13. JobsInv'
  <2>1. JobsInv
    BY DEF LogInv
  <2>2. \A s \in Servers : IsSent(job[s]) => IsSent(job[s])'
    <3>1. ASSUME NEW s \in Servers, IsSent(job[s])  PROVE IsSent(job[s])'
      <4> DEFINE r == job[s]
      <4>1. IsSent(r)
        BY <3>1
      <4>2. r \in Requests /\ r.from \in Browsers /\ r.ctr \in 1..sent[r.from]
        BY <4>1 DEF IsSent, Requests
      <4>3. r.ctr \in 1..sent'[r.from]
        BY <1>5, <4>2
      <4> QED  BY <1>2, <3>1, <4>2, <4>3 DEF IsSent
    <3> QED  BY <3>1
  <2>3. \A s \in Servers : \A t \in DOMAIN saves[s] :
          Renders(saves[s][t], t) => Renders(saves'[s][t], t)
    BY <1>2
  <2> QED  BY <1>2, <2>1, <2>2, <2>3 DEF JobsInv
<1>14. RowsInv' /\ (faults \in 0..MaxFaults)'
  BY <1>2 DEF LogInv, RowsInv
<1> QED  BY <1>11, <1>12, <1>13, <1>14 DEF LogInv

(* The rows that there are at the start render.                            *)
LEMMA NoRowRenders == ASSUME NEW t PROVE Renders(NoRow, t)
<1> DEFINE e == <<>>
<1>1. e \in Seq(Ops) /\ Len(e) = 0 /\ NoRow.ops = e /\ NoRow.shown = Nothing
  BY DEF NoRow
<1>2. Preprocess(e) = [ok |-> TRUE, ops |-> e] /\ Own(e, t) = e /\ Replay(e) = Nothing
  BY PreprocessShort, OwnEmpty, ReplayShort
<1> HIDE DEF e
<1>3. Replayed(e, t) = Nothing
  BY <1>2, ReplayedIs
<1> QED  BY <1>1, <1>2, <1>3 DEF Renders, RowOf

(* A row from before savepoints is one op, and shows it.                   *)
LEMMA OldRowRenders == ASSUME NEW t \in Toplevels PROVE Renders(OldRow(t), t)
<1> DEFINE op == Plain("set", t, Old)
           u == <<op>>
           shown == [by |-> Old, name |-> NoName, gone |-> FALSE]
<1>1. /\ op \in Ops /\ op.tl = t /\ op.kind = "set"
      /\ shown = [by |-> op.by, name |-> op.name, gone |-> FALSE]
  BY DEF Ops, Plain, Op, Old
<1>2. OldRow(t).ops = u /\ OldRow(t).shown = shown
  BY DEF OldRow
<1> HIDE DEF op, shown
<1>3. u \in Seq(Ops) /\ Len(u) = 1 /\ u[1] = op
  BY <1>1
<1>4. Preprocess(u) = [ok |-> TRUE, ops |-> u]
  BY <1>1, PreprocessShort
<1>5. Own(u, t) = u
  BY <1>1, OwnOne
<1>6. Replay(u) = shown
  BY <1>1, ReplayShort
<1>7. Replayed(u, t) = shown
  BY <1>5, <1>6, ReplayedIs
<1> HIDE DEF u
<1> QED  BY <1>1, <1>2, <1>3, <1>4, <1>7 DEF Renders, RowOf

(* At the start there is nothing but such rows.                            *)
LEMMA LogInit == Init => LogInv
<1> SUFFICES ASSUME Init PROVE LogInv
  OBVIOUS
<1>1. ClientInv
  BY BoundAssumption DEF Init, ClientInv, Toplevels
<1>2. CountersInv
  BY DEF Init, CountersInv
<1>3. RowsInv
  <2>1. \A t \in Toplevels : Renders(NoRow, t) /\ Renders(OldRow(t), t)
    BY NoRowRenders, OldRowRenders
  <2> QED  BY <2>1 DEF Init, RowsInv
<1>4. JobsInv
  BY DEF Init, JobsInv
<1>5. faults \in 0..MaxFaults
  BY BoundAssumption DEF Init
<1> QED  BY <1>1, <1>2, <1>3, <1>4, <1>5 DEF LogInv

(* A request is about toplevels, about one at least.                       *)
LEMMA TlidsTyped ==
  ASSUME NEW ops \in Seq(Ops)
  PROVE  Tlids(ops) \subseteq Toplevels /\ (ops # <<>> => Tlids(ops) # {})
<1>1. \A i \in DOMAIN ops : ops[i].tl \in Toplevels
  <2>1. \A i \in DOMAIN ops : ops[i] \in Ops
    BY ElementOfSeq
  <2> QED  BY <2>1, OpsAbout
<1>2. ops # <<>> => 1 \in DOMAIN ops
  OBVIOUS
<1> QED  BY <1>1, <1>2 DEF Tlids

(* What a request makes of a row renders, whatever else was loaded.        *)
LEMMA NewRowRenders ==
  ASSUME RowsInv, NEW ops \in Seq(Ops), NEW order \in SetToSeqs(Wanted(ops)),
         NEW r, r = Preprocess(Loaded(order) \o ops), r.ok, NEW t \in Tlids(ops)
  PROVE  Renders(NewRow(t, ops, r.ops), t)
<1> DEFINE W == Wanted(ops)
           all == Loaded(order) \o ops
           new == Own(all, t)
<1>1. W \subseteq Toplevels /\ IsFiniteSet(W)
  <2>1. W \subseteq Toplevels
    BY DEF Wanted
  <2> HIDE DEF W
  <2> QED  BY <2>1, FS_Subset, TlidAssumption
<1>2. t \in Toplevels
  BY TlidsTyped
<1>3. t \in W \/ rows[t] = NoRow
  BY <1>2 DEF Wanted
<1> HIDE DEF W
<1>4. PICK n \in Nat : /\ order \in [1..n -> W]
                       /\ \A i, j \in 1..n : i # j => order[i] # order[j]
                       /\ \A u \in W : \E j \in 1..n : order[j] = u
  <2>1. order \in SetToSeqs(W)
    BY DEF W
  <2> QED  BY <1>1, <2>1, WantedInOrder
<1>5. order \in [1..n -> Toplevels]
  BY <1>1, <1>4
<1>6. \A u \in Toplevels : RowOf(rows[u], u, Ops)
  BY DEF RowsInv, Renders
<1>7. /\ Loaded(order) \in Seq(Ops)
      /\ Own(Loaded(order), t) = IF \E j \in 1..n : order[j] = t THEN rows[t].ops ELSE <<>>
  BY <1>2, <1>4, <1>5, <1>6, LoadedOwn
<1>8. Own(Loaded(order), t) = rows[t].ops
  BY <1>3, <1>4, <1>7 DEF NoRow
<1>9. all \in Seq(Ops)
  BY <1>7, ConcatProperties
<1>10. new = rows[t].ops \o Own(ops, t)
  <2>1. PICK l : l = Loaded(order)
    OBVIOUS
  <2>2. Own(l \o ops, t) = Own(l, t) \o Own(ops, t)
    <3>1. l \in Seq(Ops)
      BY <1>7, <2>1
    <3> HIDE DEF all, new
    <3> QED  BY <3>1, OwnConcat
  <2> QED  BY <1>8, <2>1, <2>2
<1> HIDE DEF all
<1>11. Preprocess(new).ok /\ Preprocess(new).ops = Own(r.ops, t)
  BY <1>9, PreprocessOwn DEF all
<1>12. new \in Seq(Ops) /\ \A k \in 1..Len(new) : new[k].tl = t
  BY <1>9, OwnTyped
<1> DEFINE left == Own(r.ops, t)
<1>13. r.ops \in Seq(Ops)
  BY <1>9, PreprocessTyped DEF all
<1>14. left \in Seq(Ops) /\ \A k \in 1..Len(left) : left[k].tl = t
  BY <1>13, OwnTyped
<1>15. Replayed(r.ops, t) = Replay(left)
  BY ReplayedIs
<1> HIDE DEF new, left
<1>16. Own(left, t) = left
  BY <1>14, OwnAll
<1>17. Replayed(left, t) = Replay(left)
  BY <1>16, ReplayedIs
<1>18. NewRow(t, ops, r.ops) = [ops |-> new, shown |-> Replay(left)]
  BY <1>10, <1>15 DEF NewRow
<1>19. Preprocess(new).ok /\ Preprocess(new).ops = left
  BY <1>11 DEF left
<1> QED  BY <1>12, <1>17, <1>18, <1>19 DEF Renders, RowOf

-----------------------------------------------------------------------------
(* What is left of a late request has no order to keep.                    *)
LEMMA FilterLateTyped ==
  ASSUME NEW X, NEW ops \in Seq(X)
  PROVE  /\ FilterLate(ops) \in Seq(X) /\ Len(FilterLate(ops)) \in Nat
         /\ \A k \in 1..Len(FilterLate(ops)) :
              OrderFree(FilterLate(ops)[k]) /\ \E i \in 1..Len(ops) : FilterLate(ops)[k] = ops[i]
<1> DEFINE I == {i \in DOMAIN ops : OrderFree(ops[i])}
           p == Kept(ops, I)
<1>1. FilterLate(ops) = p
  BY DEF FilterLate
<1>2. \A i \in I : OrderFree(ops[i])
  OBVIOUS
<1> HIDE DEF I
<1>3. /\ p \in Seq(X) /\ Len(p) \in Nat
      /\ \A k \in 1..Len(p) : \E i \in 1..Len(ops) : i \in I /\ p[k] = ops[i]
  BY KeptMembers
<1> HIDE DEF p
<1>4. \A k \in 1..Len(p) : OrderFree(p[k]) /\ \E i \in 1..Len(ops) : p[k] = ops[i]
  <2> TAKE k \in 1..Len(p)
  <2>1. PICK i \in 1..Len(ops) : i \in I /\ p[k] = ops[i]
    BY <1>3
  <2> QED  BY <1>2, <2>1
<1> QED  BY <1>1, <1>3, <1>4

(* Most steps leave alone what browsers sent.                              *)
LEMMA ClientKept ==
  ASSUME ClientInv, sent' = sent, net' \subseteq net, known' = known
  PROVE  ClientInv'
<1>1. ASSUME NEW r \in net'  PROVE IsSent(r)'
  <2>1. IsSent(r)
    BY <1>1 DEF ClientInv
  <2> QED  BY <2>1 DEF IsSent
<1> QED  BY <1>1 DEF ClientInv

(* A request in hand stays one that was sent.                              *)
LEMMA JobKept ==
  ASSUME sent' = sent, NEW s, job'[s] = job[s], IsSent(job[s])
  PROVE  IsSent(job[s])'
  BY DEF IsSent

(* A server that has nothing in hand.                                      *)
LEMMA BackKeeps ==
  ASSUME JobsInv, sent' = sent, NEW s \in Servers, Back(s)
  PROVE  JobsInv'
<1>1. /\ pc' = [pc EXCEPT ![s] = "idle"]
      /\ job' = [job EXCEPT ![s] = NoJob]
      /\ saves' = [saves EXCEPT ![s] = NoSaves]
  BY DEF Back
<1>2. /\ pc' \in [Servers -> {"idle", "counted", "checked", "saving"}]
      /\ DOMAIN job' = Servers /\ DOMAIN saves' = Servers
  BY <1>1 DEF JobsInv
<1>3. pc'[s] = "idle" /\ job'[s] = NoJob /\ saves'[s] = NoSaves
  BY <1>1 DEF JobsInv
<1>4. \A u \in Servers : u # s => pc'[u] = pc[u] /\ job'[u] = job[u] /\ saves'[u] = saves[u]
  BY <1>1 DEF JobsInv
<1>5. \A u \in Servers : u # s => (IsSent(job[u]) => IsSent(job[u])')
  BY <1>4, JobKept
<1> QED  BY <1>2, <1>3, <1>4, <1>5 DEF JobsInv

-----------------------------------------------------------------------------
(* Each step keeps LogInv.                                                 *)
LEMMA ReceiveKeeps ==
  ASSUME LogInv, NEW s \in Servers, NEW r \in net, Receive(s, r)
  PROVE  LogInv'
<1>1. /\ pc[s] = "idle" /\ net' = net \ {r}
      /\ pc' = [pc EXCEPT ![s] = "counted"]
      /\ job' = [job EXCEPT ![s] = r]
      /\ UNCHANGED <<sent, known, rows, saves, faults, latest>>
      /\ ctr' = [ctr EXCEPT ![r.from] = IF @ < r.ctr THEN r.ctr ELSE @]
  BY DEF Receive, Take
<1>2. IsSent(r) /\ r.from \in Browsers /\ r.ctr \in 1..sent[r.from] /\ sent \in [Browsers -> 0..MaxSends]
  BY DEF LogInv, ClientInv, IsSent, Requests
<1>3. ClientInv'
  BY <1>1, ClientKept DEF LogInv
<1>4. CountersInv'
  <2>1. /\ ctr \in [Browsers -> Nat] /\ latest \in [Browsers -> Nat]
        /\ \A b \in Browsers : ctr[b] <= sent[b] /\ latest[b] <= ctr[b]
    BY DEF LogInv, CountersInv
  <2>2. r.ctr \in Nat /\ r.ctr <= sent[r.from]
    <3>1. sent[r.from] \in Nat
      BY <1>2, BoundAssumption
    <3> QED  BY <1>2, <3>1
  <2>3. ctr' \in [Browsers -> Nat]
    BY <1>1, <2>1, <2>2
  <2>4. \A b \in Browsers : ctr'[b] = IF b = r.from /\ ctr[b] < r.ctr THEN r.ctr ELSE ctr[b]
    BY <1>1, <2>1
  <2>5. \A b \in Browsers : ctr'[b] <= sent[b] /\ latest[b] <= ctr'[b]
    <3> TAKE b \in Browsers
    <3>1. ctr[b] \in Nat /\ latest[b] \in Nat /\ sent[b] \in Nat
      BY <1>2, <2>1, BoundAssumption
    <3>2. CASE b = r.from /\ ctr[b] < r.ctr
      BY <2>1, <2>2, <2>4, <3>1, <3>2
    <3>3. CASE ~(b = r.from /\ ctr[b] < r.ctr)
      BY <2>1, <2>4, <3>3
    <3> QED  BY <3>2, <3>3
  <2> QED  BY <1>1, <2>1, <2>3, <2>5 DEF CountersInv
<1>5. JobsInv'
  <2>1. JobsInv
    BY DEF LogInv
  <2>2. /\ pc' \in [Servers -> {"idle", "counted", "checked", "saving"}]
        /\ DOMAIN job' = Servers /\ DOMAIN saves' = Servers
    BY <1>1, <2>1 DEF JobsInv
  <2>3. pc'[s] = "counted" /\ job'[s] = r /\ saves'[s] = NoSaves
    BY <1>1, <2>1 DEF JobsInv
  <2>4. \A u \in Servers : u # s => pc'[u] = pc[u] /\ job'[u] = job[u] /\ saves'[u] = saves[u]
    BY <1>1, <2>1 DEF JobsInv
  <2>5. \A u \in Servers : u # s => (IsSent(job[u]) => IsSent(job[u])')
    BY <1>1, <2>4, JobKept
  <2>6. IsSent(job[s])'
    BY <1>1, <1>2, <2>3 DEF IsSent
  <2> QED  BY <2>1, <2>2, <2>3, <2>4, <2>5, <2>6 DEF JobsInv
<1> QED  BY <1>1, <1>3, <1>4, <1>5 DEF LogInv, RowsInv

(* The judgement raises latest to ctr, or filters the request.             *)
LEMMA CheckLatestKeeps ==
  ASSUME LogInv, NEW s \in Servers, CheckLatest(s)
  PROVE  LogInv'
<1>1. /\ pc[s] = "counted" /\ pc' = [pc EXCEPT ![s] = "checked"]
      /\ UNCHANGED <<sent, net, known, ctr, rows, saves, faults>>
  BY DEF CheckLatest, client
<1>0. PICK r : r = job[s]
  OBVIOUS
<1>2. \/ /\ ctr[r.from] = r.ctr
         /\ latest' = [latest EXCEPT ![r.from] = r.ctr]
         /\ job' = job
      \/ /\ job' = [job EXCEPT ![s].ops = FilterLate(r.ops)]
         /\ latest' = latest
  BY <1>0 DEF CheckLatest
<1>3. JobsInv /\ CountersInv
  BY DEF LogInv
<1>4. IsSent(r) /\ r \in Requests /\ r.from \in Browsers /\ r.ctr \in Nat /\ r.ops \in Seq(Ops)
  BY <1>0, <1>1, <1>3 DEF JobsInv, IsSent, Requests
<1>5. ClientInv'
  BY <1>1, ClientKept DEF LogInv
<1>6. CountersInv'
  <2>1. CASE latest' = latest
    BY <1>1, <1>3, <2>1 DEF CountersInv
  <2>2. CASE ctr[r.from] = r.ctr /\ latest' = [latest EXCEPT ![r.from] = r.ctr]
    <3>1. latest' \in [Browsers -> Nat] /\ \A b \in Browsers : latest'[b] = IF b = r.from THEN ctr[b] ELSE latest[b]
      BY <1>3, <1>4, <2>2 DEF CountersInv
    <3> QED  BY <1>1, <1>3, <3>1 DEF CountersInv
  <2> QED  BY <1>2, <2>1, <2>2
<1>7. DOMAIN job' = Servers /\ \A u \in Servers : u # s => job'[u] = job[u]
  BY <1>2, <1>3 DEF JobsInv
<1>8. IsSent(job[s])'
  <2>1. CASE job' = job
    BY <1>0, <1>1, <1>4, <2>1 DEF IsSent
  <2>2. CASE job' = [job EXCEPT ![s].ops = FilterLate(r.ops)]
    <3>1. PICK q : q = job'[s]
      OBVIOUS
    <3>2. q = [r EXCEPT !.ops = FilterLate(r.ops)]
      BY <1>0, <1>3, <2>2, <3>1 DEF JobsInv
    <3>3. PICK ops : ops = FilterLate(r.ops)
      OBVIOUS
    <3>4. /\ ops \in Seq(Ops)
          /\ \A k \in 1..Len(ops) : \E i \in 1..Len(r.ops) : ops[k] = r.ops[i]
      BY <1>4, <3>3, FilterLateTyped
    <3>5. q \in Requests /\ q.from = r.from /\ q.ctr = r.ctr /\ q.ops = ops
      BY <1>4, <3>2, <3>3, <3>4 DEF Requests
    <3>6. \A i \in 1..Len(q.ops) : q.ops[i].by = <<q.from, q.ctr>>
      BY <1>4, <3>4, <3>5 DEF IsSent
    <3>7. IsSent(q)
      BY <1>4, <3>5, <3>6 DEF IsSent
    <3> QED  BY <1>1, <3>1, <3>7 DEF IsSent
  <2> QED  BY <1>2, <2>1, <2>2
<1>9. JobsInv'
  <2>2. /\ pc' \in [Servers -> {"idle", "counted", "checked", "saving"}]
        /\ DOMAIN saves' = Servers
    BY <1>1, <1>3 DEF JobsInv
  <2>3. pc'[s] = "checked" /\ saves'[s] = NoSaves
    BY <1>1, <1>3 DEF JobsInv
  <2>4. \A u \in Servers : u # s => pc'[u] = pc[u] /\ job'[u] = job[u] /\ saves'[u] = saves[u]
    BY <1>1, <1>3, <1>7 DEF JobsInv
  <2>5. \A u \in Servers : u # s => (IsSent(job[u]) => IsSent(job[u])')
    BY <1>1, <2>4, JobKept
  <2> QED  BY <1>3, <1>7, <1>8, <2>2, <2>3, <2>4, <2>5 DEF JobsInv
<1> QED  BY <1>1, <1>5, <1>6, <1>9 DEF LogInv, RowsInv

(* A step that takes a server back to idle and leaves the rows alone.      *)
LEMMA IdleKeeps ==
  ASSUME LogInv, NEW s \in Servers, Back(s), UNCHANGED <<client, ctr, rows, latest>>,
         faults' \in 0..MaxFaults
  PROVE  LogInv'
<1>1. UNCHANGED <<sent, net, known>>
  BY DEF client
<1>2. ClientInv' /\ JobsInv'
  BY <1>1, ClientKept, BackKeeps DEF LogInv
<1> QED  BY <1>1, <1>2 DEF LogInv, CountersInv, RowsInv

(* The rows about to be saved render: NewRowRenders.                       *)
LEMMA AcceptKeeps ==
  ASSUME LogInv, NEW s \in Servers, pc[s] = "checked", job[s].ops # <<>>,
         NEW order \in SetToSeqs(Wanted(job[s].ops)),
         NEW result, result = Preprocess(Loaded(order) \o job[s].ops), Accept(s, result)
  PROVE  LogInv'
<1>0. PICK r : r = job[s]
  OBVIOUS
<1>00. PICK ops : ops = r.ops
  OBVIOUS
<1>1. /\ result.ok /\ pc' = [pc EXCEPT ![s] = "saving"]
      /\ saves' = [saves EXCEPT ![s] = [t \in Tlids(ops) |-> NewRow(t, ops, result.ops)]]
      /\ UNCHANGED <<sent, net, known, ctr, rows, job, faults, latest>>
  BY <1>0, <1>00 DEF Accept, client
<1>2. JobsInv /\ RowsInv
  BY DEF LogInv
<1>3. IsSent(r) /\ ops \in Seq(Ops) /\ ops # <<>>
  BY <1>0, <1>00, <1>2 DEF JobsInv, IsSent, Requests
<1>4. ClientInv'
  BY <1>1, ClientKept DEF LogInv
<1>5. /\ order \in SetToSeqs(Wanted(ops))
      /\ result = Preprocess(Loaded(order) \o ops)
  BY <1>0, <1>00
<1>6. \A t \in Tlids(ops) : Renders(NewRow(t, ops, result.ops), t)
  BY <1>1, <1>2, <1>3, <1>5, NewRowRenders
<1>7. Tlids(ops) # {}
  BY <1>3, TlidsTyped
<1>8. JobsInv'
  <2>1. PICK new : new = saves'[s]
    OBVIOUS
  <2>2. new = [t \in Tlids(ops) |-> NewRow(t, ops, result.ops)]
    BY <1>1, <1>2, <2>1 DEF JobsInv
  <2>3. DOMAIN new # {} /\ DOMAIN new \subseteq Tlids(ops) /\ \A t \in DOMAIN new : Renders(new[t], t)
    BY <1>6, <1>7, <2>2
  <2>4. /\ pc' \in [Servers -> {"idle", "counted", "checked", "saving"}]
        /\ DOMAIN job' = Servers /\ DOMAIN saves' = Servers
    BY <1>1, <1>2 DEF JobsInv
  <2>5. pc'[s] = "saving" /\ job'[s] = r /\ job'[s].ops = ops
    BY <1>0, <1>00, <1>1, <1>2 DEF JobsInv
  <2>6. \A u \in Servers : u # s => pc'[u] = pc[u] /\ job'[u] = job[u] /\ saves'[u] = saves[u]
    BY <1>1, <1>2 DEF JobsInv
  <2>7. \A u \in Servers : IsSent(job[u]) => IsSent(job[u])'
    BY <1>1, JobKept
  <2>8. IsSent(job[s])'
    BY <1>0, <1>3, <2>7
  <2>9. \A u \in Servers : u # s =>
          /\ IF pc'[u] = "idle" THEN job'[u] = NoJob ELSE IsSent(job[u])'
          /\ IF pc'[u] = "saving"
               THEN /\ DOMAIN saves'[u] # {} /\ DOMAIN saves'[u] \subseteq Tlids(job'[u].ops)
                    /\ \A t \in DOMAIN saves'[u] : Renders(saves'[u][t], t)
               ELSE saves'[u] = NoSaves
    BY <1>2, <2>6, <2>7 DEF JobsInv
  <2>10. /\ DOMAIN saves'[s] # {} /\ DOMAIN saves'[s] \subseteq Tlids(job'[s].ops)
         /\ \A t \in DOMAIN saves'[s] : Renders(saves'[s][t], t)
    BY <2>1, <2>3, <2>5
  <2> QED  BY <2>4, <2>5, <2>8, <2>9, <2>10 DEF JobsInv
<1> QED  BY <1>1, <1>4, <1>8 DEF LogInv, CountersInv, RowsInv

(* A row that renders replaces one that does.                              *)
LEMMA SaveKeeps ==
  ASSUME LogInv, NEW s \in Servers, NEW t \in Toplevels, Save(s, t)
  PROVE  LogInv'
<1>1. /\ pc[s] = "saving" /\ t \in DOMAIN saves[s]
      /\ rows' = [rows EXCEPT ![t] = saves[s][t]]
      /\ UNCHANGED <<sent, net, known, ctr, faults, latest>>
  BY DEF Save, client
<1>2. JobsInv /\ RowsInv
  BY DEF LogInv
<1>3. ClientInv'
  BY <1>1, ClientKept DEF LogInv
<1>4. RowsInv'
  <2>1. Renders(saves[s][t], t)
    BY <1>1, <1>2 DEF JobsInv
  <2>2. DOMAIN rows' = Toplevels /\ rows'[t] = saves[s][t]
        /\ \A u \in Toplevels : u # t => rows'[u] = rows[u]
    BY <1>1, <1>2 DEF RowsInv
  <2>3. \A u \in Toplevels : Renders(rows'[u], u)
    BY <1>2, <2>1, <2>2 DEF RowsInv
  <2> QED  BY <2>2, <2>3 DEF RowsInv
<1>5. JobsInv'
  <2>1. CASE DOMAIN saves[s] = {t}
    <3>1. Back(s)
      BY <2>1 DEF Save
    <3> QED  BY <1>1, <1>2, <3>1, BackKeeps
  <2>2. CASE DOMAIN saves[s] # {t}
    <3>0. PICK old : old = saves[s]
      OBVIOUS
    <3>1. /\ saves' = [saves EXCEPT ![s] = [u \in DOMAIN old \ {t} |-> old[u]]]
          /\ pc' = pc /\ job' = job
      BY <2>2, <3>0 DEF Save
    <3>2. PICK new : new = saves'[s]
      OBVIOUS
    <3>3. new = [u \in DOMAIN old \ {t} |-> old[u]] /\ DOMAIN saves' = Servers
      BY <1>2, <3>1, <3>2 DEF JobsInv
    <3>4. DOMAIN new = DOMAIN old \ {t} /\ \A u \in DOMAIN new : new[u] = old[u]
      BY <3>3
    <3>5. /\ DOMAIN old # {t} /\ t \in DOMAIN old /\ DOMAIN old \subseteq Tlids(job[s].ops)
          /\ \A u \in DOMAIN old : Renders(old[u], u)
      BY <1>1, <1>2, <2>2, <3>0 DEF JobsInv
    <3>6. DOMAIN new # {} /\ DOMAIN new \subseteq Tlids(job[s].ops) /\ \A u \in DOMAIN new : Renders(new[u], u)
      BY <3>4, <3>5
    <3>7. \A u \in Servers : u # s => saves'[u] = saves[u]
      BY <1>2, <3>1 DEF JobsInv
    <3>8. \A u \in Servers : IsSent(job[u]) => IsSent(job[u])'
      BY <1>1, <3>1, JobKept
    <3>9. \A u \in Servers : u # s =>
            /\ IF pc'[u] = "idle" THEN job'[u] = NoJob ELSE IsSent(job[u])'
            /\ IF pc'[u] = "saving"
                 THEN /\ DOMAIN saves'[u] # {} /\ DOMAIN saves'[u] \subseteq Tlids(job'[u].ops)
                      /\ \A v \in DOMAIN saves'[u] : Renders(saves'[u][v], v)
                 ELSE saves'[u] = NoSaves
      BY <1>2, <3>1, <3>7, <3>8 DEF JobsInv
    <3>10. /\ DOMAIN saves'[s] # {} /\ DOMAIN saves'[s] \subseteq Tlids(job'[s].ops)
           /\ \A v \in DOMAIN saves'[s] : Renders(saves'[s][v], v)
      BY <3>1, <3>2, <3>6
    <3>11. pc'[s] = "saving" /\ IsSent(job[s])'
      BY <1>1, <1>2, <3>1, <3>8 DEF JobsInv
    <3>12. pc' \in [Servers -> {"idle", "counted", "checked", "saving"}] /\ DOMAIN job' = Servers
      BY <1>2, <3>1 DEF JobsInv
    <3> QED  BY <3>3, <3>9, <3>10, <3>11, <3>12 DEF JobsInv
  <2> QED  BY <2>1, <2>2
<1> QED  BY <1>1, <1>3, <1>4, <1>5 DEF LogInv, CountersInv

(* Every step keeps the invariant.                                         *)
LEMMA LogStep == LogInv /\ [Next]_vars => LogInv'
<1> SUFFICES ASSUME LogInv, [Next]_vars PROVE LogInv'
  OBVIOUS
<1> HIDE DEF LogInv
<1>1. ASSUME NEW b \in Browsers, Send(b) PROVE LogInv'
  BY <1>1, SendKeeps
<1>2. ASSUME NEW s \in Servers, NEW r \in net, Receive(s, r) PROVE LogInv'
  BY <1>2, ReceiveKeeps
<1>3. ASSUME NEW s \in Servers, CheckLatest(s) PROVE LogInv'
  BY <1>3, CheckLatestKeeps
<1>0. faults \in 0..MaxFaults
  BY DEF LogInv
<1>4. ASSUME NEW s \in Servers, NothingToDo(s) PROVE LogInv'
  BY <1>0, <1>4, IdleKeeps DEF NothingToDo
<1>5. ASSUME NEW s \in Servers, Load(s) PROVE LogInv'
  <2>1. /\ pc[s] = "checked" /\ job[s].ops # <<>>
        /\ \E order \in SetToSeqs(Wanted(job[s].ops)) :
             \E result \in {Preprocess(Loaded(order) \o job[s].ops)} :
               Accept(s, result) \/ Reject(s, result)
    BY <1>5 DEF Load
  <2>2. PICK order \in SetToSeqs(Wanted(job[s].ops)) :
          \E result \in {Preprocess(Loaded(order) \o job[s].ops)} :
             Accept(s, result) \/ Reject(s, result)
    BY <2>1, Zenon
  <2>3. PICK result \in {Preprocess(Loaded(order) \o job[s].ops)} :
          Accept(s, result) \/ Reject(s, result)
    BY <2>2, Zenon
  <2>4. result = Preprocess(Loaded(order) \o job[s].ops)
    BY <2>3, Zenon
  <2>5. CASE Accept(s, result)
    BY <2>1, <2>2, <2>4, <2>5, AcceptKeeps
  <2>6. CASE Reject(s, result)
    BY <1>0, <2>6, IdleKeeps DEF Reject
  <2> QED  BY <2>3, <2>5, <2>6
<1>6. ASSUME NEW s \in Servers, NEW t \in Toplevels, Save(s, t) PROVE LogInv'
  BY <1>6, SaveKeeps
<1>7. ASSUME NEW s \in Servers, ServerDies(s) PROVE LogInv'
  <2>1. Back(s) /\ UNCHANGED <<client, ctr, rows, latest>> /\ faults < MaxFaults /\ faults' = faults + 1
    BY <1>7 DEF ServerDies
  <2>2. faults' \in 0..MaxFaults
    BY <1>0, <2>1, BoundAssumption
  <2> QED  BY <2>1, <2>2, IdleKeeps
<1>8. CASE UNCHANGED vars
  <2>1. UNCHANGED <<sent, net, known, ctr, rows, pc, job, saves, faults, latest>>
    BY <1>8 DEF vars, client, server
  <2>2. ClientInv'
    BY <2>1, ClientKept DEF LogInv
  <2>3. \A u \in Servers : IsSent(job[u]) => IsSent(job[u])'
    BY <2>1, JobKept
  <2> QED  BY <2>1, <2>2, <2>3 DEF LogInv, CountersInv, RowsInv, JobsInv
<1> QED  BY <1>1, <1>2, <1>3, <1>4, <1>5, <1>6, <1>7, <1>8 DEF Next, Handle

(* The invariant has the types in it.                                      *)
LEMMA LogTypeOK == LogInv => TypeOK
<1> SUFFICES ASSUME LogInv PROVE TypeOK
  OBVIOUS
<1>1. sent \in [Browsers -> 0..MaxSends] /\ known \subseteq Toplevels /\ faults \in 0..MaxFaults
  BY DEF LogInv, ClientInv
<1>2. \A r \in net : r.from \in Browsers /\ r.ctr \in 1..sent[r.from]
  BY DEF LogInv, ClientInv, IsSent, Requests
<1>3. \A b \in Browsers : ctr[b] \in 0..sent[b] /\ latest[b] \in 0..ctr[b]
  BY <1>1, BoundAssumption DEF LogInv, CountersInv
<1>4. DOMAIN rows = Toplevels /\ \A t \in Toplevels : Tlids(rows[t].ops) \subseteq {t}
  <2>1. ASSUME NEW t \in Toplevels  PROVE Tlids(rows[t].ops) \subseteq {t}
    <3>1. rows[t].ops \in Seq(Ops) /\ \A i \in 1..Len(rows[t].ops) : rows[t].ops[i].tl = t
      BY DEF LogInv, RowsInv, Renders, RowOf
    <3>2. DOMAIN rows[t].ops = 1..Len(rows[t].ops)
      BY <3>1, LenProperties
    <3> QED  BY <3>1, <3>2 DEF Tlids
  <2> QED  BY <2>1 DEF LogInv, RowsInv
<1>5. JobsInv
  BY DEF LogInv
<1>6. ASSUME NEW s \in Servers
      PROVE  /\ pc[s] = "idle" <=> job[s] = NoJob
             /\ pc[s] # "saving" <=> saves[s] = NoSaves
             /\ DOMAIN saves[s] \subseteq Tlids(job[s].ops)
  <2>1. NoJob.ctr = 0 /\ DOMAIN NoSaves = {}
    BY DEF NoJob, NoSaves
  <2>2. pc[s] = "idle" => job[s] = NoJob
    BY <1>5 DEF JobsInv
  <2>3. pc[s] # "idle" => job[s].ctr # 0
    <3>1. pc[s] # "idle" => job[s].from \in Browsers /\ job[s].ctr \in 1..sent[job[s].from]
      BY <1>5 DEF JobsInv, IsSent, Requests
    <3> QED  BY <1>1, <3>1, BoundAssumption
  <2>4. pc[s] # "saving" => saves[s] = NoSaves
    BY <1>5 DEF JobsInv
  <2>5. pc[s] = "saving" => DOMAIN saves[s] # {} /\ DOMAIN saves[s] \subseteq Tlids(job[s].ops)
    BY <1>5 DEF JobsInv
  <2> QED  BY <2>1, <2>2, <2>3, <2>4, <2>5
<1>7. pc \in [Servers -> {"idle", "counted", "checked", "saving"}]
  BY <1>5 DEF JobsInv
<1> QED  BY <1>1, <1>2, <1>3, <1>4, <1>6, <1>7 DEF TypeOK

(* And that rows render.                                                   *)
LEMMA LogRendered == LogInv => RenderedMatches
  BY DEF LogInv, RowsInv, Renders, RenderedMatches

(* It holds always.                                                        *)
LEMMA LogSafe == Spec => []LogInv
  BY LogInit, LogStep, PTL DEF Spec

(* TypeOK of OpLog, for any browsers, servers and toplevels.               *)
THEOREM LogTyped == Spec => []TypeOK
  BY LogSafe, LogTypeOK, PTL

(* canvas.ml (add_ops, serialize_only) renders a row from the ops of all   *)
(* that was loaded, and stores it with its own ops only.                   *)
THEOREM RowsRender == Spec => []RenderedMatches
  BY LogSafe, LogRendered, PTL

-----------------------------------------------------------------------------
(* A list is a prefix of itself and of what extends it.                    *)
LEMMA PrefixConcat ==
  ASSUME NEW X, NEW s \in Seq(X), NEW u \in Seq(X)
  PROVE  IsPrefix(s, s) /\ IsPrefix(s, s \o u)
  BY DEF IsPrefix

(* At the start a row has one op at most.                                  *)
LEMMA LoneInit == Init /\ LogInv => LoneInv
<1> SUFFICES ASSUME Init, LogInv PROVE LoneInv
  OBVIOUS
<1>1. \A t \in Toplevels : rows[t].ops = <<>> \/ rows[t].ops = <<Plain("set", t, Old)>>
  <2>1. \A t \in Toplevels : rows[t] = NoRow \/ rows[t] = OldRow(t)
    BY DEF Init
  <2>2. \A t : NoRow.ops = <<>> /\ OldRow(t).ops = <<Plain("set", t, Old)>>
    BY DEF NoRow, OldRow
  <2> QED  BY <2>1, <2>2
<1>2. ASSUME NEW t \in Toplevels
      PROVE  /\ DOMAIN rows[t].ops = 1..Len(rows[t].ops)
             /\ \A i \in 1..Len(rows[t].ops) : i = 1 /\ rows[t].ops[i].by[2] = 0
  <2>1. PICK ops : ops = rows[t].ops
    OBVIOUS
  <2>2. PICK op : op = Plain("set", t, Old)
    OBVIOUS
  <2>3. op.by[2] = 0
    BY <2>2 DEF Plain, Op, Old
  <2>4. ops = <<>> \/ ops = <<op>>
    BY <1>1, <2>1, <2>2
  <2>41. ops = <<>> => Len(ops) = 0
    OBVIOUS
  <2>42. ops = <<op>> => Len(ops) = 1 /\ ops[1] = op
    OBVIOUS
  <2>43. ops \in Seq({op})
    <3>1. <<>> \in Seq({op}) /\ <<op>> \in Seq({op})
      OBVIOUS
    <3> QED  BY <2>4, <3>1
  <2>44. DOMAIN ops = 1..Len(ops)
    BY <2>43, LenProperties
  <2>45. Len(ops) = 0 \/ (Len(ops) = 1 /\ ops[1] = op)
    BY <2>4, <2>41, <2>42
  <2>46. \A i \in 1..Len(ops) : i = 1 /\ ops[i] = op
    <3>1. PICK n : n = Len(ops)
      OBVIOUS
    <3>2. n = 0 \/ (n = 1 /\ ops[1] = op)
      BY <2>45, <3>1
    <3>3. \A i \in 1..n : i = 1 /\ ops[i] = op
      BY <3>2
    <3> QED  BY <3>1, <3>3
  <2>5. DOMAIN ops = 1..Len(ops) /\ \A i \in 1..Len(ops) : i = 1 /\ ops[i].by[2] = 0
    BY <2>3, <2>44, <2>46
  <2> QED  BY <2>1, <2>5
<1>4. StoredInv
  BY <1>2 DEF StoredInv
<1>5. InOrder
  <2>1. \A i \in 1..(1 - 1) : FALSE
    OBVIOUS
  <2> QED  BY <1>2, <2>1 DEF InOrder
<1>6. AtWorkInv
  BY DEF Init, AtWorkInv
<1> QED  BY <1>4, <1>5, <1>6 DEF LoneInv

(* What one server is going to save extends the rows as they are.          *)
LEMMA SaveExtends ==
  ASSUME LogInv, AtWorkInv, NEW s \in Servers, NEW t \in Toplevels, Save(s, t)
  PROVE  /\ DOMAIN rows' = Toplevels
         /\ rows'[t].ops = rows[t].ops \o Own(job[s].ops, t)
         /\ \A u \in Toplevels : u # t => rows'[u] = rows[u]
         /\ rows[t].ops \in Seq(Ops) /\ Own(job[s].ops, t) \in Seq(Ops)
<1>1. pc[s] = "saving" /\ t \in DOMAIN saves[s] /\ rows' = [rows EXCEPT ![t] = saves[s][t]]
  BY DEF Save
<1>2. saves[s][t].ops = rows[t].ops \o Own(job[s].ops, t)
  BY <1>1 DEF AtWorkInv
<1>3. DOMAIN rows = Toplevels /\ rows[t].ops \in Seq(Ops)
  BY DEF LogInv, RowsInv, Renders, RowOf
<1>4. job[s].ops \in Seq(Ops)
  BY <1>1 DEF LogInv, JobsInv, IsSent, Requests
<1>5. Own(job[s].ops, t) \in Seq(Ops)
  BY <1>4, OwnTyped
<1> QED  BY <1>1, <1>2, <1>3, <1>5

(* The ops that a request adds to a row and that depend on their order are *)
(* of the latest request of its browser.                                   *)
LEMMA AddedAreLatest ==
  ASSUME LogInv, AtWorkInv, NEW s \in Servers, pc[s] = "saving", NEW t
  PROVE  LET added == Own(job[s].ops, t) IN
         \A k \in 1..Len(added) : Ordered(added[k]) =>
           added[k].by[1] \in Browsers /\ added[k].by[1] = job[s].from
             /\ added[k].by[2] = latest[job[s].from]
<1>0. PICK r : r = job[s]
  OBVIOUS
<1>1. r.from \in Browsers /\ r.ops \in Seq(Ops) /\ \A i \in 1..Len(r.ops) : r.ops[i].by = <<r.from, r.ctr>>
  BY <1>0 DEF LogInv, JobsInv, IsSent, Requests
<1>2. r.ctr = latest[r.from] \/ \A i \in 1..Len(r.ops) : OrderFree(r.ops[i])
  BY <1>0 DEF AtWorkInv
<1>3. PICK added : added = Own(r.ops, t)
  OBVIOUS
<1>4. \A k \in 1..Len(added) : \E i \in 1..Len(r.ops) : added[k] = r.ops[i]
  BY <1>1, <1>3, OwnTyped
<1>5. \A k \in 1..Len(added) : Ordered(added[k]) =>
        added[k].by[1] \in Browsers /\ added[k].by[1] = r.from /\ added[k].by[2] = latest[r.from]
  <2> TAKE k \in 1..Len(added)
  <2>1. PICK i \in 1..Len(r.ops) : added[k] = r.ops[i]
    BY <1>4
  <2> QED  BY <1>1, <1>2, <2>1 DEF Ordered
<1> QED  BY <1>0, <1>3, <1>5

(* Nothing is stored by steps other than Save.                             *)
LEMMA IdleLone ==
  ASSUME LoneInv, UNCHANGED <<rows, latest>>, DOMAIN job = Servers, DOMAIN pc = Servers,
         NEW s \in Servers, Servers = {s}, pc'[s] \notin {"checked", "saving"}
  PROVE  LoneInv'
<1>1. StoredInv' /\ InOrder'
  BY DEF LoneInv, StoredInv, InOrder
<1>2. AtWorkInv'
  BY DEF AtWorkInv
<1> QED  BY <1>1, <1>2 DEF LoneInv

(* latest only rises, and the request is it, or has no order to keep.      *)
LEMMA CheckLatestLone ==
  ASSUME LogInv, LoneInv, NEW s \in Servers, Servers = {s}, CheckLatest(s)
  PROVE  LoneInv'
<1>1. pc[s] = "counted" /\ pc' = [pc EXCEPT ![s] = "checked"] /\ rows' = rows
  BY DEF CheckLatest
<1>0. PICK r : r = job[s]
  OBVIOUS
<1>2. \/ /\ ctr[r.from] = r.ctr
         /\ latest' = [latest EXCEPT ![r.from] = r.ctr]
         /\ job' = job
      \/ /\ job' = [job EXCEPT ![s].ops = FilterLate(r.ops)]
         /\ latest' = latest
  BY <1>0 DEF CheckLatest
<1>3. r.from \in Browsers /\ r.ctr \in Nat /\ r.ops \in Seq(Ops) /\ DOMAIN job = Servers /\ pc' [s] = "checked"
  BY <1>0, <1>1 DEF LogInv, JobsInv, IsSent, Requests
<1>4. /\ ctr \in [Browsers -> Nat] /\ latest \in [Browsers -> Nat]
      /\ \A b \in Browsers : latest[b] <= ctr[b]
  BY DEF LogInv, CountersInv
<1>5. latest' \in [Browsers -> Nat] /\ \A b \in Browsers : latest[b] <= latest'[b]
  <2>1. CASE latest' = latest
    BY <1>4, <2>1
  <2>2. CASE ctr[r.from] = r.ctr /\ latest' = [latest EXCEPT ![r.from] = r.ctr]
    <3>1. /\ latest' \in [Browsers -> Nat]
          /\ \A b \in Browsers : latest'[b] = IF b = r.from THEN ctr[b] ELSE latest[b]
      BY <1>3, <1>4, <2>2
    <3> QED  BY <1>4, <3>1
  <2> QED  BY <1>2, <2>1, <2>2
<1>6. StoredInv'
  <2>1. ASSUME NEW t \in Toplevels, NEW i \in 1..Len(rows[t].ops), Ordered(rows[t].ops[i])
        PROVE  \/ rows[t].ops[i].by[2] = 0
               \/ rows[t].ops[i].by[1] \in Browsers /\ rows[t].ops[i].by[2] <= latest'[rows[t].ops[i].by[1]]
    <3>1. PICK op : op = rows[t].ops[i]
      OBVIOUS
    <3>2. op.by[2] = 0 \/ (op.by[1] \in Browsers /\ op.by[2] <= latest[op.by[1]])
      BY <2>1, <3>1 DEF LoneInv, StoredInv
    <3>3. op.by[2] \in Nat
      <4>1. rows[t].ops \in Seq(Ops)
        BY DEF LogInv, RowsInv, Renders, RowOf
      <4>2. op \in Ops
        BY <3>1, <4>1, ElementOfSeq
      <4> QED  BY <4>2 DEF Ops
    <3> QED  BY <1>4, <1>5, <3>1, <3>2, <3>3
  <2> QED  BY <1>1, <2>1 DEF StoredInv
<1>7. InOrder'
  BY <1>1 DEF LoneInv, InOrder
<1>8. \/ job'[s].ctr = latest'[job'[s].from]
      \/ \A i \in 1..Len(job'[s].ops) : OrderFree(job'[s].ops[i])
  <2>1. CASE latest' = [latest EXCEPT ![r.from] = r.ctr] /\ job' = job
    BY <1>0, <1>3, <1>4, <2>1
  <2>2. CASE job' = [job EXCEPT ![s].ops = FilterLate(r.ops)]
    <3>1. PICK ops : ops = FilterLate(r.ops)
      OBVIOUS
    <3>2. \A i \in 1..Len(ops) : OrderFree(ops[i])
      BY <1>3, <3>1, FilterLateTyped
    <3>3. job'[s].ops = ops
      BY <1>0, <1>3, <2>2, <3>1
    <3> QED  BY <3>2, <3>3
  <2> QED  BY <1>2, <2>1, <2>2
<1>9. AtWorkInv'
  BY <1>3, <1>8 DEF AtWorkInv
<1> QED  BY <1>6, <1>7, <1>9 DEF LoneInv

(* What was loaded is still there when it is saved: nobody else writes.    *)
LEMMA AcceptLone ==
  ASSUME LogInv, LoneInv, NEW s \in Servers, Servers = {s}, pc[s] = "checked",
         NEW result, Accept(s, result)
  PROVE  LoneInv'
<1>0. PICK ops : ops = job[s].ops
  OBVIOUS
<1>1. /\ pc' = [pc EXCEPT ![s] = "saving"]
      /\ saves' = [saves EXCEPT ![s] = [t \in Tlids(ops) |-> NewRow(t, ops, result.ops)]]
      /\ UNCHANGED <<rows, job, latest>>
  BY <1>0 DEF Accept
<1>2. StoredInv' /\ InOrder'
  BY <1>1 DEF LoneInv, StoredInv, InOrder
<1>3. DOMAIN saves = Servers
  BY DEF LogInv, JobsInv
<1>4. PICK new : new = saves'[s]
  OBVIOUS
<1>5. new = [t \in Tlids(ops) |-> NewRow(t, ops, result.ops)]
  BY <1>1, <1>3, <1>4
<1>6. \A t \in DOMAIN new : new[t].ops = rows[t].ops \o Own(ops, t)
  BY <1>5 DEF NewRow
<1>7. \A t \in DOMAIN saves'[s] : saves'[s][t].ops = rows'[t].ops \o Own(job'[s].ops, t)
  BY <1>0, <1>1, <1>4, <1>6
<1>8. \/ job'[s].ctr = latest'[job'[s].from]
      \/ \A i \in 1..Len(job'[s].ops) : OrderFree(job'[s].ops[i])
  BY <1>1 DEF LoneInv, AtWorkInv
<1>9. AtWorkInv'
  BY <1>7, <1>8 DEF AtWorkInv
<1> QED  BY <1>2, <1>9 DEF LoneInv

(* The ops added come after all that the row has of their browser.         *)
LEMMA SaveLone ==
  ASSUME LogInv, LoneInv, NEW s \in Servers, Servers = {s}, NEW t \in Toplevels, Save(s, t)
  PROVE  LoneInv'
<1>1. pc[s] = "saving" /\ t \in DOMAIN saves[s] /\ latest' = latest
  BY DEF Save
<1>0. PICK added : added = Own(job[s].ops, t)
  OBVIOUS
<1>00. PICK old : old = rows[t].ops
  OBVIOUS
<1>01. PICK new : new = rows'[t].ops
  OBVIOUS
<1>2. /\ new = old \o added /\ old \in Seq(Ops) /\ added \in Seq(Ops)
      /\ \A u \in Toplevels : u # t => rows'[u] = rows[u]
  BY <1>0, <1>00, <1>01, SaveExtends DEF LoneInv
<1>3. PICK b : b = job[s].from
  OBVIOUS
<1>4. \A k \in 1..Len(added) : Ordered(added[k]) =>
        b \in Browsers /\ added[k].by[1] = b /\ added[k].by[2] = latest[b]
  BY <1>0, <1>1, <1>3, AddedAreLatest DEF LoneInv
<1>5. latest \in [Browsers -> Nat]
  BY DEF LogInv, CountersInv
<1>6. PICK m \in Nat : m = Len(old)
  BY <1>2, LenProperties
<1>7. PICK n \in Nat : n = Len(added)
  BY <1>2, LenProperties
<1>8. /\ new \in Seq(Ops) /\ Len(new) = m + n
      /\ \A i \in 1..(m + n) : new[i] = IF i <= m THEN old[i] ELSE added[i - m]
  <2>1. /\ new \in Seq(Ops) /\ Len(new) = Len(old) + Len(added)
        /\ \A i \in 1..(Len(old) + Len(added)) :
             new[i] = IF i <= Len(old) THEN old[i] ELSE added[i - Len(old)]
    BY <1>2, ConcatProperties
  <2> QED  BY <1>6, <1>7, <2>1, Zenon
<1>9. \A i \in 1..(m + n) : (i \in 1..m /\ new[i] = old[i]) \/ (i > m /\ i - m \in 1..n /\ new[i] = added[i - m])
  BY <1>8
<1>10. \A i \in 1..m : Ordered(old[i]) =>
         old[i].by[2] = 0 \/ (old[i].by[1] \in Browsers /\ old[i].by[2] <= latest[old[i].by[1]])
  BY <1>00, <1>6 DEF LoneInv, StoredInv
<1>11. \A i \in 1..(m + n) : Ordered(new[i]) =>
         new[i].by[2] = 0 \/ (new[i].by[1] \in Browsers /\ new[i].by[2] <= latest[new[i].by[1]])
  <2> TAKE i \in 1..(m + n)
  <2>1. CASE i \in 1..m /\ new[i] = old[i]
    BY <1>10, <2>1
  <2>2. CASE i - m \in 1..n /\ new[i] = added[i - m]
    <3>1. PICK op : op = new[i]
      OBVIOUS
    <3>2. Ordered(op) => b \in Browsers /\ op.by[1] = b /\ op.by[2] = latest[b]
      BY <1>4, <1>7, <2>2, <3>1
    <3>3. b \in Browsers => latest[b] \in Nat
      BY <1>5
    <3> QED  BY <3>1, <3>2, <3>3
  <2> QED  BY <1>9, <2>1, <2>2
<1>12. StoredInv'
  <2>1. ASSUME NEW u \in Toplevels, NEW i \in 1..Len(rows'[u].ops), Ordered(rows'[u].ops[i])
        PROVE  \/ rows'[u].ops[i].by[2] = 0
               \/ rows'[u].ops[i].by[1] \in Browsers /\ rows'[u].ops[i].by[2] <= latest[rows'[u].ops[i].by[1]]
    <3>1. CASE u = t
      BY <1>01, <1>8, <1>11, <2>1, <3>1
    <3>2. CASE u # t
      BY <1>2, <2>1, <3>2 DEF LoneInv, StoredInv
    <3> QED  BY <3>1, <3>2
  <2> QED  BY <1>1, <2>1 DEF StoredInv
<1>13. \A j \in 1..(m + n) : \A i \in 1..(j - 1) :
         new[i].by[1] = new[j].by[1] /\ ~OrderFree(new[i]) /\ ~OrderFree(new[j])
           => new[i].by[2] <= new[j].by[2]
  <2> TAKE j \in 1..(m + n)
  <2> TAKE i \in 1..(j - 1)
  <2>0. i \in 1..(m + n)
    OBVIOUS
  <2>1. PICK p : p = new[i]
    OBVIOUS
  <2>2. PICK q : q = new[j]
    OBVIOUS
  <2> SUFFICES ASSUME p.by[1] = q.by[1], ~OrderFree(p), ~OrderFree(q)
               PROVE  p.by[2] <= q.by[2]
    BY <2>1, <2>2
  <2>3. CASE j \in 1..m /\ q = old[j]
    <3>1. i \in 1..m /\ p = old[i] /\ DOMAIN old = 1..m
      <4>1. i <= m /\ i \in 1..m
        BY <2>0, <2>3
      <4> QED  BY <1>2, <1>6, <1>8, <2>0, <2>1, <4>1, LenProperties
    <3> QED  BY <1>00, <2>3, <3>1 DEF LoneInv, InOrder
  <2>4. CASE j > m /\ j - m \in 1..n /\ q = added[j - m]
    <3>1. b \in Browsers /\ q.by[1] = b /\ q.by[2] = latest[b] /\ latest[b] \in Nat
      BY <1>4, <1>5, <1>7, <2>4 DEF Ordered
    <3>2. p.by[2] = 0 \/ (p.by[1] \in Browsers /\ p.by[2] <= latest[p.by[1]])
      BY <1>11, <2>0, <2>1 DEF Ordered
    <3> QED  BY <3>1, <3>2
  <2> QED  BY <1>9, <2>2, <2>3, <2>4
<1>14. InOrder'
  <2>1. ASSUME NEW u \in Toplevels, NEW j \in DOMAIN rows'[u].ops, NEW i \in 1..(j - 1)
        PROVE  LET p == rows'[u].ops[i]
                   q == rows'[u].ops[j]
               IN  p.by[1] = q.by[1] /\ ~OrderFree(p) /\ ~OrderFree(q) => p.by[2] <= q.by[2]
    <3>1. CASE u = t
      <4>1. DOMAIN new = 1..(m + n)
        BY <1>8, LenProperties
      <4> QED  BY <1>01, <1>13, <2>1, <3>1, <4>1
    <3>2. CASE u # t
      BY <1>2, <2>1, <3>2 DEF LoneInv, InOrder
    <3> QED  BY <3>1, <3>2
  <2> QED  BY <2>1 DEF InOrder
<1>15. AtWorkInv'
  <2>0. DOMAIN saves = Servers /\ DOMAIN pc = Servers /\ DOMAIN job = Servers
    BY DEF LogInv, JobsInv
  <2>1. CASE DOMAIN saves[s] = {t}
    <3>1. pc' = [pc EXCEPT ![s] = "idle"]
      BY <2>1 DEF Save, Back
    <3>2. pc'[s] = "idle"
      BY <2>0, <3>1
    <3> QED  BY <3>2 DEF AtWorkInv
  <2>2. CASE DOMAIN saves[s] # {t}
    <3>0. PICK has : has = saves[s]
      OBVIOUS
    <3>1. /\ saves' = [saves EXCEPT ![s] = [u \in DOMAIN has \ {t} |-> has[u]]]
          /\ pc' = pc /\ job' = job
      BY <2>2, <3>0 DEF Save
    <3>2. PICK left : left = saves'[s]
      OBVIOUS
    <3>3. DOMAIN left = DOMAIN has \ {t} /\ \A u \in DOMAIN left : left[u] = has[u]
      <4>1. left = [u \in DOMAIN has \ {t} |-> has[u]]
        BY <2>0, <3>1, <3>2
      <4> QED  BY <4>1
    <3>4. DOMAIN has \subseteq Toplevels
      <4>1. job[s].ops \in Seq(Ops) /\ DOMAIN has \subseteq Tlids(job[s].ops)
        BY <1>1, <3>0 DEF LogInv, JobsInv, IsSent, Requests
      <4> QED  BY <4>1, TlidsTyped
    <3>5. \A u \in DOMAIN has : has[u].ops = rows[u].ops \o Own(job[s].ops, u)
      BY <1>1, <3>0 DEF LoneInv, AtWorkInv
    <3>6. \A u \in DOMAIN left : left[u].ops = rows'[u].ops \o Own(job[s].ops, u)
      BY <1>2, <3>3, <3>4, <3>5
    <3>7. \/ job[s].ctr = latest[job[s].from]
          \/ \A i \in 1..Len(job[s].ops) : OrderFree(job[s].ops[i])
      BY <1>1 DEF LoneInv, AtWorkInv
    <3> QED  BY <1>1, <3>1, <3>2, <3>6, <3>7 DEF AtWorkInv
  <2> QED  BY <2>1, <2>2
<1> QED  BY <1>12, <1>14, <1>15 DEF LoneInv

(* Every step of one server keeps its invariant.                           *)
LEMMA LoneStep == LoneServer /\ LogInv /\ LoneInv /\ [Next]_vars => LoneInv'
<1> SUFFICES ASSUME LoneServer, LogInv, LoneInv, [Next]_vars PROVE LoneInv'
  OBVIOUS
<1> HIDE DEF LogInv, LoneInv
<1>0. PICK s \in Servers : Servers = {s}
  BY DEF LoneServer
<1>1. DOMAIN job = Servers /\ DOMAIN pc = Servers
  BY DEF LogInv, JobsInv
<1>2. ASSUME NEW b \in Browsers, Send(b) PROVE LoneInv'
  <2>1. UNCHANGED <<rows, latest, job, pc, saves>>
    BY <1>2 DEF Send, server
  <2> QED  BY <2>1 DEF LoneInv, StoredInv, InOrder, AtWorkInv
<1>3. ASSUME NEW r \in net, Receive(s, r) PROVE LoneInv'
  <2>1. pc'[s] = "counted" /\ UNCHANGED <<rows, latest>>
    BY <1>1, <1>3 DEF Receive, Take
  <2> QED  BY <1>0, <1>1, <2>1, IdleLone
<1>4. CASE CheckLatest(s)
  BY <1>0, <1>4, CheckLatestLone
<1>5. ASSUME Back(s), UNCHANGED <<rows, latest>> PROVE LoneInv'
  <2>1. pc'[s] = "idle"
    BY <1>1, <1>5 DEF Back
  <2> QED  BY <1>0, <1>1, <1>5, <2>1, IdleLone
<1>6. CASE NothingToDo(s) \/ ServerDies(s)
  BY <1>5, <1>6 DEF NothingToDo, ServerDies
<1>7. CASE Load(s)
  <2>1. /\ pc[s] = "checked"
        /\ \E order \in SetToSeqs(Wanted(job[s].ops)) :
             \E result \in {Preprocess(Loaded(order) \o job[s].ops)} :
               Accept(s, result) \/ Reject(s, result)
    BY <1>7 DEF Load
  <2>2. PICK result : Accept(s, result) \/ Reject(s, result)
    BY <2>1, Zenon
  <2>3. CASE Accept(s, result)
    BY <1>0, <2>1, <2>3, AcceptLone
  <2>4. CASE Reject(s, result)
    BY <1>5, <2>4 DEF Reject
  <2> QED  BY <2>2, <2>3, <2>4
<1>8. ASSUME NEW t \in Toplevels, Save(s, t) PROVE LoneInv'
  BY <1>0, <1>8, SaveLone
<1>9. CASE UNCHANGED vars
  <2>1. UNCHANGED <<rows, latest, job, pc, saves>>
    BY <1>9 DEF vars, server
  <2> QED  BY <2>1 DEF LoneInv, StoredInv, InOrder, AtWorkInv
<1> QED
  BY <1>0, <1>2, <1>3, <1>4, <1>6, <1>7, <1>8, <1>9 DEF Next, Handle

(* Only Save changes a row, and it extends it.                             *)
LEMMA GrowsStep ==
  LogInv /\ LoneInv /\ [Next]_vars => \A t \in Toplevels : IsPrefix(rows[t].ops, rows'[t].ops)
<1> SUFFICES ASSUME LogInv, LoneInv, [Next]_vars, NEW t \in Toplevels
             PROVE  IsPrefix(rows[t].ops, rows'[t].ops)
  OBVIOUS
<1> HIDE DEF LogInv, LoneInv
<1>1. rows[t].ops \in Seq(Ops)
  BY DEF LogInv, RowsInv, Renders, RowOf
<1>2. CASE rows' = rows
  BY <1>1, <1>2, PrefixConcat
<1>3. ASSUME NEW s \in Servers, NEW u \in Toplevels, Save(s, u)
      PROVE  IsPrefix(rows[t].ops, rows'[t].ops)
  <2>0. AtWorkInv
    BY DEF LoneInv
  <2>1. CASE t = u
    <3>1. PICK added : added = Own(job[s].ops, t)
      OBVIOUS
    <3>2. rows'[t].ops = rows[t].ops \o added /\ added \in Seq(Ops)
      BY <1>3, <2>0, <2>1, <3>1, SaveExtends
    <3>3. IsPrefix(rows[t].ops, rows[t].ops \o added)
      BY <1>1, <3>2, PrefixConcat
    <3> QED  BY <3>2, <3>3
  <2>2. CASE t # u
    <3>1. rows'[t].ops = rows[t].ops
      BY <1>3, <2>0, <2>2, SaveExtends
    <3> QED  BY <1>1, <3>1, PrefixConcat
  <2> QED  BY <2>1, <2>2
<1>4. ASSUME NEW s \in Servers, Load(s) PROVE rows' = rows
  BY <1>4 DEF Load, Accept, Reject
<1>5. (\E s \in Servers, u \in Toplevels : Save(s, u)) \/ rows' = rows
  BY <1>4 DEF Next, Handle, Send, Receive, Take, CheckLatest, NothingToDo, ServerDies, vars
<1> QED  BY <1>2, <1>3, <1>5

(* Both invariants hold always.                                            *)
LEMMA LoneSafe == ASSUME LoneServer PROVE Spec => [](LogInv /\ LoneInv)
<1>1. Init => LogInv /\ LoneInv
  BY LogInit, LoneInit
<1>2. LogInv /\ LoneInv /\ [Next]_vars => (LogInv /\ LoneInv)'
  BY LogStep, LoneStep
<1> QED  BY <1>1, <1>2, PTL DEF Spec

(* "to guard against ops being processed there out of order" (op.ml): with *)
(* one server at a time, it does.                                          *)
THEOREM AloneInOrder == ASSUME LoneServer PROVE Spec => []InOrder
<1>1. LoneInv => InOrder
  BY DEF LoneInv
<1> QED  BY <1>1, LoneSafe, PTL

(* canvas.ml (save_tlids) rewrites a whole row; with one server at a time  *)
(* no op that was stored is lost or moved by it.                           *)
THEOREM AloneGrowsOnly == ASSUME LoneServer PROVE Spec => GrowsOnly
<1> DEFINE Grow == \A t \in Toplevels : IsPrefix(rows[t].ops, rows'[t].ops)
<1>1. LogInv /\ LoneInv /\ [Next]_vars => [Grow]_vars
  BY GrowsStep
<1> QED  BY <1>1, LoneSafe, PTL DEF Spec, GrowsOnly

-----------------------------------------------------------------------------
(* Every step judges in order: only CheckLatest changes latest, to the     *)
(* number of a request that is equal to ctr, which is never behind it.     *)
LEMMA JudgesForward ==
  LogInv /\ [Next]_vars
    => \A b \in Browsers : latest'[b] # latest[b] => latest'[b] > latest[b]
<1> SUFFICES ASSUME LogInv, [Next]_vars, NEW b \in Browsers,
                    latest'[b] # latest[b]
             PROVE  latest'[b] > latest[b]
  OBVIOUS
<1>1. PICK s \in Servers : CheckLatest(s)
  <2>1. ASSUME NEW s \in Servers, Load(s) PROVE UNCHANGED latest
    BY <2>1 DEF Load, Accept, Reject
  <2> QED
    BY <2>1 DEF Next, Handle, Send, Receive, Take, NothingToDo, Save, ServerDies, vars
<1>2. /\ pc[s] = "counted" /\ ctr[job[s].from] = job[s].ctr
      /\ latest' = [latest EXCEPT ![job[s].from] = job[s].ctr]
  BY <1>1 DEF CheckLatest
<1>3. job[s].from \in Browsers
  BY <1>2 DEF LogInv, JobsInv, IsSent, Requests
<1> QED
  BY <1>2, <1>3 DEF LogInv, CountersInv

(* The latest requests of a browser are judged so in the order it sent     *)
(* them (serialize.ml, is_latest_op_request), for any number of browsers,  *)
(* servers and requests.                                                   *)
THEOREM LatestInOrder == Spec => JudgedInOrder
<1> DEFINE Forward ==
  \A b \in Browsers : latest'[b] # latest[b] => latest'[b] > latest[b]
<1>1. LogInv /\ [Next]_vars => [Forward]_vars
  BY JudgesForward
<1> QED
  BY <1>1, LogSafe, PTL DEF Spec, JudgedInOrder

-----------------------------------------------------------------------------
(* The savepoints that come with edits.                                    *)
Savings(edits) == [i \in DOMAIN edits |-> Plain("save", edits[i].tl, edits[i].by)]

(* The ops that a late request keeps, none of them twice.                  *)
Free(X) == {op \in X : OrderFree(op)}

Distinct(ops) == \A i, j \in 1..Len(ops) : ops[i] = ops[j] => i = j

(* What there is of a request: edits with a savepoint for each in front of *)
(* them all, an undo or a redo, or what is left because it was late.       *)
Whole(ops) ==
  \/ \E edits \in Seq(Changing(Ops)) : FreeOnce(edits) /\ ops = Savings(edits) \o edits
  \/ \E op \in Ops : ops = <<op>> /\ op.kind \in {"undo", "redo"}
  \/ ops \in Seq(Free(Ops)) /\ Distinct(ops)

WholeInv ==
  /\ \A r \in net : Whole(r.ops)
  /\ \A s \in Servers : Whole(job[s].ops)

(* Nothing has no edit missing.                                            *)
LEMMA NothingWhole == Whole(<<>>)
<1>1. PICK e : e = <<>>
  OBVIOUS
<1>2. Len(e) = 0 /\ e \in Seq(Free(Ops))
  BY <1>1
<1>3. Distinct(e)
  BY <1>2 DEF Distinct
<1> QED  BY <1>1, <1>2, <1>3 DEF Whole

(* As many savepoints as there are edits.                                  *)
LEMMA SavingsTyped ==
  ASSUME NEW edits \in Seq(Ops)
  PROVE  /\ Savings(edits) \in Seq(Saves(Ops)) /\ Len(Savings(edits)) = Len(edits)
         /\ \A i \in 1..Len(edits) : /\ Savings(edits)[i].kind = "save"
                                     /\ Savings(edits)[i].tl = edits[i].tl
<1>1. PICK n \in Nat : n = Len(edits) /\ DOMAIN edits = 1..n
  BY LenProperties
<1>2. PICK u : u = Savings(edits)
  OBVIOUS
<1>3. u = [i \in 1..n |-> Plain("save", edits[i].tl, edits[i].by)]
  BY <1>1, <1>2 DEF Savings
<1>4. ASSUME NEW i \in 1..n
      PROVE  u[i] \in Saves(Ops) /\ u[i].kind = "save" /\ u[i].tl = edits[i].tl
  <2>1. edits[i] \in Ops
    BY <1>1, ElementOfSeq
  <2>2. u[i] = Plain("save", edits[i].tl, edits[i].by)
    BY <1>3
  <2> QED  BY <2>1, <2>2 DEF Saves, Ops, Plain, Op
<1>5. u \in [1..n -> Saves(Ops)]
  BY <1>3, <1>4
<1>6. u \in Seq(Saves(Ops)) /\ Len(u) = n
  BY <1>5
<1> QED  BY <1>1, <1>2, <1>4, <1>6

(* Whatever a user does.                                                   *)
LEMMA ChangeWhole ==
  ASSUME NEW by, NEW ops, IsChange(ops, by)
  PROVE  Whole(Encoded(ops))
<1>1. CASE \E op \in Of(by) : ops = <<op>> /\ op.kind \in {"undo", "redo"}
  <2>1. PICK op \in Of(by) : ops = <<op>> /\ op.kind \in {"undo", "redo"}
    BY <1>1
  <2>2. Len(ops) = 1 /\ ops[1] = op
    BY <2>1
  <2>3. Encoded(ops) = ops
    BY <2>1, <2>2 DEF Encoded
  <2> QED  BY <2>1, <2>3 DEF Whole, Of
<1>2. CASE ops \in Seq(Changing(Of(by))) /\ ops # <<>> /\ FreeOnce(ops)
  <2>1. Len(ops) \in Nat /\ Len(ops) # 0
    BY <1>2, LenProperties, EmptySeq
  <2>2. ops[1] \in Changing(Of(by))
    BY <1>2, <2>1, ElementOfSeq
  <2>3. Encoded(ops) = Savings(ops) \o ops
    BY <2>2 DEF Encoded, Savings, Changing
  <2>4. ops \in Seq(Changing(Ops))
    <3>1. Changing(Of(by)) \subseteq Changing(Ops)
      BY DEF Changing, Of
    <3> QED  BY <1>2, <3>1
  <2> QED  BY <1>2, <2>3, <2>4 DEF Whole
<1> QED  BY <1>1, <1>2 DEF IsChange

(* An op that a late request keeps is in it once.                          *)
LEMMA WholeFreeOnce ==
  ASSUME NEW ops, Whole(ops)
  PROVE  ops \in Seq(Ops) /\ FreeOnce(ops)
<1>1. CASE \E op \in Ops : ops = <<op>> /\ op.kind \in {"undo", "redo"}
  <2>1. PICK op \in Ops : ops = <<op>>
    BY <1>1
  <2>2. Len(ops) = 1
    BY <2>1
  <2> QED  BY <2>1, <2>2 DEF FreeOnce
<1>2. CASE ops \in Seq(Free(Ops)) /\ Distinct(ops)
  BY <1>2 DEF Free, Distinct, FreeOnce
<1>3. ASSUME NEW edits \in Seq(Changing(Ops)), FreeOnce(edits), ops = Savings(edits) \o edits
      PROVE  ops \in Seq(Ops) /\ FreeOnce(ops)
  <2>1. PICK n \in Nat : n = Len(edits)
    BY LenProperties
  <2>2. edits \in Seq(Ops)
    BY DEF Changing
  <2>3. PICK u : u = Savings(edits)
    OBVIOUS
  <2>4. u \in Seq(Ops) /\ Len(u) = n /\ \A i \in 1..n : u[i].kind = "save"
    <3>1. u \in Seq(Saves(Ops)) /\ Len(u) = n /\ \A i \in 1..n : u[i].kind = "save"
      BY <2>1, <2>2, <2>3, SavingsTyped
    <3> QED  BY <3>1 DEF Saves
  <2>5. /\ ops \in Seq(Ops) /\ Len(ops) = n + n
        /\ \A i \in 1..(n + n) : ops[i] = IF i <= n THEN u[i] ELSE edits[i - n]
    <3>1. /\ ops \in Seq(Ops) /\ Len(ops) = Len(u) + Len(edits)
          /\ \A i \in 1..(Len(u) + Len(edits)) : ops[i] = IF i <= Len(u) THEN u[i] ELSE edits[i - Len(u)]
      BY <1>3, <2>2, <2>3, <2>4, ConcatProperties
    <3> QED  BY <2>1, <2>4, <3>1, Zenon
  <2>6. ASSUME NEW i \in 1..(n + n), OrderFree(ops[i])
        PROVE  i - n \in 1..n /\ ops[i] = edits[i - n]
    <3>1. ~(i <= n)
      <4> SUFFICES ASSUME i <= n PROVE FALSE
        OBVIOUS
      <4>1. i \in 1..n
        OBVIOUS
      <4>2. ops[i] = u[i]
        BY <2>5
      <4> QED  BY <2>4, <2>6, <4>1, <4>2 DEF OrderFree
    <3>2. ops[i] = edits[i - n]
      BY <2>5, <3>1, Zenon
    <3> QED  BY <3>1, <3>2
  <2>7. ASSUME NEW i \in 1..(n + n), NEW j \in 1..(n + n), OrderFree(ops[i]), ops[i] = ops[j]
        PROVE  i = j
    <3>1. i - n \in 1..n /\ ops[i] = edits[i - n] /\ j - n \in 1..n /\ ops[j] = edits[j - n]
      BY <2>6, <2>7
    <3>2. i - n = j - n
      BY <1>3, <2>1, <2>7, <3>1 DEF FreeOnce
    <3> QED  BY <3>2
  <2> QED  BY <2>5, <2>7 DEF FreeOnce
<1> QED  BY <1>1, <1>2, <1>3 DEF Whole

LEMMA LateWhole ==
  ASSUME NEW ops, Whole(ops)
  PROVE  Whole(FilterLate(ops))
<1>1. ops \in Seq(Ops) /\ FreeOnce(ops)
  BY WholeFreeOnce
<1>2. PICK I : I = {i \in DOMAIN ops : OrderFree(ops[i])}
  OBVIOUS
<1>3. PICK late : late = Kept(ops, I)
  OBVIOUS
<1>4. FilterLate(ops) = late
  BY <1>2, <1>3 DEF FilterLate
<1>5. late \in Seq(Ops) /\ Len(late) \in Nat /\ \A k \in 1..Len(late) : OrderFree(late[k])
  BY <1>1, <1>4, FilterLateTyped
<1>6. \A i, j \in 1..Len(ops) : i \in I /\ j \in I /\ ops[i] = ops[j] => i = j
  BY <1>1, <1>2 DEF FreeOnce
<1>7. Distinct(late)
  <2>1. \A k, l \in 1..Len(Kept(ops, I)) : Kept(ops, I)[k] = Kept(ops, I)[l] => k = l
    BY <1>1, <1>6, KeptDiffer
  <2> QED  BY <1>3, <2>1 DEF Distinct
<1>8. late \in Seq(Free(Ops))
  <2>1. \A k \in 1..Len(late) : late[k] \in Free(Ops)
    BY <1>5, ElementOfSeq DEF Free
  <2>2. late = [k \in 1..Len(late) |-> late[k]]
    BY <1>5
  <2>3. late \in [1..Len(late) -> Free(Ops)]
    BY <2>1, <2>2
  <2> QED  BY <1>5, <2>3
<1> QED  BY <1>4, <1>7, <1>8 DEF Whole

(* What there is of it about one toplevel.                                 *)
Part(w) ==
  \/ \E s \in Seq(Saves(Ops)), d \in Seq(Changing(Ops)) : w = s \o d /\ Len(s) = Len(d)
  \/ \E op \in Ops : w = <<op>> /\ op.kind \in {"undo", "redo"}
  \/ w \in Seq(Free(Ops)) /\ Distinct(w)

LEMMA OwnPart ==
  ASSUME NEW ops, Whole(ops), NEW t
  PROVE  Part(Own(ops, t))
<1>1. ASSUME NEW edits \in Seq(Changing(Ops)), ops = Savings(edits) \o edits
      PROVE  Part(Own(ops, t))
  <2>1. edits \in Seq(Ops)
    BY DEF Changing
  <2>2. PICK u : u = Savings(edits)
    OBVIOUS
  <2>3. PICK n \in Nat : n = Len(edits)
    BY LenProperties
  <2>4. u \in Seq(Saves(Ops)) /\ Len(u) = n /\ \A i \in 1..n : u[i].tl = edits[i].tl
    BY <2>1, <2>2, <2>3, SavingsTyped
  <2>5. u \in Seq(Ops)
    BY <2>4 DEF Saves
  <2>6. PICK I : I = {i \in DOMAIN edits : edits[i].tl = t}
    OBVIOUS
  <2>7. I = {i \in DOMAIN u : u[i].tl = t}
    <3>1. DOMAIN u = 1..n /\ DOMAIN edits = 1..n
      BY <2>1, <2>3, <2>4, <2>5, LenProperties
    <3> QED  BY <2>4, <2>6, <3>1
  <2>8. PICK s : s = Own(u, t)
    OBVIOUS
  <2>9. PICK d : d = Own(edits, t)
    OBVIOUS
  <2>10. s = Kept(u, I) /\ d = Kept(edits, I)
    BY <2>6, <2>7, <2>8, <2>9 DEF Own
  <2>11. Len(s) = Len(d)
    BY <2>1, <2>3, <2>4, <2>5, <2>10, KeptLength
  <2>12. s \in Seq(Saves(Ops)) /\ d \in Seq(Changing(Ops))
    BY <2>4, <2>8, <2>9, OwnTyped
  <2>13. Own(ops, t) = s \o d
    <3>1. Own(u \o edits, t) = Own(u, t) \o Own(edits, t)
      BY <2>1, <2>5, OwnConcat
    <3> QED  BY <1>1, <2>2, <2>8, <2>9, <3>1
  <2> QED  BY <2>11, <2>12, <2>13 DEF Part
<1>2. ASSUME NEW op \in Ops, ops = <<op>>, op.kind \in {"undo", "redo"}
      PROVE  Part(Own(ops, t))
  <2>1. Own(ops, t) = <<op>> \/ Own(ops, t) = <<>>
    BY <1>2, OwnOne
  <2>2. CASE Own(ops, t) = <<>>
    <3>1. PICK e : e = <<>>
      OBVIOUS
    <3>2. e \in Seq(Free(Ops)) /\ Len(e) = 0
      BY <3>1
    <3>3. Distinct(e)
      BY <3>2 DEF Distinct
    <3> QED  BY <2>2, <3>1, <3>2, <3>3 DEF Part
  <2> QED  BY <1>2, <2>1, <2>2 DEF Part
<1>3. CASE ops \in Seq(Free(Ops)) /\ Distinct(ops)
  <2>1. PICK I : I = {i \in DOMAIN ops : ops[i].tl = t}
    OBVIOUS
  <2>2. PICK w : w = Kept(ops, I)
    OBVIOUS
  <2>3. Own(ops, t) = w
    BY <2>1, <2>2 DEF Own
  <2>4. w \in Seq(Free(Ops))
    BY <1>3, <2>2, KeptMembers
  <2>5. \A i, j \in 1..Len(ops) : i \in I /\ j \in I /\ ops[i] = ops[j] => i = j
    BY <1>3 DEF Distinct
  <2>6. \A k, l \in 1..Len(Kept(ops, I)) : Kept(ops, I)[k] = Kept(ops, I)[l] => k = l
    BY <1>3, <2>5, KeptDiffer
  <2>7. Distinct(w)
    BY <2>2, <2>6 DEF Distinct
  <2> QED  BY <2>3, <2>4, <2>7 DEF Part
<1> QED  BY <1>1, <1>2, <1>3 DEF Whole

(* At the start there are no requests,                                     *)
LEMMA WholeInit == Init => WholeInv
<1> SUFFICES ASSUME Init PROVE WholeInv
  OBVIOUS
<1>1. NoJob.ops = <<>>
  BY DEF NoJob
<1>2. net = {} /\ \A s \in Servers : job[s] = NoJob
  BY DEF Init
<1>3. Whole(<<>>)
  BY NothingWhole
<1> QED  BY <1>1, <1>2, <1>3 DEF WholeInv

(* and no step makes one with more.                                        *)
LEMMA WholeStep == LogInv /\ WholeInv /\ [Next]_vars => WholeInv'
<1> SUFFICES ASSUME LogInv, WholeInv, [Next]_vars PROVE WholeInv'
  OBVIOUS
<1> HIDE DEF LogInv
<1>0. DOMAIN job = Servers
  BY DEF LogInv, JobsInv
<1>1. ASSUME NEW b \in Browsers, Send(b) PROVE WholeInv'
  <2>0. PICK n : n = sent[b] + 1
    OBVIOUS
  <2>1. PICK ops :
          /\ \E edit \in Edits : ops \in Changes(edit, <<b, n>>)
          /\ net' = net \cup {[from |-> b, ctr |-> n, ops |-> Encoded(ops)]}
    BY <1>1, <2>0 DEF Send
  <2>2. known \subseteq Toplevels /\ sent \in [Browsers -> 0..MaxSends]
    BY DEF LogInv, ClientInv
  <2>3. n \in Nat
    BY <2>0, <2>2, BoundAssumption
  <2>4. Whole(Encoded(ops))
    BY <2>1, <2>2, <2>3, ChangesTyped, ChangeWhole
  <2>5. job' = job
    BY <1>1 DEF Send, server
  <2>6. ASSUME NEW r \in net' PROVE Whole(r.ops)
    <3>1. CASE r \in net
      BY <3>1 DEF WholeInv
    <3>2. CASE r = [from |-> b, ctr |-> n, ops |-> Encoded(ops)]
      <4>1. r.ops = Encoded(ops)
        BY <3>2
      <4> QED  BY <2>4, <4>1
    <3> QED  BY <2>1, <3>1, <3>2
  <2> QED  BY <2>5, <2>6 DEF WholeInv
<1>2. ASSUME NEW s \in Servers, NEW r \in net, Receive(s, r) PROVE WholeInv'
  <2>1. net' = net \ {r} /\ job' = [job EXCEPT ![s] = r]
    BY <1>2 DEF Receive, Take
  <2>2. \A u \in Servers : job'[u] = r \/ job'[u] = job[u]
    BY <1>0, <2>1
  <2> QED  BY <2>1, <2>2 DEF WholeInv
<1>3. ASSUME NEW s \in Servers, CheckLatest(s) PROVE WholeInv'
  <2>0. PICK ops : ops = job[s].ops
    OBVIOUS
  <2>1. net' = net /\ (job' = job \/ job' = [job EXCEPT ![s].ops = FilterLate(ops)])
    BY <1>3, <2>0 DEF CheckLatest, client
  <2>2. Whole(ops)
    BY <2>0 DEF WholeInv
  <2>3. PICK late : late = FilterLate(ops)
    OBVIOUS
  <2>4. Whole(late)
    BY <2>2, <2>3, LateWhole
  <2>5. CASE job' = job
    BY <2>1, <2>5 DEF WholeInv
  <2>6. CASE job' = [job EXCEPT ![s].ops = FilterLate(ops)]
    <3>1. PICK q : q = [job[s] EXCEPT !.ops = late]
      OBVIOUS
    <3>2. "ops" \in DOMAIN job[s]
      <4>1. pc[s] # "idle"
        BY <1>3 DEF CheckLatest
      <4>2. job[s] \in Requests
        BY <4>1 DEF LogInv, JobsInv, IsSent
      <4> QED  BY <4>2 DEF Requests
    <3>3. q.ops = late
      BY <3>1, <3>2
    <3>4. \A u \in Servers : job'[u] = q \/ job'[u] = job[u]
      BY <1>0, <2>3, <2>6, <3>1
    <3>5. \A u \in Servers : Whole(job'[u].ops)
      BY <2>4, <3>3, <3>4 DEF WholeInv
    <3> QED  BY <2>1, <3>5 DEF WholeInv
  <2> QED  BY <2>1, <2>5, <2>6
<1>4. ASSUME NEW s \in Servers, Back(s), net' = net PROVE WholeInv'
  <2>1. job' = [job EXCEPT ![s] = NoJob]
    BY <1>4 DEF Back
  <2>2. \A u \in Servers : job'[u] = NoJob \/ job'[u] = job[u]
    BY <1>0, <2>1
  <2>3. Whole(NoJob.ops)
    BY NothingWhole DEF NoJob
  <2> QED  BY <1>4, <2>2, <2>3 DEF WholeInv
<1>5. ASSUME net' = net, job' = job PROVE WholeInv'
  BY <1>5 DEF WholeInv
<1>6. ASSUME NEW s \in Servers, NothingToDo(s) \/ ServerDies(s) PROVE WholeInv'
  BY <1>4, <1>6 DEF NothingToDo, ServerDies, client
<1>7. ASSUME NEW s \in Servers, Load(s) PROVE WholeInv'
  <2>1. PICK result : Accept(s, result) \/ Reject(s, result)
    BY <1>7 DEF Load
  <2>2. CASE Accept(s, result)
    BY <1>5, <2>2 DEF Accept, client
  <2>3. CASE Reject(s, result)
    BY <1>4, <2>3 DEF Reject, client
  <2> QED  BY <2>1, <2>2, <2>3
<1>8. ASSUME NEW s \in Servers, NEW t \in Toplevels, Save(s, t) PROVE WholeInv'
  <2>1. net' = net /\ (Back(s) \/ job' = job)
    BY <1>8 DEF Save, client
  <2> QED  BY <1>4, <1>5, <2>1
<1>9. CASE UNCHANGED vars
  BY <1>5, <1>9 DEF vars, client, server
<1> QED  BY <1>1, <1>2, <1>3, <1>6, <1>7, <1>8, <1>9 DEF Next, Handle

-----------------------------------------------------------------------------
(* A request is stored once, and whole, for any number of servers.         *)

(* The number that a request has in its ops.                               *)
By(r) == <<r.from, r.ctr>>

Absent(by, ops) == \A i \in 1..Len(ops) : ops[i].by # by

(* The ops of a list that are of the same request as that at j are from    *)
(* first to last, and the edits among them from edit on.                   *)
PartAt(ops, j, first, edit, last) ==
  /\ \A i \in 1..Len(ops) : ops[i].by = ops[j].by <=> i \in first..last
  /\ \A i \in first..last : ops[i].kind = "save" <=> i < edit
  /\ \/ edit - first = last + 1 - edit
     \/ first = last /\ (ops[j].by = Old \/ ops[j].kind \in {"undo", "redo"})
     \/ first = edit /\ \A i \in first..last :
          OrderFree(ops[i]) /\ \A k \in first..(i - 1) : ops[k] # ops[i]

HasWhole(ops) ==
  \A j \in 1..Len(ops) : \E first, edit, last \in 1..Len(ops) : PartAt(ops, j, first, edit, last)

(* A part of a request has k savepoints in front.                          *)
Shape(w, m, k) ==
  /\ \A i \in 1..m : w[i].kind = "save" <=> i <= k
  /\ \/ k + k = m
     \/ m = 1 /\ w[1].kind \in {"undo", "redo"}
     \/ k = 0 /\ \A i \in 1..m : OrderFree(w[i]) /\ \A l \in 1..(i - 1) : w[l] # w[i]

LEMMA PartShape ==
  ASSUME NEW w, Part(w), NEW m \in Nat, m = Len(w), m # 0
  PROVE  \E k \in 0..(m - 1) : Shape(w, m, k)
<1>1. ASSUME NEW s \in Seq(Saves(Ops)), NEW d \in Seq(Changing(Ops)), w = s \o d, Len(s) = Len(d)
      PROVE  \E k \in 0..(m - 1) : Shape(w, m, k)
  <2>1. PICK k \in Nat : k = Len(s) /\ k = Len(d)
    BY <1>1, LenProperties
  <2>2. s \in Seq(Ops) /\ d \in Seq(Ops)
    BY DEF Saves, Changing
  <2>3. m = k + k /\ \A i \in 1..m : w[i] = IF i <= k THEN s[i] ELSE d[i - k]
    <3>1. /\ Len(w) = Len(s) + Len(d)
          /\ \A i \in 1..(Len(s) + Len(d)) : w[i] = IF i <= Len(s) THEN s[i] ELSE d[i - Len(s)]
      BY <1>1, <2>2, ConcatProperties
    <3>2. m = k + k
      BY <2>1, <3>1
    <3> QED  BY <2>1, <3>1, <3>2, Zenon
  <2>4. k \in 0..(m - 1)
    BY <2>3
  <2>5. ASSUME NEW i \in 1..m PROVE w[i].kind = "save" <=> i <= k
    <3>1. CASE i <= k
      <4>1. i \in 1..k
        BY <3>1
      <4>2. s[i] \in Saves(Ops)
        BY <2>1, <4>1, ElementOfSeq
      <4>3. w[i] = s[i]
        BY <2>3, <3>1
      <4> QED  BY <3>1, <4>2, <4>3 DEF Saves
    <3>2. CASE ~(i <= k)
      <4>1. i - k \in 1..k
        BY <2>3, <3>2
      <4>2. d[i - k] \in Changing(Ops)
        BY <2>1, <4>1, ElementOfSeq
      <4>3. w[i] = d[i - k]
        BY <2>3, <3>2
      <4> QED  BY <3>2, <4>2, <4>3 DEF Changing
    <3> QED  BY <3>1, <3>2
  <2> QED  BY <2>3, <2>4, <2>5 DEF Shape
<1>2. ASSUME NEW op \in Ops, w = <<op>>, op.kind \in {"undo", "redo"}
      PROVE  \E k \in 0..(m - 1) : Shape(w, m, k)
  <2>1. m = 1 /\ w[1] = op
    BY <1>2
  <2>2. 0 \in 0..(m - 1) /\ \A i \in 1..m : i = 1 /\ ~(i <= 0)
    BY <2>1
  <2> QED  BY <1>2, <2>1, <2>2 DEF Shape
<1>3. CASE w \in Seq(Free(Ops)) /\ Distinct(w)
  <2>1. \A i \in 1..m : OrderFree(w[i])
    BY <1>3, ElementOfSeq DEF Free
  <2>2. \A i \in 1..m : \A l \in 1..(i - 1) : w[l] # w[i]
    <3>1. \A i \in 1..m : \A l \in 1..(i - 1) : l \in 1..m /\ l # i
      OBVIOUS
    <3> QED  BY <1>3, <3>1 DEF Distinct
  <2>3. 0 \in 0..(m - 1) /\ \A i \in 1..m : ~(i <= 0) /\ w[i].kind # "save"
    BY <2>1 DEF OrderFree
  <2> QED  BY <2>1, <2>2, <2>3 DEF Shape
<1> QED  BY <1>1, <1>2, <1>3 DEF Part

(* A list that a request is added to.                                      *)
LEMMA AddedWhole ==
  ASSUME NEW X, NEW a \in Seq(X), HasWhole(a), NEW by, Absent(by, a),
         NEW w \in Seq(X), Part(w), \A i \in 1..Len(w) : w[i].by = by
  PROVE  HasWhole(a \o w)
<1>1. PICK n \in Nat : n = Len(a)
  BY LenProperties
<1>2. PICK m \in Nat : m = Len(w)
  BY LenProperties
<1>3. PICK c : c = a \o w
  OBVIOUS
<1>4. /\ Len(c) = n + m
      /\ \A i \in 1..(n + m) : c[i] = IF i <= n THEN a[i] ELSE w[i - n]
  <2>1. /\ Len(c) = Len(a) + Len(w)
        /\ \A i \in 1..(Len(a) + Len(w)) : c[i] = IF i <= Len(a) THEN a[i] ELSE w[i - Len(a)]
    BY <1>3, ConcatProperties
  <2> QED  BY <1>1, <1>2, <2>1, Zenon
<1>5. /\ \A i \in 1..n : c[i] = a[i] /\ c[i].by # by
      /\ \A i \in 1..m : c[n + i] = w[i] /\ c[n + i].by = by
  <2>1. \A i \in 1..n : i \in 1..(n + m) /\ i <= n
    OBVIOUS
  <2>2. \A i \in 1..m : n + i \in 1..(n + m) /\ ~(n + i <= n) /\ (n + i) - n = i
    OBVIOUS
  <2>3. \A i \in 1..n : c[i] = a[i]
    BY <1>4, <2>1, Zenon
  <2>4. \A i \in 1..m : c[n + i] = w[(n + i) - n]
    BY <1>4, <2>2, Zenon
  <2>5. \A i \in 1..m : c[n + i] = w[i]
    BY <2>2, <2>4
  <2>6. \A i \in 1..n : a[i].by # by
    BY <1>1 DEF Absent
  <2>7. \A i \in 1..m : w[i].by = by
    BY <1>2
  <2> QED  BY <2>3, <2>5, <2>6, <2>7
<1>6. \A i \in 1..(n + m) : i \in 1..n \/ (i - n \in 1..m /\ n + (i - n) = i)
  OBVIOUS
<1>7. ASSUME NEW j \in 1..n
      PROVE  \E first, edit, last \in 1..(n + m) : PartAt(c, j, first, edit, last)
  <2>1. PICK first \in 1..n, edit \in 1..n, last \in 1..n : PartAt(a, j, first, edit, last)
    BY <1>1 DEF HasWhole
  <2>2. /\ \A i \in 1..n : a[i].by = a[j].by <=> i \in first..last
        /\ \A i \in first..last : a[i].kind = "save" <=> i < edit
        /\ \/ edit - first = last + 1 - edit
           \/ first = last /\ (a[j].by = Old \/ a[j].kind \in {"undo", "redo"})
           \/ first = edit /\ \A i \in first..last :
                OrderFree(a[i]) /\ \A k \in first..(i - 1) : a[k] # a[i]
    BY <1>1, <2>1 DEF PartAt
  <2>3. \A i \in first..last : i \in 1..n /\ c[i] = a[i]
    BY <1>5
  <2>4. c[j] = a[j] /\ c[j].by # by
    BY <1>5
  <2>5. ASSUME NEW i \in 1..(n + m) PROVE c[i].by = c[j].by <=> i \in first..last
    <3>1. CASE i \in 1..n
      BY <1>5, <2>2, <2>4, <3>1
    <3>2. CASE i - n \in 1..m /\ n + (i - n) = i
      <4>1. c[i].by = by
        BY <1>5, <3>2
      <4>2. i \notin first..last
        BY <3>2
      <4> QED  BY <2>4, <4>1, <4>2
    <3> QED  BY <1>6, <3>1, <3>2
  <2>6. \A i \in first..last : c[i].kind = "save" <=> i < edit
    BY <2>2, <2>3
  <2>7. \/ edit - first = last + 1 - edit
        \/ first = last /\ (c[j].by = Old \/ c[j].kind \in {"undo", "redo"})
        \/ first = edit /\ \A i \in first..last :
             OrderFree(c[i]) /\ \A k \in first..(i - 1) : c[k] # c[i]
    <3>1. \A i \in first..last : \A k \in first..(i - 1) : k \in first..last
      OBVIOUS
    <3>2. CASE first = edit /\ \A i \in first..last :
             OrderFree(a[i]) /\ \A k \in first..(i - 1) : a[k] # a[i]
      BY <2>3, <3>1, <3>2
    <3> QED  BY <2>2, <2>4, <3>2
  <2>8. first \in 1..(n + m) /\ edit \in 1..(n + m) /\ last \in 1..(n + m)
    OBVIOUS
  <2>9. PartAt(c, j, first, edit, last)
    BY <1>4, <2>5, <2>6, <2>7 DEF PartAt
  <2> QED  BY <2>8, <2>9
<1>8. ASSUME NEW j \in 1..(n + m), j - n \in 1..m, n + (j - n) = j
      PROVE  \E first, edit, last \in 1..(n + m) : PartAt(c, j, first, edit, last)
  <2>1. m # 0
    BY <1>8
  <2>2. PICK k \in 0..(m - 1) : Shape(w, m, k)
    BY <1>2, <2>1, PartShape
  <2>3. PICK first \in 1..(n + m) : first = n + 1
    BY <2>1
  <2>4. PICK edit \in 1..(n + m) : edit = n + k + 1
    <3>1. n + k + 1 \in 1..(n + m)
      OBVIOUS
    <3> QED  BY <3>1
  <2>5. PICK last \in 1..(n + m) : last = n + m
    BY <2>1
  <2>6. c[j].by = by /\ c[j] = w[j - n]
    BY <1>5, <1>8
  <2>7. ASSUME NEW i \in first..last PROVE i - n \in 1..m /\ c[i] = w[i - n] /\ c[i].by = by
    <3>1. i - n \in 1..m /\ n + (i - n) = i
      BY <2>3, <2>5
    <3>2. c[n + (i - n)] = w[i - n] /\ c[n + (i - n)].by = by
      BY <1>5, <3>1
    <3> QED  BY <3>1, <3>2
  <2>8. ASSUME NEW i \in 1..(n + m) PROVE c[i].by = c[j].by <=> i \in first..last
    <3>1. CASE i \in 1..n
      <4>1. i \notin first..last
        BY <2>3, <3>1
      <4> QED  BY <1>5, <2>6, <3>1, <4>1
    <3>2. CASE i - n \in 1..m /\ n + (i - n) = i
      <4>1. i \in first..last
        BY <2>3, <2>5, <3>2
      <4> QED  BY <2>6, <2>7, <4>1
    <3> QED  BY <1>6, <3>1, <3>2
  <2>9. ASSUME NEW i \in first..last PROVE c[i].kind = "save" <=> i < edit
    <3>1. w[i - n].kind = "save" <=> i - n <= k
      BY <2>2, <2>7 DEF Shape
    <3>2. i - n <= k <=> i < edit
      BY <2>4
    <3> QED  BY <2>7, <3>1, <3>2
  <2>10. CASE k + k = m
    <3>1. edit - first = last + 1 - edit
      BY <2>3, <2>4, <2>5, <2>10
    <3>2. PartAt(c, j, first, edit, last)
      BY <1>4, <2>8, <2>9, <3>1 DEF PartAt
    <3> QED  BY <3>2
  <2>11. CASE m = 1 /\ w[1].kind \in {"undo", "redo"}
    <3>1. first = last /\ j - n = 1
      BY <1>8, <2>3, <2>5, <2>11
    <3>2. PartAt(c, j, first, edit, last)
      BY <1>4, <2>6, <2>8, <2>9, <2>11, <3>1 DEF PartAt
    <3> QED  BY <3>2
  <2>12. CASE k = 0 /\ \A i \in 1..m : OrderFree(w[i]) /\ \A l \in 1..(i - 1) : w[l] # w[i]
    <3>1. first = edit
      BY <2>3, <2>4, <2>12
    <3>2. ASSUME NEW i \in first..last PROVE OrderFree(c[i])
      BY <2>7, <2>12
    <3>3. ASSUME NEW i \in first..last, NEW l \in first..(i - 1) PROVE c[l] # c[i]
      <4>1. l \in first..last /\ i - n \in 1..m /\ l - n \in 1..((i - n) - 1)
        BY <2>3, <2>5, <3>3
      <4>2. w[l - n] # w[i - n]
        BY <2>12, <4>1
      <4> QED  BY <2>7, <4>1, <4>2
    <3>4. PartAt(c, j, first, edit, last)
      BY <1>4, <2>8, <2>9, <3>1, <3>2, <3>3 DEF PartAt
    <3> QED  BY <3>4
  <2> QED  BY <2>2, <2>10, <2>11, <2>12 DEF Shape
<1>9. HasWhole(c)
  BY <1>4, <1>6, <1>7, <1>8 DEF HasWhole
<1> QED  BY <1>3, <1>9

(* The op lists that there are or are going to be.                         *)
Stored(ops) ==
  \/ \E t \in Toplevels : ops = rows[t].ops
  \/ \E s \in Servers : \E t \in DOMAIN saves[s] : ops = saves[s][t].ops

(* The servers whose request is not in any of them, and the numbers of all *)
(* requests that are in none.                                              *)
InHand == {s \in Servers : pc[s] \in {"counted", "checked"}}

Waiting == {By(r) : r \in net} \cup {By(job[s]) : s \in InHand}

IsUsed(by) == by[2] = 0 \/ (by[1] \in Browsers /\ by[2] \in 1..sent[by[1]])

(* A request is at one place.                                              *)
OnePlace ==
  /\ \A r, q \in net : By(r) = By(q) => r = q
  /\ \A s \in InHand : \A r \in net : By(r) # By(job[s])
  /\ \A s, u \in InHand : By(job[s]) = By(job[u]) => s = u

(* The invariant: besides what EditsWhole says of the rows, the same of    *)
(* what is about to be saved, and that no request comes a second time.     *)
OnceInv ==
  /\ OnePlace
  /\ \A ops : Stored(ops) => /\ HasWhole(ops)
                             /\ \A by \in Waiting : Absent(by, ops)
                             /\ \A i \in 1..Len(ops) : IsUsed(ops[i].by)

LEMMA OnceInit == Init => OnceInv
<1> SUFFICES ASSUME Init PROVE OnceInv
  OBVIOUS
<1>1. net = {} /\ InHand = {} /\ \A s \in Servers : DOMAIN saves[s] = {}
  BY DEF Init, InHand, NoSaves
<1>2. OnePlace /\ Waiting = {}
  BY <1>1 DEF OnePlace, Waiting
<1>3. ASSUME NEW t \in Toplevels, NEW ops, ops = rows[t].ops
      PROVE  HasWhole(ops) /\ \A i \in 1..Len(ops) : IsUsed(ops[i].by)
  <2>1. PICK x : x = Plain("set", t, Old)
    OBVIOUS
  <2>2. x.kind = "set" /\ x.by = Old /\ x.by[2] = 0
    BY <2>1 DEF Plain, Op, Old
  <2>3. ops = <<>> \/ ops = <<x>>
    <3>1. rows[t] = NoRow \/ rows[t] = OldRow(t)
      BY DEF Init
    <3>2. NoRow.ops = <<>> /\ OldRow(t).ops = <<x>>
      BY <2>1 DEF NoRow, OldRow
    <3> QED  BY <1>3, <3>1, <3>2
  <2>4. CASE ops = <<>>
    <3>1. Len(ops) = 0
      BY <2>4
    <3> QED  BY <3>1 DEF HasWhole
  <2>5. CASE ops = <<x>>
    <3>1. Len(ops) = 1 /\ ops[1] = x
      BY <2>5
    <3>2. \A j \in 1..Len(ops) : j = 1 /\ ops[j] = x
      BY <3>1
    <3>3. PartAt(ops, 1, 1, 1, 1)
      BY <2>2, <3>1, <3>2 DEF PartAt
    <3>4. HasWhole(ops)
      BY <3>1, <3>2, <3>3 DEF HasWhole
    <3> QED  BY <2>2, <3>2, <3>4 DEF IsUsed
  <2> QED  BY <2>3, <2>4, <2>5
<1> QED  BY <1>1, <1>2, <1>3 DEF OnceInv, Stored

(* Steps that store nothing new.                                           *)
LEMMA OnceKept ==
  ASSUME OnceInv, sent' = sent, \A ops : Stored(ops)' => Stored(ops),
         Waiting' \subseteq Waiting, OnePlace'
  PROVE  OnceInv'
<1>1. \A by : IsUsed(by)' <=> IsUsed(by)
  BY DEF IsUsed
<1>2. ASSUME NEW ops, Stored(ops)'
      PROVE  /\ HasWhole(ops)
             /\ \A by \in Waiting' : Absent(by, ops)
             /\ \A i \in 1..Len(ops) : IsUsed(ops[i].by)'
  <2>1. Stored(ops)
    BY <1>2
  <2> QED  BY <1>1, <2>1 DEF OnceInv
<1> QED  BY <1>2 DEF OnceInv

LEMMA SameStored ==
  ASSUME rows' = rows, saves' = saves
  PROVE  \A ops : Stored(ops)' => Stored(ops)
  BY DEF Stored

(* Of what servers have in hand there is less.                             *)
LEMMA FewerInHand ==
  ASSUME net' \subseteq net, InHand' \subseteq InHand, \A s \in InHand' : By(job[s])' = By(job[s])
  PROVE  Waiting' \subseteq Waiting /\ (OnePlace => OnePlace')
<1>1. \A s \in InHand' : By(job'[s]) = By(job[s])
  BY DEF By
<1>2. Waiting' \subseteq Waiting
  BY <1>1 DEF Waiting, By
<1>3. OnePlace => OnePlace'
  BY <1>1 DEF OnePlace, By
<1> QED  BY <1>2, <1>3

(* The number of a request yet to come is nowhere.                         *)
LEMMA NewNumber ==
  ASSUME LogInv, OnceInv, NEW b \in Browsers, NEW by, by = <<b, sent[b] + 1>>
  PROVE  by \notin Waiting /\ \A ops : Stored(ops) => Absent(by, ops)
<1>1. sent[b] \in Nat
  BY BoundAssumption DEF LogInv, ClientInv
<1>2. ASSUME NEW r, IsSent(r) PROVE By(r) # by
  <2>1. r.ctr \in 1..sent[r.from]
    BY <1>2 DEF IsSent
  <2>2. By(r) = by => r.from = b /\ r.ctr = sent[b] + 1
    BY DEF By
  <2> QED  BY <1>1, <2>1, <2>2
<1>3. \A r \in net : IsSent(r)
  BY DEF LogInv, ClientInv
<1>4. \A s \in InHand : IsSent(job[s])
  BY DEF InHand, LogInv, JobsInv
<1>5. by \notin Waiting
  BY <1>2, <1>3, <1>4 DEF Waiting
<1>6. ASSUME NEW ops, Stored(ops), NEW i \in 1..Len(ops) PROVE ops[i].by # by
  <2>1. IsUsed(ops[i].by)
    BY <1>6 DEF OnceInv
  <2>2. by[1] = b /\ by[2] = sent[b] + 1
    OBVIOUS
  <2> QED  BY <1>1, <2>1, <2>2 DEF IsUsed
<1> QED  BY <1>5, <1>6 DEF Absent

(* Each step keeps it.                                                     *)
LEMMA SendOnce ==
  ASSUME LogInv, OnceInv, NEW b \in Browsers, Send(b)
  PROVE  OnceInv'
<1>1. PICK n : n = sent[b] + 1
  OBVIOUS
<1>2. PICK ops : net' = net \cup {[from |-> b, ctr |-> n, ops |-> ops]}
  BY <1>1 DEF Send
<1>3. PICK q : q = [from |-> b, ctr |-> n, ops |-> ops]
  OBVIOUS
<1>4. PICK by : by = <<b, n>>
  OBVIOUS
<1>5. /\ net' = net \cup {q} /\ By(q) = by
      /\ sent' = [sent EXCEPT ![b] = n]
      /\ rows' = rows /\ pc' = pc /\ job' = job /\ saves' = saves
  BY <1>1, <1>2, <1>3, <1>4 DEF Send, server, By
<1>6. by \notin Waiting /\ \A o : Stored(o) => Absent(by, o)
  BY <1>1, <1>4, NewNumber
<1>7. InHand' = InHand
  BY <1>5 DEF InHand
<1>8. Waiting' \subseteq Waiting \cup {by}
  BY <1>5, <1>7 DEF Waiting, By
<1>9. OnePlace'
  <2>1. \A r \in net : By(r) # by
    BY <1>6 DEF Waiting
  <2>2. \A s \in InHand : By(job[s]) # by
    BY <1>6 DEF Waiting
  <2>3. OnePlace
    BY DEF OnceInv
  <2>4. \A r, p \in net' : By(r) = By(p) => r = p
    BY <1>5, <2>1, <2>3 DEF OnePlace
  <2>5. \A s \in InHand : \A r \in net' : By(r) # By(job[s])
    BY <1>5, <2>2, <2>3 DEF OnePlace
  <2> QED  BY <1>5, <1>7, <2>3, <2>4, <2>5 DEF OnePlace, By
<1>10. \A x : IsUsed(x) => IsUsed(x)'
  <2>1. sent \in [Browsers -> 0..MaxSends]
    BY DEF LogInv, ClientInv
  <2>2. \A c \in Browsers : sent[c] \in Nat /\ sent'[c] = IF c = b THEN sent[b] + 1 ELSE sent[c]
    BY <1>1, <1>5, <2>1, BoundAssumption
  <2>3. ASSUME NEW c \in Browsers, NEW k \in 1..sent[c]  PROVE k \in 1..sent'[c]
    BY <2>2
  <2> QED  BY <2>3 DEF IsUsed
<1>11. \A o : Stored(o)' => Stored(o)
  BY <1>5, SameStored
<1>12. ASSUME NEW o, Stored(o)'
       PROVE  /\ HasWhole(o)
              /\ \A x \in Waiting' : Absent(x, o)
              /\ \A i \in 1..Len(o) : IsUsed(o[i].by)'
  <2>1. Stored(o)
    BY <1>11, <1>12
  <2>2. /\ HasWhole(o) /\ \A x \in Waiting : Absent(x, o)
        /\ \A i \in 1..Len(o) : IsUsed(o[i].by)
    BY <2>1 DEF OnceInv
  <2> QED  BY <1>6, <1>8, <1>10, <2>1, <2>2
<1> QED  BY <1>9, <1>12 DEF OnceInv

LEMMA ReceiveOnce ==
  ASSUME LogInv, OnceInv, NEW s \in Servers, NEW r \in net, Receive(s, r)
  PROVE  OnceInv'
<1>1. /\ pc[s] = "idle" /\ net' = net \ {r}
      /\ pc' = [pc EXCEPT ![s] = "counted"]
      /\ job' = [job EXCEPT ![s] = r]
      /\ UNCHANGED <<sent, rows, saves>>
  BY DEF Receive, Take
<1>2. DOMAIN job = Servers /\ pc \in [Servers -> {"idle", "counted", "checked", "saving"}]
  BY DEF LogInv, JobsInv
<1>3. /\ pc'[s] = "counted" /\ job'[s] = r
      /\ \A u \in Servers : u # s => pc'[u] = pc[u] /\ job'[u] = job[u]
  BY <1>1, <1>2
<1>4. s \notin InHand /\ InHand' = InHand \cup {s}
  BY <1>1, <1>3 DEF InHand
<1>5. \A u \in InHand : u # s /\ job'[u] = job[u]
  BY <1>3, <1>4 DEF InHand
<1>6. OnePlace
  BY DEF OnceInv
<1>7. Waiting' \subseteq Waiting
  <2>1. Waiting' = {By(q) : q \in net'} \cup {By(job'[u]) : u \in InHand'}
    BY DEF Waiting, By
  <2> QED  BY <1>1, <1>3, <1>4, <1>5, <2>1 DEF Waiting
<1>8. OnePlace'
  <2>1. \A p, q \in net' : By(p) = By(q) => p = q
    BY <1>1, <1>6 DEF OnePlace
  <2>2. \A q \in net' : q \in net /\ By(q) # By(r)
    BY <1>1, <1>6 DEF OnePlace
  <2>3. \A u \in InHand' : \A q \in net' : By(q) # By(job'[u])
    BY <1>3, <1>4, <1>5, <1>6, <2>2 DEF OnePlace
  <2>4. \A u \in InHand : By(job'[u]) # By(r)
    BY <1>5, <1>6 DEF OnePlace
  <2>5. \A u, v \in InHand : By(job'[u]) = By(job'[v]) => u = v
    BY <1>5, <1>6 DEF OnePlace
  <2>6. \A u, v \in InHand' : By(job'[u]) = By(job'[v]) => u = v
    BY <1>3, <1>4, <2>4, <2>5
  <2> QED  BY <2>1, <2>3, <2>6 DEF OnePlace, By
<1>9. \A ops : Stored(ops)' => Stored(ops)
  BY <1>1, SameStored
<1> QED  BY <1>1, <1>7, <1>8, <1>9, OnceKept

LEMMA CheckLatestOnce ==
  ASSUME LogInv, OnceInv, NEW s \in Servers, CheckLatest(s)
  PROVE  OnceInv'
<1>1. /\ pc[s] = "counted" /\ pc' = [pc EXCEPT ![s] = "checked"]
      /\ UNCHANGED <<sent, net, rows, saves>>
      /\ job' = job \/ \E ops : job' = [job EXCEPT ![s].ops = ops]
  BY DEF CheckLatest, client
<1>2. DOMAIN job = Servers /\ pc \in [Servers -> {"idle", "counted", "checked", "saving"}]
  BY DEF LogInv, JobsInv
<1>3. InHand' = InHand
  BY <1>1, <1>2 DEF InHand
<1>4. \A u \in Servers : By(job'[u]) = By(job[u])
  <2>1. CASE job' = job
    BY <2>1
  <2>2. ASSUME NEW ops, job' = [job EXCEPT ![s].ops = ops]
        PROVE  \A u \in Servers : By(job'[u]) = By(job[u])
    <3>1. job[s] \in Requests
      BY <1>1 DEF LogInv, JobsInv, IsSent
    <3>2. job'[s] = [job[s] EXCEPT !.ops = ops]
      BY <1>2, <2>2
    <3>3. job'[s].from = job[s].from /\ job'[s].ctr = job[s].ctr
      BY <3>1, <3>2 DEF Requests
    <3>4. \A u \in Servers : u # s => job'[u] = job[u]
      BY <1>2, <2>2
    <3> QED  BY <3>3, <3>4 DEF By
  <2> QED  BY <1>1, <2>1, <2>2
<1>5. \A u \in InHand' : By(job[u])' = By(job[u])
  BY <1>4 DEF InHand, By
<1>6. Waiting' \subseteq Waiting /\ OnePlace'
  BY <1>1, <1>3, <1>5, FewerInHand DEF OnceInv
<1>7. \A ops : Stored(ops)' => Stored(ops)
  BY <1>1, SameStored
<1> QED  BY <1>1, <1>6, <1>7, OnceKept

(* A server that puts aside what it has.                                   *)
LEMMA BackOnce ==
  ASSUME LogInv, OnceInv, NEW s \in Servers, Back(s), sent' = sent, net' = net,
         \A t \in Toplevels : Stored(rows'[t].ops)
  PROVE  OnceInv'
<1>1. /\ pc' = [pc EXCEPT ![s] = "idle"]
      /\ job' = [job EXCEPT ![s] = NoJob]
      /\ saves' = [saves EXCEPT ![s] = NoSaves]
  BY DEF Back
<1>2. /\ DOMAIN job = Servers /\ DOMAIN saves = Servers
      /\ pc \in [Servers -> {"idle", "counted", "checked", "saving"}]
  BY DEF LogInv, JobsInv
<1>3. /\ pc'[s] = "idle" /\ DOMAIN saves'[s] = {}
      /\ \A u \in Servers : u # s => pc'[u] = pc[u] /\ job'[u] = job[u] /\ saves'[u] = saves[u]
  BY <1>1, <1>2 DEF NoSaves
<1>4. InHand' \subseteq InHand /\ \A u \in InHand' : u \in Servers /\ u # s
  BY <1>3 DEF InHand
<1>5. \A u \in InHand' : By(job[u])' = By(job[u])
  BY <1>3, <1>4 DEF By
<1>6. Waiting' \subseteq Waiting /\ OnePlace'
  BY <1>4, <1>5, FewerInHand DEF OnceInv
<1>7. \A ops : Stored(ops)' => Stored(ops)
  <2>1. ASSUME NEW ops, NEW u \in Servers, NEW t \in DOMAIN saves'[u], ops = saves'[u][t].ops
        PROVE  Stored(ops)
    BY <1>3, <2>1 DEF Stored
  <2>2. ASSUME NEW ops, Stored(ops)'  PROVE Stored(ops)
    <3>1. \/ \E t \in Toplevels : ops = rows'[t].ops
          \/ \E u \in Servers : \E t \in DOMAIN saves'[u] : ops = saves'[u][t].ops
      BY <2>2 DEF Stored
    <3>2. CASE \E t \in Toplevels : ops = rows'[t].ops
      BY <3>2
    <3> QED  BY <2>1, <3>1, <3>2
  <2> QED  BY <2>2
<1> QED  BY <1>6, <1>7, OnceKept

(* The rows about to be saved gain what the request says of them.          *)
LEMMA AcceptOnce ==
  ASSUME LogInv, WholeInv, OnceInv, NEW s \in Servers, pc[s] = "checked",
         NEW result, Accept(s, result)
  PROVE  OnceInv'
<1>1. PICK r : r = job[s]
  OBVIOUS
<1>2. PICK ops : ops = r.ops
  OBVIOUS
<1>3. /\ pc' = [pc EXCEPT ![s] = "saving"]
      /\ saves' = [saves EXCEPT ![s] = [t \in Tlids(ops) |-> NewRow(t, ops, result.ops)]]
      /\ UNCHANGED <<sent, net, rows, job>>
  BY <1>1, <1>2 DEF Accept, client
<1>4. /\ DOMAIN job = Servers /\ DOMAIN saves = Servers
      /\ pc \in [Servers -> {"idle", "counted", "checked", "saving"}]
      /\ IsSent(r) /\ ops \in Seq(Ops)
  BY <1>1, <1>2 DEF LogInv, JobsInv, IsSent, Requests
<1>5. Whole(ops)
  BY <1>1, <1>2 DEF WholeInv
<1>6. s \in InHand /\ InHand' = InHand \ {s}
  BY <1>3, <1>4 DEF InHand
<1>7. PICK by : by = By(r)
  OBVIOUS
<1>8. Waiting' \subseteq Waiting /\ OnePlace'
  <2>1. \A u \in InHand' : By(job[u])' = By(job[u])
    BY <1>3 DEF By
  <2> QED  BY <1>3, <1>6, <2>1, FewerInHand DEF OnceInv
<1>9. by \in Waiting /\ by \notin Waiting'
  <2>1. OnePlace
    BY DEF OnceInv
  <2>2. \A q \in net : By(q) # by
    BY <1>1, <1>6, <1>7, <2>1 DEF OnePlace
  <2>3. \A u \in InHand' : By(job[u]) # by
    BY <1>1, <1>6, <1>7, <2>1 DEF OnePlace
  <2>4. Waiting' = {By(q) : q \in net} \cup {By(job[u]) : u \in InHand'}
    BY <1>3 DEF Waiting, By
  <2> QED  BY <1>1, <1>6, <1>7, <2>2, <2>3, <2>4 DEF Waiting
<1>10. IsUsed(by)
  BY <1>4, <1>7 DEF IsSent, Requests, IsUsed, By
<1>11. ASSUME NEW t \in Tlids(ops), NEW o, o = NewRow(t, ops, result.ops).ops
       PROVE  /\ HasWhole(o)
              /\ \A x \in Waiting' : Absent(x, o)
              /\ \A i \in 1..Len(o) : IsUsed(o[i].by)
  <2>1. t \in Toplevels
    BY <1>4, TlidsTyped
  <2>2. PICK a : a = rows[t].ops
    OBVIOUS
  <2>3. a \in Seq(Ops)
    BY <2>1, <2>2 DEF LogInv, RowsInv, Renders, RowOf
  <2>4. PICK w : w = Own(ops, t)
    OBVIOUS
  <2>5. o = a \o w
    BY <1>11, <2>2, <2>4 DEF NewRow
  <2>6. PICK I : I = {i \in DOMAIN ops : ops[i].tl = t}
    OBVIOUS
  <2>7. w = Kept(ops, I)
    BY <2>4, <2>6 DEF Own
  <2>8. w \in Seq(Ops) /\ \A k \in 1..Len(w) : \E i \in 1..Len(ops) : w[k] = ops[i]
    BY <1>4, <2>7, KeptMembers
  <2>9. \A i \in 1..Len(ops) : ops[i].by = by
    BY <1>2, <1>4, <1>7 DEF IsSent, By
  <2>10. \A k \in 1..Len(w) : w[k].by = by
    BY <2>8, <2>9
  <2>11. Stored(a)
    BY <2>1, <2>2 DEF Stored
  <2>12. /\ HasWhole(a) /\ \A x \in Waiting : Absent(x, a)
         /\ \A i \in 1..Len(a) : IsUsed(a[i].by)
    BY <2>11 DEF OnceInv
  <2>13. Part(w)
    BY <1>5, <2>4, OwnPart
  <2>14. Absent(by, a)
    BY <1>9, <2>12
  <2>15. HasWhole(a \o w)
    BY <2>3, <2>8, <2>10, <2>12, <2>13, <2>14, AddedWhole
  <2>16. \A i \in 1..Len(o) : (\E k \in 1..Len(a) : o[i] = a[k]) \/ o[i].by = by
    BY <2>3, <2>5, <2>8, <2>10, ConcatMembers
  <2>17. \A x \in Waiting' : Absent(x, o)
    <3> SUFFICES ASSUME NEW x \in Waiting', NEW i \in 1..Len(o)
                 PROVE  o[i].by # x
      BY DEF Absent
    <3>1. x \in Waiting /\ x # by
      BY <1>8, <1>9
    <3>2. \A k \in 1..Len(a) : a[k].by # x
      BY <2>12, <3>1 DEF Absent
    <3> QED  BY <2>16, <3>1, <3>2
  <2>18. \A i \in 1..Len(o) : IsUsed(o[i].by)
    BY <1>10, <2>12, <2>16
  <2> QED  BY <2>5, <2>15, <2>17, <2>18
<1>12. ASSUME NEW o, Stored(o)'
       PROVE  Stored(o) \/ \E t \in Tlids(ops) : o = NewRow(t, ops, result.ops).ops
  <2>1. PICK new : new = saves'[s]
    OBVIOUS
  <2>2. /\ new = [t \in Tlids(ops) |-> NewRow(t, ops, result.ops)]
        /\ \A u \in Servers : u # s => saves'[u] = saves[u]
    BY <1>3, <1>4, <2>1
  <2>3. \/ \E t \in Toplevels : o = rows[t].ops
        \/ \E u \in Servers : \E t \in DOMAIN saves'[u] : o = saves'[u][t].ops
    BY <1>3, <1>12 DEF Stored
  <2>4. CASE \E t \in Toplevels : o = rows[t].ops
    BY <2>4 DEF Stored
  <2>5. ASSUME NEW u \in Servers, NEW t \in DOMAIN saves'[u], o = saves'[u][t].ops, u # s
        PROVE  Stored(o)
    BY <2>2, <2>5 DEF Stored
  <2>6. ASSUME NEW t \in DOMAIN new, o = new[t].ops
        PROVE  \E v \in Tlids(ops) : o = NewRow(v, ops, result.ops).ops
    <3>1. t \in Tlids(ops) /\ new[t] = NewRow(t, ops, result.ops)
      BY <2>2
    <3> QED  BY <2>6, <3>1
  <2> QED  BY <2>1, <2>3, <2>4, <2>5, <2>6
<1>13. \A x : IsUsed(x)' <=> IsUsed(x)
  BY <1>3 DEF IsUsed
<1>14. ASSUME NEW o, Stored(o)'
       PROVE  /\ HasWhole(o)
              /\ \A x \in Waiting' : Absent(x, o)
              /\ \A i \in 1..Len(o) : IsUsed(o[i].by)'
  <2>1. CASE Stored(o)
    BY <1>8, <1>13, <2>1 DEF OnceInv
  <2>2. CASE \E t \in Tlids(ops) : o = NewRow(t, ops, result.ops).ops
    BY <1>11, <1>13, <2>2
  <2> QED  BY <1>12, <1>14, <2>1, <2>2
<1> QED  BY <1>8, <1>14 DEF OnceInv

LEMMA SaveOnce ==
  ASSUME LogInv, OnceInv, NEW s \in Servers, NEW t \in Toplevels, Save(s, t)
  PROVE  OnceInv'
<1>1. /\ pc[s] = "saving" /\ t \in DOMAIN saves[s]
      /\ rows' = [rows EXCEPT ![t] = saves[s][t]]
      /\ UNCHANGED <<sent, net>>
  BY DEF Save, client
<1>2. DOMAIN rows = Toplevels /\ DOMAIN saves = Servers
  BY DEF LogInv, RowsInv, JobsInv
<1>3. ASSUME NEW u \in Toplevels  PROVE Stored(rows'[u].ops)
  BY <1>1, <1>2 DEF Stored
<1>4. CASE Back(s)
  BY <1>1, <1>3, <1>4, BackOnce
<1>5. CASE /\ saves' = [saves EXCEPT ![s] = [u \in DOMAIN @ \ {t} |-> @[u]]]
           /\ pc' = pc /\ job' = job
  <2>1. InHand' = InHand /\ \A u \in InHand' : By(job[u])' = By(job[u])
    BY <1>5 DEF InHand, By
  <2>2. Waiting' \subseteq Waiting /\ OnePlace'
    BY <1>1, <2>1, FewerInHand DEF OnceInv
  <2>3. PICK old : old = saves[s]
    OBVIOUS
  <2>4. PICK new : new = [u \in DOMAIN old \ {t} |-> old[u]]
    OBVIOUS
  <2>5. \A u \in Servers : saves'[u] = IF u = s THEN new ELSE saves[u]
    BY <1>2, <1>5, <2>3, <2>4
  <2>6. \A u \in DOMAIN new : u \in DOMAIN old /\ new[u] = old[u]
    BY <2>4
  <2>7. ASSUME NEW u \in Servers, NEW v \in DOMAIN saves'[u]  PROVE Stored(saves'[u][v].ops)
    <3>1. v \in DOMAIN saves[u] /\ saves'[u][v] = saves[u][v]
      BY <2>3, <2>5, <2>6
    <3> QED  BY <3>1 DEF Stored
  <2>8. ASSUME NEW ops, Stored(ops)'  PROVE Stored(ops)
    <3>1. \/ \E u \in Toplevels : ops = rows'[u].ops
          \/ \E u \in Servers : \E v \in DOMAIN saves'[u] : ops = saves'[u][v].ops
      BY <2>8 DEF Stored
    <3> QED  BY <1>3, <2>7, <3>1
  <2> QED  BY <1>1, <2>2, <2>8, OnceKept
<1> QED  BY <1>4, <1>5 DEF Save

LEMMA OnceStep == LogInv /\ WholeInv /\ OnceInv /\ [Next]_vars => OnceInv'
<1> SUFFICES ASSUME LogInv, WholeInv, OnceInv, [Next]_vars PROVE OnceInv'
  OBVIOUS
<1> HIDE DEF LogInv, WholeInv, OnceInv
<1>1. ASSUME NEW b \in Browsers, Send(b) PROVE OnceInv'
  BY <1>1, SendOnce
<1>2. ASSUME NEW s \in Servers, NEW r \in net, Receive(s, r) PROVE OnceInv'
  BY <1>2, ReceiveOnce
<1>3. ASSUME NEW s \in Servers, CheckLatest(s) PROVE OnceInv'
  BY <1>3, CheckLatestOnce
<1>4. ASSUME NEW s \in Servers, Back(s), UNCHANGED <<sent, net, rows>> PROVE OnceInv'
  <2>1. \A t \in Toplevels : Stored(rows'[t].ops)
    BY <1>4 DEF Stored
  <2> QED  BY <1>4, <2>1, BackOnce
<1>5. ASSUME NEW s \in Servers, NothingToDo(s) \/ ServerDies(s) PROVE OnceInv'
  BY <1>4, <1>5 DEF NothingToDo, ServerDies, client
<1>6. ASSUME NEW s \in Servers, Load(s) PROVE OnceInv'
  <2>1. pc[s] = "checked" /\ \E result : Accept(s, result) \/ Reject(s, result)
    BY <1>6 DEF Load
  <2>2. PICK result : Accept(s, result) \/ Reject(s, result)
    BY <2>1
  <2>3. CASE Accept(s, result)
    BY <2>1, <2>3, AcceptOnce
  <2>4. CASE Reject(s, result)
    BY <1>4, <2>4 DEF Reject, client
  <2> QED  BY <2>2, <2>3, <2>4
<1>7. ASSUME NEW s \in Servers, NEW t \in Toplevels, Save(s, t) PROVE OnceInv'
  BY <1>7, SaveOnce
<1>8. CASE UNCHANGED vars
  <2>1. UNCHANGED <<sent, net, rows, pc, job, saves>>
    BY <1>8 DEF vars, client, server
  <2>2. InHand' = InHand /\ \A u \in InHand' : By(job[u])' = By(job[u])
    BY <2>1 DEF InHand, By
  <2>3. Waiting' \subseteq Waiting /\ OnePlace'
    BY <2>1, <2>2, FewerInHand DEF OnceInv
  <2>4. \A ops : Stored(ops)' => Stored(ops)
    BY <2>1, SameStored
  <2> QED  BY <2>1, <2>3, <2>4, OnceKept
<1> QED  BY <1>1, <1>2, <1>3, <1>5, <1>6, <1>7, <1>8 DEF Next, Handle

(* The requests are whole, always.                                         *)
LEMMA WholeSafe == Spec => []WholeInv
<1>1. LogInv /\ WholeInv /\ [Next]_vars => WholeInv'
  BY WholeStep
<1> QED  BY <1>1, WholeInit, LogSafe, PTL DEF Spec

(* The rows are among what is stored.                                      *)
LEMMA OnceIsWhole == LogInv /\ OnceInv => EditsWhole
<1> SUFFICES ASSUME LogInv, OnceInv, NEW t \in Toplevels, NEW ops, ops = rows[t].ops,
                    NEW j \in DOMAIN ops
             PROVE  \E first, edit, last \in DOMAIN ops :
                      /\ \A i \in DOMAIN ops : ops[i].by = ops[j].by <=> i \in first..last
                      /\ \A i \in first..last : ops[i].kind = "save" <=> i < edit
                      /\ \/ edit - first = last + 1 - edit
                         \/ first = last /\ (ops[j].by = Old \/ ops[j].kind \in {"undo", "redo"})
                         \/ first = edit /\ \A i \in first..last :
                              OrderFree(ops[i]) /\ \A k \in first..(i - 1) : ops[k] # ops[i]
  BY DEF EditsWhole
<1>1. ops \in Seq(Ops)
  BY DEF LogInv, RowsInv, Renders, RowOf
<1>2. DOMAIN ops = 1..Len(ops)
  BY <1>1
<1>3. Stored(ops)
  BY DEF Stored
<1>4. HasWhole(ops)
  BY <1>3 DEF OnceInv
<1>5. PICK first, edit, last \in 1..Len(ops) : PartAt(ops, j, first, edit, last)
  BY <1>2, <1>4 DEF HasWhole
<1>6. /\ \A i \in DOMAIN ops : ops[i].by = ops[j].by <=> i \in first..last
      /\ \A i \in first..last : ops[i].kind = "save" <=> i < edit
      /\ \/ edit - first = last + 1 - edit
         \/ first = last /\ (ops[j].by = Old \/ ops[j].kind \in {"undo", "redo"})
         \/ first = edit /\ \A i \in first..last :
              OrderFree(ops[i]) /\ \A k \in first..(i - 1) : ops[k] # ops[i]
  BY <1>2, <1>5 DEF PartAt
<1>7. first \in DOMAIN ops /\ edit \in DOMAIN ops /\ last \in DOMAIN ops
  BY <1>2, <1>5
<1> WITNESS first \in DOMAIN ops, edit \in DOMAIN ops, last \in DOMAIN ops
<1> QED  BY <1>6

(* However many servers rewrite a row from what they loaded before, and    *)
(* wherever they die, what it has of a request is there once and together: *)
(* its edits, one or several, right after as many savepoints; an undo or a *)
(* redo; or, of a late request, ops that are no savepoints, none of them   *)
(* twice (Encoders.ops, filter_ops_received_out_of_order, add_ops).        *)
THEOREM RowsHaveWhole == Spec => []EditsWhole
<1>1. LogInv /\ WholeInv /\ OnceInv /\ [Next]_vars => OnceInv'
  BY OnceStep
<1> QED  BY <1>1, OnceInit, OnceIsWhole, LogSafe, WholeSafe, PTL DEF Spec

-----------------------------------------------------------------------------
(* The past and the future that OpLog gives a row, in the terms above.     *)
TheRedo(t) == Plain("redo", t, <<>>)

InTerms ==
  \A t \in Toplevels : /\ Past(t) = Was(rows[t].ops, t)
                       /\ Future(t) = Ahead(rows[t].ops, TheRedo(t), t)

(* The future is what is ahead of the row,                                 *)
LEMMA FutureIsAhead ==
  ASSUME NEW t PROVE Future(t) = Ahead(rows[t].ops, TheRedo(t), t)
  BY DEF Future, WithRedos, Ahead, Then, Redos, TheRedo

(* and the past what was behind it.                                        *)
LEMMA PastIsBehind ==
  ASSUME NEW t PROVE Past(t) = Behind(WithRedos(t, 0).ops, t)
<1> DEFINE v == WithRedos(t, 0).ops
           B(red) == [i \in DOMAIN red |-> Replayed(SubSeq(red, 1, i - 1), t)]
           S(red, before) == Kept(before, {i \in Savepoints(red) : \E j \in Savepoints(red) : j <= i /\ before[j] # Nothing})
           F(red) == CHOOSE y \in {S(red, b) : b \in {B(red)}} : TRUE
<1>1. Past(t) = CHOOSE y \in {F(x) : x \in {v}} : TRUE
  BY DEF Past, Once, Savepoints
<1>2. {F(x) : x \in {v}} = {F(v)}
  <2> HIDE DEF v, F
  <2> QED  BY Zenon
<1>3. Past(t) = F(v)
  <2>1. PICK z : z = F(v)
    BY Zenon
  <2> HIDE DEF F, v
  <2>2. (CHOOSE y \in {z} : TRUE) = z
    BY Alone
  <2> QED  BY <1>1, <1>2, <2>1, <2>2
<1>4. F(v) = S(v, B(v))
  <2>1. PICK b : b = B(v)
    BY Zenon
  <2>2. F(v) = CHOOSE y \in {S(v, c) : c \in {b}} : TRUE
    BY <2>1
  <2> HIDE DEF S, F, v, B
  <2>3. {S(v, c) : c \in {b}} = {S(v, b)}
    BY Zenon
  <2>4. PICK z : z = S(v, b)
    BY Zenon
  <2>5. (CHOOSE y \in {z} : TRUE) = z
    BY Alone
  <2> QED  BY <2>1, <2>2, <2>3, <2>4, <2>5
<1>5. S(v, B(v)) = Behind(v, t)
  BY DEF Behind, Before, Noticed
<1> QED  BY <1>3, <1>4, <1>5

(* So it is for every row, in a state of the log                           *)
LEMMA LogTerms == LogInv => InTerms
<1> SUFFICES ASSUME LogInv, NEW t \in Toplevels
             PROVE  Past(t) = Was(rows[t].ops, t) /\ Future(t) = Ahead(rows[t].ops, TheRedo(t), t)
  BY DEF InTerms
<1>1. rows[t].ops \in Seq(Ops)
  BY DEF LogInv, RowsInv, Renders, RowOf
<1>2. WithRedos(t, 0) = Then(rows[t].ops, TheRedo(t), 0)
  BY DEF WithRedos, Then, Redos, TheRedo
<1>3. Then(rows[t].ops, TheRedo(t), 0) = Preprocess(rows[t].ops)
  BY <1>1, ThenNone
<1>4. Past(t) = Was(rows[t].ops, t)
  BY <1>2, <1>3, PastIsBehind DEF Was
<1> QED  BY <1>4, FutureIsAhead

(* and in the one after it.                                                *)
LEMMA LogTermsNext == LogInv' => InTerms'
  BY LogTerms, PTL

(* The ops of one toplevel, and the redo that Future asks with.            *)
OpsOf(t) == {op \in Ops : op.tl = t} \cup {TheRedo(t)}

(* They are about that toplevel,                                           *)
LEMMA OpsOfAbout ==
  ASSUME NEW t
  PROVE  About(OpsOf(t), t) /\ TheRedo(t) \in Redo(OpsOf(t))
  BY DEF About, OpsOf, Redo, TheRedo, Plain, Op

(* and what is in its row are such ops.                                    *)
LEMMA OpsOfTyped ==
  ASSUME NEW t, NEW a \in Seq(Ops), \A i \in 1..Len(a) : a[i].tl = t
  PROVE  a \in Seq(OpsOf(t))
<1>1. PICK n \in Nat : n = Len(a)
  BY LenProperties
<1>2. \A i \in 1..n : a[i] \in OpsOf(t)
  BY <1>1, ElementOfSeq DEF OpsOf
<1>3. PICK X : X = OpsOf(t)
  OBVIOUS
<1>4. a = [i \in 1..n |-> a[i]]
  BY <1>1
<1>5. a \in [1..n -> X]
  BY <1>2, <1>3, <1>4
<1> QED  BY <1>3, <1>5

(* A part of a request, in these terms: nothing, an undo or a redo, or     *)
(* edits with savepoints in front of them or none.                         *)
LEMMA PartOf ==
  ASSUME NEW w, Part(w), NEW X, w \in Seq(X)
  PROVE  \/ w = <<>>
         \/ \E x \in X : w = <<x>> /\ x.kind \in {"undo", "redo"}
         \/ \E before \in Seq(Saves(X)), d \in Seq(Changing(X)) : w = before \o d /\ d # <<>>
<1>1. ASSUME NEW before \in Seq(Saves(Ops)), NEW d \in Seq(Changing(Ops)), w = before \o d,
             Len(before) = Len(d), d # <<>>
      PROVE  before \in Seq(Saves(X)) /\ d \in Seq(Changing(X))
  <2>1. PICK n \in Nat : n = Len(before) /\ n = Len(d)
    BY <1>1, LenProperties
  <2>2. before \in Seq(Ops) /\ d \in Seq(Ops)
    BY DEF Saves, Changing
  <2>3. /\ Len(w) = n + n
        /\ \A i \in 1..(n + n) : w[i] = IF i <= n THEN before[i] ELSE d[i - n]
    <3>1. /\ Len(w) = Len(before) + Len(d)
          /\ \A i \in 1..(Len(before) + Len(d)) :
               w[i] = IF i <= Len(before) THEN before[i] ELSE d[i - Len(before)]
      BY <1>1, <2>2, ConcatProperties
    <3> QED  BY <2>1, <3>1, Zenon
  <2>4. \A i \in 1..(n + n) : w[i] \in X
    BY <2>3, ElementOfSeq
  <2>5. ASSUME NEW i \in 1..n PROVE before[i] \in Saves(X)
    <3>1. i \in 1..(n + n) /\ i <= n
      OBVIOUS
    <3>2. w[i] = before[i]
      BY <2>3, <3>1
    <3>3. before[i] \in Saves(Ops)
      BY <2>1, ElementOfSeq
    <3> QED  BY <2>4, <3>1, <3>2, <3>3 DEF Saves
  <2>6. ASSUME NEW i \in 1..n PROVE d[i] \in Changing(X)
    <3>1. PICK k \in 1..(n + n) : k = i + n /\ ~(k <= n) /\ k - n = i
      OBVIOUS
    <3>2. w[k] = d[i]
      BY <2>3, <3>1
    <3>3. d[i] \in Changing(Ops)
      BY <2>1, ElementOfSeq
    <3> QED  BY <2>4, <3>2, <3>3 DEF Changing
  <2>7. PICK B : B = Saves(X)
    OBVIOUS
  <2>8. before = [i \in 1..n |-> before[i]]
    <3>1. before = [i \in 1..Len(before) |-> before[i]]
      BY <2>2
    <3> QED  BY <2>1, <3>1
  <2>9. before \in Seq(B)
    <3>1. before \in [1..n -> B]
      BY <2>5, <2>7, <2>8
    <3> QED  BY <3>1
  <2>10. PICK C : C = Changing(X)
    OBVIOUS
  <2>11. d = [i \in 1..n |-> d[i]]
    BY <2>1
  <2>12. d \in Seq(C)
    <3>1. d \in [1..n -> C]
      BY <2>6, <2>10, <2>11
    <3> QED  BY <3>1
  <2> QED  BY <2>7, <2>9, <2>10, <2>12
<1>2. ASSUME NEW before \in Seq(Saves(Ops)), NEW d \in Seq(Changing(Ops)), w = before \o d,
             Len(before) = Len(d), d = <<>>
      PROVE  w = <<>>
  <2>1. Len(before) = 0
    BY <1>2
  <2>2. before = <<>>
    BY <2>1, EmptySeq
  <2> QED  BY <1>2, <2>2
<1>3. ASSUME NEW op \in Ops, w = <<op>>, op.kind \in {"undo", "redo"}
      PROVE  op \in X
  <2>1. Len(w) = 1 /\ w[1] = op
    BY <1>3
  <2> QED  BY <2>1, ElementOfSeq
<1>4. ASSUME w \in Seq(Free(Ops)), w # <<>>
      PROVE  \E before \in Seq(Saves(X)), d \in Seq(Changing(X)) : w = before \o d /\ d # <<>>
  <2>1. PICK n \in Nat : n = Len(w)
    BY LenProperties
  <2>2. \A i \in 1..n : w[i] \in Changing(X)
    <3>1. \A i \in 1..n : w[i] \in Free(Ops) /\ w[i] \in X
      BY <1>4, <2>1, ElementOfSeq
    <3> QED  BY <3>1 DEF Free, OrderFree, Changing
  <2>3. PICK C : C = Changing(X)
    OBVIOUS
  <2>4. w = [i \in 1..n |-> w[i]]
    BY <2>1
  <2>5. w \in Seq(C)
    <3>1. w \in [1..n -> C]
      BY <2>2, <2>3, <2>4
    <3> QED  BY <3>1
  <2>6. PICK none : none = <<>>
    OBVIOUS
  <2>7. none \in Seq(Saves(X)) /\ w = none \o w
    BY <2>6, ConcatEmptySeq
  <2> QED  BY <1>4, <2>3, <2>5, <2>7
<1> QED  BY <1>1, <1>2, <1>3, <1>4 DEF Part

(* A row that is saved is one step of the timeline of its toplevel.        *)
LEMMA SaveIsStep ==
  ASSUME LogInv, LoneInv, WholeInv, NEW s \in Servers, NEW t \in Toplevels, Save(s, t), LogInv'
  PROVE  LET a == rows[t].ops
             e == rows'[t].ops
         IN  \/ e = a
             \/ EditOf(a, e, TheRedo(t), t) \/ UndoOf(a, e, TheRedo(t), t) \/ RedoOf(a, e, TheRedo(t), t)
<1>1. PICK a : a = rows[t].ops
  OBVIOUS
<1>2. PICK e : e = rows'[t].ops
  OBVIOUS
<1>3. PICK ops : ops = job[s].ops
  OBVIOUS
<1>4. PICK w : w = Own(ops, t)
  OBVIOUS
<1>5. e = a \o w
  BY <1>1, <1>2, <1>3, <1>4, SaveExtends DEF LoneInv
<1>6. ops \in Seq(Ops) /\ Part(w)
  <2>1. Whole(ops)
    BY <1>3 DEF WholeInv
  <2> QED  BY <1>4, <2>1, WholeFreeOnce, OwnPart
<1>7. w \in Seq(Ops) /\ \A k \in 1..Len(w) : w[k].tl = t
  BY <1>4, <1>6, OwnTyped
<1>8. PICK X : X = OpsOf(t)
  OBVIOUS
<1>9. About(X, t) /\ TheRedo(t) \in Redo(X)
  BY <1>8, OpsOfAbout
<1>10. a \in Seq(X) /\ Preprocess(a).ok
  <2>1. RowOf(rows[t], t, Ops) /\ Preprocess(rows[t].ops).ok
    BY DEF LogInv, RowsInv, Renders
  <2>2. a \in Seq(Ops) /\ (\A i \in 1..Len(a) : a[i].tl = t) /\ Preprocess(a).ok
    BY <1>1, <2>1 DEF RowOf
  <2> QED  BY <1>8, <2>2, OpsOfTyped
<1>11. Preprocess(e).ok
  BY <1>2 DEF LogInv, RowsInv, Renders
<1>12. w \in Seq(X)
  BY <1>7, <1>8, OpsOfTyped
<1>14. \/ w = <<>>
       \/ \E x \in X : w = <<x>> /\ x.kind \in {"undo", "redo"}
       \/ \E before \in Seq(Saves(X)), d \in Seq(Changing(X)) : w = before \o d /\ d # <<>>
  BY <1>6, <1>12, PartOf
<1>15. PICK r : r = TheRedo(t)
  OBVIOUS
<1>16. r \in Redo(X) /\ Preprocess(a \o w).ok
  BY <1>5, <1>9, <1>11, <1>15
<1>17. \/ a \o w = a
       \/ EditOf(a, a \o w, r, t) \/ UndoOf(a, a \o w, r, t) \/ RedoOf(a, a \o w, r, t)
  BY <1>9, <1>10, <1>14, <1>16, LongerIsStep
<1> QED  BY <1>1, <1>2, <1>5, <1>15, <1>17

(* The timeline forgets the same pasts.                                    *)
LEMMA LaterIsAfter == \A p, v : History!After(p, v) = Later(p, v)
  BY DEF History!After, Later

LEMMA SavedIsAgain == \A p, v, n : History!Saved(p, v, n) = Again(p, v, n)
  BY DEF History!Saved, Again, Redos

(* Saving the rows of a request moves each timeline by one step of its     *)
(* own, or not at all.                                                     *)
LEMMA SaveFollows ==
  ASSUME LogInv, LoneInv, WholeInv, NEW s \in Servers, NEW t \in Toplevels, Save(s, t), LogInv'
  PROVE  [History!Next]_(History!vars)
<1>1. InTerms /\ InTerms'
  BY LogTerms, LogTermsNext
<1>2. PICK a : a = rows[t].ops
  OBVIOUS
<1>3. PICK e : e = rows'[t].ops
  OBVIOUS
<1>4. PICK r : r = TheRedo(t)
  OBVIOUS
<1>5. e = a \/ EditOf(a, e, r, t) \/ UndoOf(a, e, r, t) \/ RedoOf(a, e, r, t)
  BY <1>2, <1>3, <1>4, SaveIsStep
<1>6. \A u \in Toplevels : u # t => rows'[u] = rows[u]
  BY SaveExtends DEF LoneInv
<1>7. PICK P : P = [u \in Toplevels |-> Past(u)]
  OBVIOUS
<1>8. PICK P2 : P2 = [u \in Toplevels |-> Past(u)']
  OBVIOUS
<1>9. PICK F : F = [u \in Toplevels |-> Future(u)]
  OBVIOUS
<1>10. PICK F2 : F2 = [u \in Toplevels |-> Future(u)']
  OBVIOUS
<1>11. PICK H : H = [u \in Toplevels |-> rows[u].shown]
  OBVIOUS
<1>12. PICK H2 : H2 = [u \in Toplevels |-> rows'[u].shown]
  OBVIOUS
<1>13. /\ rows[t].shown = Shows(a, t) /\ rows'[t].shown = Shows(e, t)
  <2>1. rows[t].shown = Replayed(Preprocess(rows[t].ops).ops, t)
    BY DEF LogInv, RowsInv, Renders
  <2>2. rows'[t].shown = Replayed(Preprocess(rows'[t].ops).ops, t)
    BY DEF LogInv, RowsInv, Renders
  <2> QED  BY <1>2, <1>3, <2>1, <2>2 DEF Shows
<1>14. \A u \in Toplevels : /\ Past(u) = Was(rows[u].ops, u) /\ Past(u)' = Was(rows'[u].ops, u)
                            /\ Future(u) = Ahead(rows[u].ops, TheRedo(u), u)
                            /\ Future(u)' = Ahead(rows'[u].ops, TheRedo(u), u)
  BY <1>1 DEF InTerms
<1>15. /\ P[t] = Was(a, t) /\ H[t] = Shows(a, t) /\ F[t] = Ahead(a, r, t)
       /\ P2[t] = Was(e, t) /\ H2[t] = Shows(e, t) /\ F2[t] = Ahead(e, r, t)
  BY <1>2, <1>3, <1>4, <1>7, <1>8, <1>9, <1>10, <1>11, <1>12, <1>13, <1>14
<1>16. \A u \in Toplevels : u # t => P2[u] = P[u] /\ H2[u] = H[u] /\ F2[u] = F[u]
  BY <1>6, <1>7, <1>8, <1>9, <1>10, <1>11, <1>12, <1>14
<1>17. /\ P2 = [P EXCEPT ![t] = P2[t]] /\ H2 = [H EXCEPT ![t] = H2[t]] /\ F2 = [F EXCEPT ![t] = F2[t]]
  BY <1>7, <1>8, <1>9, <1>10, <1>11, <1>12, <1>16
<1>170. /\ P2[t] = P[t] => P2 = P
        /\ H2[t] = H[t] => H2 = H
        /\ F2[t] = F[t] => F2 = F
  <2>1. \A Q, Q2 : /\ Q = [u \in Toplevels |-> Q[u]] /\ Q2 = [u \in Toplevels |-> Q2[u]]
                   /\ \A u \in Toplevels : Q2[u] = Q[u]
                   => Q2 = Q
    OBVIOUS
  <2>2. /\ P = [u \in Toplevels |-> P[u]] /\ P2 = [u \in Toplevels |-> P2[u]]
        /\ H = [u \in Toplevels |-> H[u]] /\ H2 = [u \in Toplevels |-> H2[u]]
        /\ F = [u \in Toplevels |-> F[u]] /\ F2 = [u \in Toplevels |-> F2[u]]
    BY <1>7, <1>8, <1>9, <1>10, <1>11, <1>12
  <2>3. P2[t] = P[t] => P2 = P
    BY <1>16, <2>1, <2>2
  <2>4. H2[t] = H[t] => H2 = H
    BY <1>16, <2>1, <2>2
  <2>5. F2[t] = F[t] => F2 = F
    BY <1>16, <2>1, <2>2
  <2> QED  BY <2>3, <2>4, <2>5
<1>18. CASE e = a
  <2>1. P2 = P /\ H2 = H /\ F2 = F
    BY <1>15, <1>170, <1>18
  <2> QED  BY <1>7, <1>8, <1>9, <1>10, <1>11, <1>12, <2>1 DEF History!vars
<1>19. CASE EditOf(a, e, r, t)
  <2>1. PICK n : n = Len(P2[t]) - Len(P[t])
    OBVIOUS
  <2>2. P2[t] = Again(P[t], H[t], n)
    BY <1>15, <1>19, <2>1 DEF EditOf
  <2>3. P2 = [P EXCEPT ![t] = History!Saved(P[t], H[t], n)]
    BY <1>17, <2>2, SavedIsAgain
  <2>4. H2 = [H EXCEPT ![t] = H2[t]] /\ F2 = [F EXCEPT ![t] = <<>>]
    BY <1>15, <1>17, <1>19 DEF EditOf
  <2>5. History!Edit(t)
    BY <1>7, <1>8, <1>9, <1>10, <1>11, <1>12, <2>1, <2>3, <2>4 DEF History!Edit
  <2> QED  BY <2>5 DEF History!Next
<1>20. CASE UndoOf(a, e, r, t)
  <2>1. F2 = [F EXCEPT ![t] = <<H[t]>> \o F[t]]
    BY <1>15, <1>17, <1>20 DEF UndoOf
  <2>2. IF P[t] = <<>>
        THEN H2 = [H EXCEPT ![t] = Nothing] /\ P2 = P
        ELSE /\ H2 = [H EXCEPT ![t] = P[t][Len(P[t])]]
             /\ P2 = [P EXCEPT ![t] = SubSeq(P[t], 1, Len(P[t]) - 1)]
    <3>1. IF P[t] = <<>>
          THEN H2[t] = Nothing /\ P2[t] = P[t]
          ELSE H2[t] = P[t][Len(P[t])] /\ P2[t] = SubSeq(P[t], 1, Len(P[t]) - 1)
      BY <1>15, <1>20 DEF UndoOf
    <3>2. CASE P[t] = <<>>
      BY <1>17, <1>170, <3>1, <3>2
    <3>3. CASE P[t] # <<>>
      BY <1>17, <3>1, <3>3, Zenon
    <3> QED  BY <3>2, <3>3
  <2>3. History!Undo(t)
    BY <1>7, <1>8, <1>9, <1>10, <1>11, <1>12, <2>1, <2>2 DEF History!Undo
  <2> QED  BY <2>3 DEF History!Next
<1>21. CASE RedoOf(a, e, r, t)
  <2>1. /\ F[t] # <<>> /\ H2 = [H EXCEPT ![t] = Head(F[t])] /\ F2 = [F EXCEPT ![t] = Tail(F[t])]
        /\ P2 = [P EXCEPT ![t] = Later(P[t], H[t])]
    BY <1>15, <1>17, <1>21 DEF RedoOf
  <2>2. History!Redo(t)
    BY <1>7, <1>8, <1>9, <1>10, <1>11, <1>12, <2>1, LaterIsAfter DEF History!Redo
  <2> QED  BY <2>2 DEF History!Next
<1> QED  BY <1>5, <1>18, <1>19, <1>20, <1>21

(* The other steps leave the rows alone.                                   *)
LEMMA OthersStutter ==
  ASSUME LogInv, LogInv', rows' = rows
  PROVE  UNCHANGED History!vars
<1>1. InTerms /\ InTerms'
  BY LogTerms, LogTermsNext
<1>2. \A u \in Toplevels : /\ Past(u)' = Past(u) /\ Future(u)' = Future(u)
                           /\ rows'[u].shown = rows[u].shown
  BY <1>1 DEF InTerms
<1> QED  BY <1>2 DEF History!vars

(* Every step does.                                                        *)
LEMMA StepFollowsTimeline ==
  LogInv /\ LoneInv /\ WholeInv /\ [Next]_vars /\ LogInv' => [History!Next]_(History!vars)
<1> SUFFICES ASSUME LogInv, LoneInv, WholeInv, [Next]_vars, LogInv' PROVE [History!Next]_(History!vars)
  OBVIOUS
<1> HIDE DEF LogInv, LoneInv
<1>1. ASSUME NEW s \in Servers, NEW t \in Toplevels, Save(s, t) PROVE [History!Next]_(History!vars)
  BY <1>1, SaveFollows
<1>2. CASE rows' = rows
  BY <1>2, OthersStutter
<1>3. ASSUME NEW s \in Servers, Load(s) PROVE rows' = rows
  BY <1>3 DEF Load, Accept, Reject
<1>4. (\E s \in Servers, t \in Toplevels : Save(s, t)) \/ rows' = rows
  BY <1>3 DEF Next, Handle, Send, Receive, Take, CheckLatest, NothingToDo, ServerDies, vars
<1> QED  BY <1>1, <1>2, <1>4

(* At the start there is nothing to undo or redo.                          *)
LEMMA StartFollowsTimeline == Init /\ LogInv => History!Init
<1> SUFFICES ASSUME Init, LogInv PROVE History!Init
  OBVIOUS
<1>1. InTerms
  BY LogTerms
<1>2. ASSUME NEW t \in Toplevels PROVE Past(t) = <<>> /\ Future(t) = <<>>
  <2>1. PICK X : X = OpsOf(t)
    OBVIOUS
  <2>2. PICK r : r = TheRedo(t)
    OBVIOUS
  <2>3. About(X, t) /\ r \in Redo(X)
    BY <2>1, <2>2, OpsOfAbout
  <2>4. PICK e : e = <<>>
    OBVIOUS
  <2>5. e \in Seq(X) /\ Len(e) = 0
    BY <2>4
  <2>6. Ahead(e, r, t) = <<>>
    <3>1. PICK f : f = Ahead(e, r, t)
      OBVIOUS
    <3>2. {n \in 1..Len(e) : Then(e, r, n).ok} = {}
      BY <2>5
    <3>3. f = [n \in {} |-> Replayed(Then(e, r, n).ops, t)]
      BY <3>1, <3>2 DEF Ahead
    <3>4. DOMAIN f = {}
      BY <3>3
    <3> QED  BY <3>1, <3>3, <3>4
  <2>7. Was(e, t) = <<>>
    <3>1. Preprocess(e).ops = e
      BY <2>4, PreprocessShort
    <3>2. PICK b : b = Before(e, t)
      OBVIOUS
    <3>3. DOMAIN e = {}
      BY <2>4
    <3>4. Noticed(e, b) = {}
      BY <3>3 DEF Noticed, Savepoints
    <3>5. r \in X
      BY <2>3 DEF Redo
    <3>6. PICK V : b \in Seq(V)
      BY <2>5, <3>2, <3>5, BeforeAppend
    <3>7. Kept(b, {}) = <<>>
      BY <3>6, KeptNone
    <3> QED  BY <3>1, <3>2, <3>4, <3>7 DEF Was, Behind
  <2>8. CASE rows[t].ops = <<>>
    BY <1>1, <2>2, <2>4, <2>6, <2>7, <2>8 DEF InTerms
  <2>9. CASE rows[t].ops = <<Plain("set", t, Old)>>
    <3>1. PICK x : x = Plain("set", t, Old)
      OBVIOUS
    <3>2. x.kind = "set"
      BY <3>1 DEF Plain, Op
    <3>3. x \in X
      <4>1. rows[t].ops \in Seq(Ops) /\ \A i \in 1..Len(rows[t].ops) : rows[t].ops[i].tl = t
        BY DEF LogInv, RowsInv, Renders, RowOf
      <4>2. rows[t].ops \in Seq(X)
        BY <2>1, <4>1, OpsOfTyped
      <4> QED  BY <2>9, <3>1, <4>2
    <3>4. rows[t].ops = Append(e, x)
      BY <2>4, <2>9, <3>1
    <3>5. Ahead(Append(e, x), r, t) = <<>>
      BY <2>3, <2>5, <3>2, <3>3, AheadEdit
    <3>6. Was(Append(e, x), t) = Was(e, t)
      BY <2>5, <3>2, <3>3, EditStep
    <3> QED  BY <1>1, <2>2, <2>7, <3>4, <3>5, <3>6 DEF InTerms
  <2>10. rows[t].ops = <<>> \/ rows[t].ops = <<Plain("set", t, Old)>>
    <3>1. rows[t] = NoRow \/ rows[t] = OldRow(t)
      BY DEF Init
    <3>2. NoRow.ops = <<>> /\ OldRow(t).ops = <<Plain("set", t, Old)>>
      BY DEF NoRow, OldRow
    <3> QED  BY <3>1, <3>2
  <2> QED  BY <2>8, <2>9, <2>10
<1> QED  BY <1>2 DEF History!Init

(* undo.ml (preprocess) replays a row from all of its ops, and canvas.ml   *)
(* (add_ops, save_tlids) replaces a row by the ops it loaded and those of  *)
(* the request; with one server at a time, what a toplevel is, after any   *)
(* number of requests and crashes, is what a stack of pasts and a stack of *)
(* futures make of the undos, the redos and the edits, one at a time; an   *)
(* edit puts what was there on the stack of pasts as often as the request  *)
(* has savepoints for the toplevel (Encoders.ops), which can be twice.     *)
THEOREM AloneFollowsTimeline == ASSUME LoneServer PROVE Spec => FollowsTimeline
<1>1. Init => History!Init
  BY LogInit, StartFollowsTimeline
<1>2. LogInv /\ LoneInv /\ WholeInv /\ [Next]_vars /\ LogInv' => [History!Next]_(History!vars)
  BY StepFollowsTimeline
<1> QED  BY <1>1, <1>2, WholeSafe, LoneSafe, PTL DEF Spec, FollowsTimeline, History!Spec

=============================================================================
