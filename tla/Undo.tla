-------------------------------- MODULE Undo --------------------------------
(***************************************************************************)
(* The op list of a toplevel and what it stands for: undo.ml preprocess,   *)
(* which turns a list with undos and redos into one without, and canvas.ml *)
(* apply_op, which replays that.  Pure operators; OpLog is built on them.  *)
(*                                                                         *)
(* An op is a record of its kind, the toplevel it is about, the name it    *)
(* gives to a datastore (NoName for the other kinds), and the request that *)
(* it came with, which stands for the code it carries.  The kinds:         *)
(*                                                                         *)
(*   save     TLSavepoint              create   CreateDBWithBlankOr        *)
(*   set      SetHandler               rename   RenameDBname               *)
(*   delete   DeleteTL                 undo, redo   UndoTL, RedoTL         *)
(*   addcol   AddDBCol, AddDBColToDBMigration                              *)
(*   coltype  SetDBColType                                                 *)
(*   retype   ChangeDBColType, SetDBColTypeInDBMigration                   *)
(***************************************************************************)
EXTENDS Subsequence, SequencesExt

NoName == "none"
Op(kind, t, name, by) == [kind |-> kind, tl |-> t, name |-> name, by |-> by]
Plain(kind, t, by) == Op(kind, t, NoName, by)

SavepointOf(op, t) == op.kind = "save" /\ op.tl = t

(* The toplevels a list of ops is about: List.map tlidOf.                  *)
Tlids(ops) == {ops[i].tl : i \in DOMAIN ops}

Own(ops, t) == Kept(ops, {i \in DOMAIN ops : ops[i].tl = t})

(* F(v), with v evaluated once: TLC passes arguments by name.              *)
Once(v, F(_)) == CHOOSE y \in {F(x) : x \in {v}} : TRUE

-----------------------------------------------------------------------------
(* Steps 1 and 2, from the back: a redo takes out the undo just before it, *)
(* stays next to another redo of the same toplevel, and is an error next   *)
(* to anything else.                                                       *)
PairOff(op, acc) ==
  IF acc.ops = <<>> \/ Head(acc.ops).kind # "redo"
  THEN [acc EXCEPT !.ops = <<op>> \o @]
  ELSE IF op.tl # Head(acc.ops).tl \/ op.kind \notin {"undo", "redo"}
       THEN [acc EXCEPT !.ok = FALSE]
       ELSE [acc EXCEPT !.ops = IF op.kind = "undo" THEN Tail(@)
                                ELSE <<op>> \o @]

Paired(ops) ==
  LET paired[k \in 0..Len(ops)] ==
        IF k = 0 THEN [ok |-> TRUE, ops |-> <<>>]
        ELSE Once(paired[k - 1], LAMBDA acc : PairOff(ops[Len(ops) + 1 - k], acc))
  IN  paired[Len(ops)]

(* Mutant: an undo goes back to the last savepoint, whosever it is.        *)
DropUndoneAny(ops, op) ==
  IF op.kind # "undo" THEN Append(ops, op)
  ELSE Kept(ops, {i \in DOMAIN ops : \/ ops[i].tl # op.tl
                                     \/ \E j \in (i + 1)..Len(ops) : ops[j].kind = "save"})

(* Mutant: an undo leaves the savepoint it goes back to.                   *)
DropUndoneAfter(ops, op) ==
  IF op.kind # "undo" THEN Append(ops, op)
  ELSE Kept(ops, {i \in DOMAIN ops : \/ ops[i].tl # op.tl
                                     \/ \E j \in i..Len(ops) : SavepointOf(ops[j], op.tl)})

(* Step 3, from the front: an undo drops the ops of its toplevel back to   *)
(* the last savepoint, that included; all of them if there is none.        *)
DropUndone(ops, op) ==
  IF op.kind # "undo" THEN Append(ops, op)
  ELSE Kept(ops, {i \in DOMAIN ops : \/ ops[i].tl # op.tl
                                     \/ \E j \in (i + 1)..Len(ops) : SavepointOf(ops[j], op.tl)})

Dropped(ops) ==
  LET dropped[k \in 0..Len(ops)] ==
        IF k = 0 THEN <<>>
        ELSE Once(dropped[k - 1], LAMBDA acc : DropUndone(acc, ops[k]))
  IN  dropped[Len(ops)]

(* Redos can be left at the head of the list only; apply_op rejects them.  *)
Preprocess(ops) ==
  Once(Paired(ops), LAMBDA paired :
    [ok |-> paired.ok /\ (paired.ops = <<>> \/ Head(paired.ops).kind # "redo"),
     ops |-> Once(paired.ops, Dropped)])

-----------------------------------------------------------------------------
(* What a canvas shows of a toplevel: the request that last gave it its    *)
(* code, its name if it is a datastore, and whether it is deleted.         *)
Nothing == [by |-> <<>>, name |-> NoName, gone |-> FALSE]

Live(shown) == shown # Nothing /\ ~shown.gone

(* apply_op.  What is done to a datastore that is not there changes        *)
(* nothing; deleting what is deleted takes it out of the deleted ones too. *)
Applied(shown, op) ==
  CASE op.kind \in {"set", "create"} -> [by |-> op.by, name |-> op.name,
                                         gone |-> FALSE]
    [] op.kind = "rename" /\ Live(shown) -> [shown EXCEPT !.by = op.by,
                                                          !.name = op.name]
    [] op.kind \in {"addcol", "coltype", "retype"} /\ Live(shown) -> [shown EXCEPT !.by = op.by]
    [] op.kind = "delete" -> IF Live(shown) THEN [shown EXCEPT !.gone = TRUE]
                             ELSE Nothing
    [] OTHER -> shown

Replay(ops) ==
  LET shown[k \in 0..Len(ops)] ==
        IF k = 0 THEN Nothing
        ELSE Once(shown[k - 1], LAMBDA v : Applied(v, ops[k]))
  IN  shown[Len(ops)]

(* The toplevel t after the reduced list.                                  *)
Replayed(reduced, t) == Once(Own(reduced, t), Replay)

=============================================================================
