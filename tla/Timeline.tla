------------------------------ MODULE Timeline ------------------------------
(***************************************************************************)
(* What undo and redo promise of each toplevel of a canvas: it has a past, *)
(* a present and a future.  An edit forgets the future, an undo moves the  *)
(* present into it, a redo takes it back.  Before the first edit there was *)
(* Nothing, for as long as one undoes.                                     *)
(***************************************************************************)
EXTENDS Integers, Sequences

CONSTANTS Toplevels, Nothing

VARIABLES past, present, future

vars == <<past, present, future>>

Init ==
  /\ past = [t \in Toplevels |-> <<>>]
  /\ future = [t \in Toplevels |-> <<>>]

(* The past is as long as there was something in it.                       *)
After(p, shown) == IF p = <<>> /\ shown = Nothing THEN <<>> ELSE Append(p, shown)

(* What was there is kept as often as the edit has savepoints: none, and   *)
(* it can be undone only with the edit before it; or one for each of its   *)
(* ops, and the first undo takes all of them back, the others show the     *)
(* same again.                                                             *)
Saved(p, shown, n) ==
  IF p = <<>> /\ shown = Nothing THEN <<>> ELSE p \o [i \in 1..n |-> shown]

Edit(t) ==
  /\ future' = [future EXCEPT ![t] = <<>>]
  /\ present' = [present EXCEPT ![t] = present'[t]]
  /\ LET n == Len(past'[t]) - Len(past[t])
     IN  past' = [past EXCEPT ![t] = Saved(@, present[t], n)]

Undo(t) ==
  /\ future' = [future EXCEPT ![t] = <<present[t]>> \o @]
  /\ IF past[t] = <<>>
     THEN /\ present' = [present EXCEPT ![t] = Nothing]
          /\ UNCHANGED past
     ELSE /\ present' = [present EXCEPT ![t] = past[t][Len(past[t])]]
          /\ past' = [past EXCEPT ![t] = SubSeq(@, 1, Len(@) - 1)]

Redo(t) ==
  /\ future[t] # <<>>
  /\ present' = [present EXCEPT ![t] = Head(future[t])]
  /\ future' = [future EXCEPT ![t] = Tail(@)]
  /\ past' = [past EXCEPT ![t] = After(@, present[t])]

Next == \E t \in Toplevels : Edit(t) \/ Undo(t) \/ Redo(t)

Spec == Init /\ [][Next]_vars

=============================================================================
