---------------------------- MODULE Subsequence -----------------------------
(***************************************************************************)
(* List.filter, written so that it can be reasoned about: SelectSeq is     *)
(* built into the provers and has no definition that they can open.        *)
(***************************************************************************)
EXTENDS Integers, Sequences

(* The elements of s whose index is in I, in their order.                  *)
Kept(s, I) ==
  LET kept[n \in 0..Len(s)] ==
        IF n = 0 THEN <<>>
        ELSE IF n \in I THEN Append(kept[n - 1], s[n])
        ELSE kept[n - 1]
  IN  kept[Len(s)]

=============================================================================
