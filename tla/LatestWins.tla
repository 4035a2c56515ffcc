----------------------------- MODULE LatestWins -----------------------------
(***************************************************************************)
(* What the editor needs of the engine that analyses its programs: of the  *)
(* requests handed to it, those not begun may be dropped for a newer one,  *)
(* but the newest never is, and the answers come in the order in which the *)
(* requests were taken.  Losing an answer is allowed only if it is known.  *)
(***************************************************************************)
EXTENDS Integers, Sequences

CONSTANT Requests    \* numbers, without that of Nothing

VARIABLES
  queue,     \* requests taken and not answered, the oldest first
  newest,    \* the request taken last
  shown,     \* the request whose answer came last
  wedged     \* an answer was lost

vars == <<queue, newest, shown, wedged>>

Nothing == 0

Init ==
  /\ queue = <<>>
  /\ newest = Nothing
  /\ shown = Nothing
  /\ wedged = FALSE

(* The last of the queue may go, but not the one that is being analysed.   *)
ButLast == SubSeq(queue, 1, Len(queue) - 1)

Take(n) ==
  /\ newest' = n
  /\ \/ queue' = Append(queue, n)
     \/ /\ Len(queue) > 1 \/ (wedged /\ Len(queue) = 1)
        /\ queue' = Append(ButLast, n)
  /\ UNCHANGED <<shown, wedged>>

Answer ==
  /\ queue # <<>>
  /\ shown' = Head(queue)
  /\ queue' = Tail(queue)
  /\ UNCHANGED <<newest, wedged>>

(* The answer to one of them will never come.                              *)
Lose ==
  /\ wedged' = TRUE
  /\ \E i \in 1..Len(queue) :
       queue' = SubSeq(queue, 1, i - 1) \o SubSeq(queue, i + 1, Len(queue))
  /\ UNCHANGED <<newest, shown>>

Next ==
  \/ \E n \in Requests : Take(n)
  \/ Answer
  \/ Lose

Spec == Init /\ [][Next]_vars

=============================================================================
