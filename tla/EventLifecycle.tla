--------------------------- MODULE EventLifecycle ---------------------------
(***************************************************************************)
(* What the queue promises of one event, whoever works on it: the finite   *)
(* state machine of docs/production/events.puml, with the status 'missing' *)
(* of later migrations and the edge a pause adds.  There are no processes, *)
(* transactions or schedules here; a step is what one commit may show of   *)
(* the events table.                                                       *)
(***************************************************************************)
EXTENDS Integers

CONSTANTS Ids, RetryLimit

VARIABLES status, retries

vars == <<status, retries>>

Init ==
  /\ status = [e \in Ids |-> "absent"]
  /\ retries = [e \in Ids |-> 0]

(* A commit gives the status st to all of S, whose rows had the status pre.*)
Move(S, pre, st) ==
  /\ \A e \in S : status[e] = pre
  /\ status' = [e \in Ids |-> IF e \in S THEN st ELSE status[e]]
  /\ UNCHANGED retries

Created(S) == Move(S, "absent", "new")
Scheduled(S) == Move(S, "new", "scheduled")
Unscheduled(S) == Move(S, "scheduled", "new")

(* A commit that ends an attempt at e with the status st may create events,*)
(* the ones e's handler emitted.                                           *)
Attempted(e, st, S) ==
  /\ status[e] = "scheduled"
  /\ \A f \in S : status[f] = "absent"
  /\ status' = [f \in Ids |-> IF f = e THEN st
                              ELSE IF f \in S THEN "new"
                              ELSE status[f]]

Succeeded(e, S) == Attempted(e, "done", S) /\ UNCHANGED retries
Missing(e, S) == Attempted(e, "missing", S) /\ UNCHANGED retries

Retried(e, S) ==
  /\ retries[e] < RetryLimit
  /\ Attempted(e, "new", S)
  /\ retries' = [retries EXCEPT ![e] = @ + 1]

GivenUp(e, S) ==
  /\ retries[e] >= RetryLimit
  /\ Attempted(e, "error", S)
  /\ UNCHANGED retries

Next ==
  \/ \E S \in SUBSET Ids : Created(S) \/ Scheduled(S) \/ Unscheduled(S)
  \/ \E e \in Ids, S \in SUBSET Ids :
       Succeeded(e, S) \/ Missing(e, S) \/ Retried(e, S) \/ GivenUp(e, S)

Spec == Init /\ [][Next]_vars

=============================================================================
