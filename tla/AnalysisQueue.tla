---------------------------- MODULE AnalysisQueue ---------------------------
(***************************************************************************)
(* The two analysis queues of the editor page (client/src/appsupport.js,   *)
(* Dark.analysis): the client hands over a program, a web worker analyses  *)
(* it, and the answer goes back as a "receiveAnalysis" event.              *)
(*                                                                         *)
(* The page and the worker are two threads joined by two FIFO channels.    *)
(* A request made before the worker is there goes into a timer, and again  *)
(* when that fires; all timers have the same delay, so they fire in the    *)
(* order in which they were set.                                           *)
(*                                                                         *)
(* A request is its number: the program as it was at the n-th request.     *)
(***************************************************************************)
EXTENDS AnalysisBoot

CONSTANT MaxRequests     \* bound on the requests of the client

ASSUME RequestsAssumption == MaxRequests \in Nat

Requests == 1..MaxRequests
Null == 0

VARIABLES
  timers,       \* requests in a setTimeout, in the order they will fire
  next,         \* the analysis to run when the one that runs is done
  busy,
  inbox,        \* posted to the worker
  outbox,       \* answered by the worker, not yet seen by the page
  asked,        \* requests made so far
  shown,        \* the request whose answer the client received last
  accepted,     \* history: the request that last got past the timers
  atLoad,       \* history: requests made when the worker was not there yet
  lost          \* history: some answer never came

queue == <<next, busy, inbox, outbox, accepted>>
history == <<atLoad, lost>>
vars == <<engine, faults, timers, queue, asked, shown, history>>

Init ==
  /\ BootInit
  /\ timers = <<>>
  /\ next = Null
  /\ busy = FALSE
  /\ inbox = <<>>
  /\ outbox = <<>>
  /\ asked = 0
  /\ shown = Null
  /\ accepted = Null
  /\ atLoad = 0
  /\ lost = FALSE

-----------------------------------------------------------------------------
(* Mutant: a request that waits is not replaced by a newer one.            *)
FSharpSubmitKeepsOldest(n) ==
  \/ /\ busy
     /\ next' = IF next = Null THEN n ELSE next
     /\ UNCHANGED <<inbox, busy>>
  \/ /\ ~busy
     /\ inbox' = Append(inbox, n)
     /\ busy' = TRUE
     /\ UNCHANGED next

(* fsharpAnalysis.requestAnalysis, once initialized.                       *)
FSharpSubmit(n) ==
  \/ /\ busy
     /\ next' = n
     /\ UNCHANGED <<inbox, busy>>
  \/ /\ ~busy
     /\ inbox' = Append(inbox, n)
     /\ busy' = TRUE
     /\ UNCHANGED next

(* ocamlAnalysis.requestAnalysis, once there is a worker: the flag it asks *)
(* is window.Dark.analysis.busy, which nobody sets; so it never waits.     *)
OCamlSubmit(n) ==
  /\ inbox' = Append(inbox, n)
  /\ busy' = TRUE
  /\ UNCHANGED next

Submit(n) ==
  /\ IF useBlazor THEN FSharpSubmit(n) ELSE OCamlSubmit(n)
  /\ accepted' = n
  /\ UNCHANGED outbox

Postpone(n, others) ==
  /\ timers' = Append(others, n)
  /\ UNCHANGED queue

(* The client asks for the analysis of the program as it is now.           *)
Request ==
  /\ asked < MaxRequests
  /\ asked' = asked + 1
  /\ \/ Loaded /\ Submit(asked + 1) /\ UNCHANGED <<timers, atLoad>>
     \/ ~Loaded /\ Postpone(asked + 1, timers) /\ atLoad' = asked + 1
  /\ UNCHANGED <<engine, faults, shown, lost>>

(* The oldest timer fires.                                                 *)
Retry ==
  /\ timers # <<>>
  /\ \/ Loaded /\ Submit(Head(timers)) /\ timers' = Tail(timers)
     \/ ~Loaded /\ Postpone(Head(timers), Tail(timers))
  /\ UNCHANGED <<engine, faults, asked, shown, history>>

-----------------------------------------------------------------------------
(* Mutant: a worker that analyses several requests at the same time.       *)
WorkAnyOrder ==
  /\ \E i \in DOMAIN inbox :
       /\ outbox' = Append(outbox, inbox[i])
       /\ inbox' = SubSeq(inbox, 1, i - 1) \o SubSeq(inbox, i + 1, Len(inbox))
  /\ UNCHANGED <<engine, faults, timers, next, busy, accepted, asked, shown, history>>

(* The worker analyses a program, with a result or an error.               *)
Work ==
  /\ inbox # <<>>
  /\ listening
  /\ outbox' = Append(outbox, Head(inbox))
  /\ inbox' = Tail(inbox)
  /\ UNCHANGED <<engine, faults, timers, next, busy, accepted, asked, shown, history>>

(* An exception of the worker's own: nothing is posted back.               *)
WorkThrows ==
  /\ inbox # <<>>
  /\ listening
  /\ Fault
  /\ inbox' = Tail(inbox)
  /\ lost' = TRUE
  /\ UNCHANGED <<engine, timers, next, busy, outbox, accepted, asked, shown, atLoad>>

(* Mutant: the next analysis runs, but the flag says it does not.          *)
AnswerNotBusy ==
  /\ outbox # <<>>
  /\ shown' = Head(outbox)
  /\ outbox' = Tail(outbox)
  /\ next' = Null
  /\ busy' = FALSE
  /\ inbox' = IF next = Null THEN inbox ELSE Append(inbox, next)
  /\ UNCHANGED <<engine, faults, timers, accepted, asked, history>>

(* Mutant: next is posted without a look at it.                            *)
AnswerPostsNull ==
  /\ outbox # <<>>
  /\ shown' = Head(outbox)
  /\ outbox' = Tail(outbox)
  /\ next' = Null
  /\ inbox' = Append(inbox, next)
  /\ UNCHANGED <<engine, faults, timers, busy, accepted, asked, history>>

(* Mutant: next is forgotten, and the queue is idle.                       *)
AnswerForgetsNext ==
  /\ outbox # <<>>
  /\ shown' = Head(outbox)
  /\ outbox' = Tail(outbox)
  /\ busy' = (next # Null)
  /\ UNCHANGED <<engine, faults, timers, next, inbox, accepted, asked, history>>

(* The page's onmessage: the answer goes to the client, then the analysis  *)
(* that waits is posted, or the queue is idle.                             *)
Answer ==
  /\ outbox # <<>>
  /\ shown' = Head(outbox)
  /\ outbox' = Tail(outbox)
  /\ \/ /\ next = Null
        /\ busy' = FALSE
        /\ UNCHANGED <<next, inbox>>
     \/ /\ next # Null
        /\ next' = Null
        /\ inbox' = Append(inbox, next)
        /\ UNCHANGED busy
  /\ UNCHANGED <<engine, faults, timers, accepted, asked, history>>

(* decodeOutput raises: the callback ends before it comes to the queue.    *)
AnswerUndecodable ==
  /\ useBlazor
  /\ outbox # <<>>
  /\ Fault
  /\ outbox' = Tail(outbox)
  /\ lost' = TRUE
  /\ UNCHANGED <<engine, timers, next, busy, inbox, accepted, asked, shown, atLoad>>

-----------------------------------------------------------------------------
PageUnchanged == UNCHANGED <<timers, queue, asked, shown, history>>

Boot == BootStep /\ PageUnchanged
LoadFails == BootFails /\ PageUnchanged

Next ==
  \/ Boot
  \/ LoadFails
  \/ Request
  \/ Retry
  \/ Work
  \/ WorkThrows
  \/ Answer
  \/ AnswerUndecodable

Spec == Init /\ [][Next]_vars

(* Loads end, timers fire, the worker takes its messages and the page its  *)
(* answers.  Nobody has to ask for anything.                               *)
FairSpec ==
  Spec /\ WF_vars(Boot) /\ WF_vars(Retry) /\ WF_vars(Work) /\ WF_vars(Answer)

-----------------------------------------------------------------------------
TypeOK ==
  /\ BootTypeOK
  /\ timers \in Seq(Requests)
  /\ next \in Requests \cup {Null}
  /\ busy \in BOOLEAN
  /\ inbox \in Seq(Requests) /\ outbox \in Seq(Requests)
  /\ asked \in 0..MaxRequests
  /\ shown \in Requests \cup {Null} /\ accepted \in Requests \cup {Null}
  /\ atLoad \in 0..asked
  /\ lost \in BOOLEAN

(* "If busy is false, run immediately; else wait until the analysis is     *)
(* done": the worker never has two analyses (appsupport.js 194-196).       *)
OneAtATime == Len(inbox) + Len(outbox) <= 1

(* The F# queue keeps to it.                                               *)
FSharpOneAtATime == useBlazor => OneAtATime

(* A message to a worker that does not listen yet would be dropped: none   *)
(* is ever sent (requestAnalysis and the greeting of BlazorWorker.js).     *)
NothingDropped == inbox # <<>> => listening

(* The answer to an older program comes after that to a newer one only if  *)
(* it was asked for while the worker was loading.                          *)
NoStepBack == [][shown' # shown => shown' > shown \/ shown' <= atLoad]_vars

(* The request taken last is answered, unless a newer one is taken or an   *)
(* answer was lost; the single slot for the next one drops no other.       *)
NewestIsShown ==
  \A n \in Requests : accepted = n ~> (shown = n \/ accepted # n \/ lost)

(* Loading comes to an end, whatever cannot be loaded.                     *)
BootEnds == <>(Loaded \/ boot = "failed")

-----------------------------------------------------------------------------
(* Both queues keep the promise of LatestWins.                             *)
Latest == INSTANCE LatestWins WITH
  queue <- outbox \o inbox \o (IF next = Null THEN <<>> ELSE <<next>>),
  newest <- accepted,
  wedged <- lost
FollowsLatestWins == Latest!Spec

=============================================================================
