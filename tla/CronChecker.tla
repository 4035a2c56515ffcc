----------------------------- MODULE CronChecker -----------------------------
(***************************************************************************)
(* The cron-checker (backend/libbackend/cron.ml, bin/cron_checker.ml):     *)
(* every second it fetches the crons of all canvases, and for each that is *)
(* due inserts an event into the queue and then, by a second statement     *)
(* that commits on its own, a row into cron_records.                       *)
(*                                                                         *)
(* One checker runs in production; a roll-out starts the new pod before    *)
(* the old one has stopped, so Checkers may have two members.              *)
(*                                                                         *)
(* The interval of a cron is a text of its handler that the developer may  *)
(* change at any time; a tick goes by the intervals that it fetched.       *)
(*                                                                         *)
(* Time is relative: age[c] is the time since the last record of c and     *)
(* stops counting once it is as long as any interval.  execution_check     *)
(* reads the clock before it reads cron_records, so that taking the two    *)
(* readings as one step only makes a cron due sooner, never later.         *)
(***************************************************************************)
EXTENDS Integers, FiniteSets

CONSTANTS
  Crons,       \* CRON handlers
  Edited,      \* those that their developer changes meanwhile
  Intervals,   \* the intervals there are, Unparsable for any other text
  Longest,     \* no interval is longer
  Checkers,    \* cron-checker processes
  MaxFaults    \* bound on crashes and failed statements

Unparsable == 0
Never == -1        \* age of a cron without a record
NoCron == "none"
NoCrons == <<>>    \* a function without domain: no crons, no intervals

ASSUME IntervalAssumption == Longest \in Nat /\ Intervals \subseteq 0..Longest
ASSUME EditedAssumption == Edited \subseteq Crons
ASSUME FaultsAssumption == MaxFaults \in Nat
ASSUME CheckersAssumption == IsFiniteSet(Checkers)

VARIABLES
  active,      \* crons that toplevel_oplists lists now
  interval,    \* their intervals there
  age,         \* time since the last cron_record of a cron, or Never
  since,       \* history: time since a cron was last enqueued, or Never
  burst,       \* history: enqueues of a cron since it last became due, or
               \* was given another interval
  lost,        \* history: crons whose last enqueue has no record
  pc,          \* where each checker is
  left,        \* the crons this tick is not done with, and their intervals
  cur,         \* the cron it is at
  faults

crons == <<active, interval>>
clock == <<age, since>>
history == <<burst, lost>>
checker == <<pc, left, cur>>
vars == <<crons, clock, history, checker, faults>>

(* Mutant: a cron without a parsed interval is due at every tick.          *)
ElapsedAlways(c, i) == age[c] >= i

(* parse_interval succeeded and now >= last_ran_at + interval.             *)
Elapsed(c, i) == i # Unparsable /\ age[c] >= i

(* execution_check.  A cron that never ran is due whatever its interval.   *)
Due(c, i) == age[c] = Never \/ Elapsed(c, i)

(* The same by the interval that the cron has now.                         *)
ElapsedNow(c) == Elapsed(c, interval[c])
DueNow(c) == Due(c, interval[c])

Init ==
  /\ active = Crons
  /\ interval \in [Crons -> Intervals]
  /\ age = [c \in Crons |-> Never]
  /\ since = [c \in Crons |-> Never]
  /\ burst = [c \in Crons |-> 0]
  /\ lost = {}
  /\ pc = [p \in Checkers |-> "asleep"]
  /\ left = [p \in Checkers |-> NoCrons]
  /\ cur = [p \in Checkers |-> NoCron]
  /\ faults = 0

-----------------------------------------------------------------------------
(* A unit of time passes.  A cron that becomes due begins a new burst.     *)
OneLater(t) == IF t = Never \/ t >= Longest THEN t ELSE t + 1

Advance ==
  /\ UNCHANGED <<crons, lost, checker, faults>>
  /\ age' = [c \in Crons |-> OneLater(age[c])]
  /\ since' = [c \in Crons |-> OneLater(since[c])]
  /\ burst' = [c \in Crons |-> IF ElapsedNow(c)' /\ ~ElapsedNow(c) THEN 0 ELSE burst[c]]

(* The developer deletes the cron, or brings it back with the same tlid,   *)
Edit(c) ==
  /\ active' = IF c \in active THEN active \ {c} ELSE active \cup {c}
  /\ UNCHANGED <<interval, clock, history, checker, faults>>

(* or gives it another interval.                                           *)
Reschedule(c) ==
  /\ c \in active
  /\ \E i \in Intervals \ {interval[c]} : interval' = [interval EXCEPT ![c] = i]
  /\ burst' = [burst EXCEPT ![c] = 0]
  /\ UNCHANGED <<active, clock, lost, checker, faults>>

(* The second of sleep is over: fetch_active_crons.                        *)
FetchCrons(p) ==
  /\ pc[p] = "asleep"
  /\ pc' = [pc EXCEPT ![p] = "ticking"]
  /\ left' = [left EXCEPT ![p] = [c \in active |-> interval[c]]]
  /\ UNCHANGED <<crons, clock, history, cur, faults>>

Without(crs, c) == [d \in DOMAIN crs \ {c} |-> crs[d]]

(* Mutant: a cron without a record waits for its first interval to pass.   *)
CheckNotNew(p, c) ==
  /\ pc[p] = "ticking"
  /\ c \in DOMAIN left[p]
  /\ IF Elapsed(c, left[p][c])
     THEN /\ pc' = [pc EXCEPT ![p] = "enqueueing"]
          /\ cur' = [cur EXCEPT ![p] = c]
          /\ UNCHANGED left
     ELSE /\ left' = [left EXCEPT ![p] = Without(@, c)]
          /\ UNCHANGED <<pc, cur>>
  /\ UNCHANGED <<crons, clock, history, faults>>

(* check_and_schedule_work_for_cron: the SELECT has no order.              *)
Check(p, c) ==
  /\ pc[p] = "ticking"
  /\ c \in DOMAIN left[p]
  /\ IF Due(c, left[p][c])
     THEN /\ pc' = [pc EXCEPT ![p] = "enqueueing"]
          /\ cur' = [cur EXCEPT ![p] = c]
          /\ UNCHANGED left
     ELSE /\ left' = [left EXCEPT ![p] = Without(@, c)]
          /\ UNCHANGED <<pc, cur>>
  /\ UNCHANGED <<crons, clock, history, faults>>

(* Event_queue.enqueue commits.                                            *)
Enqueue(p) ==
  /\ pc[p] = "enqueueing"
  /\ pc' = [pc EXCEPT ![p] = "recording"]
  /\ since' = [since EXCEPT ![cur[p]] = 0]
  /\ burst' = [burst EXCEPT ![cur[p]] = @ + 1]
  /\ lost' = lost \cup {cur[p]}
  /\ UNCHANGED <<crons, age, left, cur, faults>>

(* Mutant: the record is dated when the next run is due.                   *)
RecordAhead(p) ==
  /\ pc[p] = "recording"
  /\ pc' = [pc EXCEPT ![p] = "ticking"]
  /\ age' = [age EXCEPT ![cur[p]] = -left[p][cur[p]] - 2]
  /\ lost' = lost \ {cur[p]}
  /\ left' = [left EXCEPT ![p] = Without(@, cur[p])]
  /\ cur' = [cur EXCEPT ![p] = NoCron]
  /\ UNCHANGED <<crons, since, burst, faults>>

(* record_execution commits, with the database's NOW().                    *)
Record(p) ==
  /\ pc[p] = "recording"
  /\ pc' = [pc EXCEPT ![p] = "ticking"]
  /\ age' = [age EXCEPT ![cur[p]] = 0]
  /\ lost' = lost \ {cur[p]}
  /\ left' = [left EXCEPT ![p] = Without(@, cur[p])]
  /\ cur' = [cur EXCEPT ![p] = NoCron]
  /\ UNCHANGED <<crons, since, burst, faults>>

(* All checked: the counts go to the trace, and the checker sleeps.        *)
EndTick(p) ==
  /\ pc[p] = "ticking"
  /\ left[p] = NoCrons
  /\ pc' = [pc EXCEPT ![p] = "asleep"]
  /\ UNCHANGED <<crons, clock, history, left, cur, faults>>

(* A statement fails and its exception ends the tick, or the process dies. *)
TickAborts(p) ==
  /\ pc[p] # "asleep"
  /\ faults < MaxFaults
  /\ faults' = faults + 1
  /\ pc' = [pc EXCEPT ![p] = "asleep"]
  /\ left' = [left EXCEPT ![p] = NoCrons]
  /\ cur' = [cur EXCEPT ![p] = NoCron]
  /\ UNCHANGED <<crons, clock, history>>

-----------------------------------------------------------------------------
Step(p) ==
  \/ FetchCrons(p)
  \/ \E c \in Crons : Check(p, c)
  \/ Enqueue(p)
  \/ Record(p)
  \/ EndTick(p)

Next ==
  \/ Advance
  \/ \E c \in Edited : Edit(c) \/ Reschedule(c)
  \/ \E p \in Checkers : Step(p) \/ TickAborts(p)

Spec == Init /\ [][Next]_vars

(* Time passes and a checker goes on.  Nobody has to edit a cron.          *)
FairSpec == Spec /\ WF_vars(Advance) /\ \A p \in Checkers : WF_vars(Step(p))

-----------------------------------------------------------------------------
Ages == {Never} \cup 0..Longest

TypeOK ==
  /\ active \subseteq Crons
  /\ interval \in [Crons -> Intervals]
  /\ age \in [Crons -> Ages]
  /\ since \in [Crons -> Ages]
  /\ burst \in [Crons -> Nat]
  /\ lost \subseteq Crons
  /\ pc \in [Checkers -> {"asleep", "ticking", "enqueueing", "recording"}]
  /\ DOMAIN left = Checkers
  /\ \A p \in Checkers : DOMAIN left[p] \subseteq Crons /\ left[p] \in [DOMAIN left[p] -> Intervals]
  /\ cur \in [Checkers -> Crons \cup {NoCron}]
  /\ faults \in 0..MaxFaults

(* However checkers, failures and changes of intervals interleave, a cron  *)
(* that became due, or has another interval now, is enqueued at most once  *)
(* per checker, and once more per failure; a cron whose interval cannot be *)
(* parsed does not become due, so that this bounds its runs for as long as *)
(* nobody repairs it (cron.ml execution_check, enqueue before record).     *)
BurstBound == \A c \in Crons : burst[c] <= Cardinality(Checkers) + faults

(* A lone checker enqueues a cron no sooner after the time before than the *)
(* interval that it fetched for this tick, unless the cron is lost: after  *)
(* a crash or a failure between the enqueue and the record of that time.   *)
NoEarlyRun ==
  [][\A c \in Crons \ lost : burst'[c] > burst[c] /\ since[c] # Never =>
       \E p \in Checkers : /\ pc[p] = "enqueueing"
                           /\ cur[p] = c
                           /\ left[p][c] # Unparsable
                           /\ since[c] >= left[p][c]]_vars

(* A cron that is due runs, or is deleted, or is given a longer interval:  *)
(* neither the crons before it in the tick nor a failing statement put it  *)
(* off for ever.                                                           *)
DueCronsRun ==
  \A c \in Crons : (c \in active /\ DueNow(c)) ~> (c \notin active \/ ~DueNow(c))

=============================================================================
