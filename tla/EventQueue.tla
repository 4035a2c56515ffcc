----------------------------- MODULE EventQueue -----------------------------
(***************************************************************************)
(* Dark's background event queue: the Postgres table "events" shared by    *)
(* the processes that emit events, the one queue-scheduler, the            *)
(* queue-workers and the API servers that pause or block a handler.        *)
(*                                                                         *)
(* Every process talks to the others through the database only, so the     *)
(* grain of an action is one SQL statement, or one transaction when        *)
(* nothing of it is visible before its COMMIT.  Transactions run at        *)
(* READ COMMITTED: a statement sees the rows committed when it starts, and *)
(* looks again at a row it had to wait for.                                *)
(*                                                                         *)
(*   emitter    HttpEmit, Emit                     event_queue.ml enqueue  *)
(*   scheduler  TickStart, TickCommit              queue-scheduler lib.rs  *)
(*   worker     Dequeue .. Finish                  queue_worker.ml         *)
(*   API        AddRule, Unschedule*, RemoveRule   event_queue.ml          *)
(*                                                                         *)
(* The constants FailingSql and Unreadable single out the events on which  *)
(* the code fails the same way every time; MaxFaults bounds the failures   *)
(* that come from outside (a process killed, a connection lost).           *)
(***************************************************************************)
EXTENDS Integers, FiniteSets

CONSTANTS
  MaxEvents,    \* bound on the rows ever inserted into "events"
  Handlers,     \* the WORKER handlers events are addressed to
  Workers,      \* queue-worker processes
  Callers,      \* API server processes that add scheduling rules
  Unreadable,   \* ids of the events whose stored value cannot be parsed back
  FailingSql,   \* ids of the events whose handler always fails an SQL statement
  MaxFaults     \* bound on crashes and lost connections

Ids == 1..MaxEvents
NoRow == 0
NoHandler == "none"
RetryLimit == 2
RuleTypes == {"block", "pause"}
Outcomes == {"done", "error", "missing"}

ASSUME MaxEventsAssumption == MaxEvents \in Nat
ASSUME MaxFaultsAssumption == MaxFaults \in Nat
ASSUME BadEventsAssumption == Unreadable \subseteq Ids /\ FailingSql \subseteq Ids

VARIABLES
  nextId,     \* the SERIAL of events.id: not rolled back with a transaction
  status,     \* committed status of each row, "absent" if there is none
  retries,    \* events.retries
  name,       \* events.name, the handler the event is for
  delayed,    \* rows whose delay_until is still in the future
  rules,      \* scheduling_rules: pairs <<rule_type, handler_name>>
  deployed,   \* handlers the canvas has now
  snap,       \* rows the scheduler's running UPDATE has matched
  pc,         \* where each worker is in dequeue_and_process
  row,        \* the row a worker's transaction has locked, or NoRow
  pending,    \* rows a worker's transaction has inserted, not yet committed
  apc,        \* where each API caller is in add_scheduling_rule
  req,        \* the handler that caller is pausing or blocking
  todo,       \* rows its UPDATE matched and has not come to yet
  held,       \* rows its UPDATE has rewritten (locked until it commits)
  faults,     \* crashes and lost connections so far
  tries,      \* history: attempts at each event whose outcome was committed
  emitter     \* history: the <<event, attempt>> that emitted a row

table == <<nextId, status, retries, name, delayed>>
scheduling == <<rules, deployed, snap>>
worker == <<pc, row, pending>>
api == <<apc, req, todo, held>>
history == <<tries, emitter>>
vars == <<table, scheduling, worker, api, faults, history>>

Outside == <<NoRow, 0>>    \* emitter of what an HTTP handler emitted

-----------------------------------------------------------------------------
Init ==
  /\ nextId = 1
  /\ status = [e \in Ids |-> "absent"]
  /\ retries = [e \in Ids |-> 0]
  /\ name = [e \in Ids |-> NoHandler]
  /\ delayed = {}
  /\ rules = {}
  /\ deployed = Handlers
  /\ snap = {}
  /\ pc = [w \in Workers |-> "idle"]
  /\ row = [w \in Workers |-> NoRow]
  /\ pending = [w \in Workers |-> {}]
  /\ apc = [c \in Callers |-> "idle"]
  /\ req = [c \in Callers |-> NoHandler]
  /\ todo = [c \in Callers |-> {}]
  /\ held = [c \in Callers |-> {}]
  /\ faults = 0
  /\ tries = [e \in Ids |-> 0]
  /\ emitter = [e \in Ids |-> Outside]

Ruled(h) == \E t \in RuleTypes : <<t, h>> \in rules

LockedByWorker(e) == \E w \in Workers : row[w] = e
LockedByCaller(e) == \E c \in Callers : e \in held[c]

Fault ==
  /\ faults < MaxFaults
  /\ faults' = faults + 1

-----------------------------------------------------------------------------
(* Emitting: an INSERT that takes the next id.                             *)

Insert(h) ==
  /\ nextId \in Ids
  /\ nextId' = nextId + 1
  /\ name' = [name EXCEPT ![nextId] = h]

(* emit from an HTTP handler: the INSERT commits by itself.                *)
HttpEmit(h) ==
  /\ Insert(h)
  /\ status' = [status EXCEPT ![nextId] = "new"]
  /\ UNCHANGED <<retries, delayed, scheduling, worker, api, faults, history>>

(* The clock passes the delay_until of a row that was put back.            *)
DelayPasses(e) ==
  /\ e \in delayed
  /\ delayed' = delayed \ {e}
  /\ UNCHANGED <<nextId, status, retries, name, scheduling, worker, api,
                 faults, history>>

(* The developer adds or deletes the handler's code.                       *)
Deploy(h) ==
  /\ deployed' = IF h \in deployed THEN deployed \ {h} ELSE deployed \cup {h}
  /\ UNCHANGED <<table, rules, snap, worker, api, faults, history>>

-----------------------------------------------------------------------------
(* The queue-scheduler: one UPDATE a second.                               *)

(* Mutant: the UPDATE looks for pauses only.                               *)
EligibleThoughBlocked(e) ==
  /\ status[e] = "new"
  /\ e \notin delayed
  /\ <<"pause", name[e]>> \notin rules

(* Mutant: the UPDATE does not look at delay_until.                        *)
EligibleAtOnce(e) ==
  /\ status[e] = "new"
  /\ ~Ruled(name[e])

Eligible(e) ==
  /\ status[e] = "new"
  /\ e \notin delayed
  /\ ~Ruled(name[e])

(* The UPDATE starts: its snapshot fixes the rows and the rules it sees.   *)
TickStart ==
  /\ snap = {}
  /\ snap' = {e \in Ids : Eligible(e)}
  /\ snap' # {}
  /\ UNCHANGED <<table, rules, deployed, worker, api, faults, history>>

(* The UPDATE commits: the rows it rewrote become visible.                 *)
TickCommit ==
  /\ snap # {}
  /\ status' = [e \in Ids |-> IF e \in snap THEN "scheduled" ELSE status[e]]
  /\ snap' = {}
  /\ UNCHANGED <<nextId, retries, name, delayed, rules, deployed, worker, api,
                 faults, history>>

(* tick returns an error, the process exits and is started again.          *)
SchedulerRestarts ==
  /\ snap # {}
  /\ Fault
  /\ snap' = {}
  /\ UNCHANGED <<table, rules, deployed, worker, api, history>>

-----------------------------------------------------------------------------
(* A queue-worker: one transaction per event.                              *)

(* Mutant: the SELECT locks nothing another worker could see.              *)
DequeuableTwice(e) ==
  /\ status[e] = "scheduled"
  /\ ~LockedByCaller(e)

(* Mutant: the SELECT takes new events too, as before there was a scheduler.*)
DequeuableNew(e) ==
  /\ status[e] \in {"new", "scheduled"}
  /\ ~LockedByWorker(e)
  /\ ~LockedByCaller(e)

Dequeuable(e) ==
  /\ status[e] = "scheduled"
  /\ ~LockedByWorker(e)
  /\ ~LockedByCaller(e)

(* BEGIN; SELECT .. ORDER BY id FOR UPDATE SKIP LOCKED LIMIT 1.            *)
Dequeue(w) ==
  /\ pc[w] = "idle"
  /\ \E e \in Ids :
       /\ Dequeuable(e)
       /\ \A f \in 1..(e - 1) : ~Dequeuable(f)
       /\ row' = [row EXCEPT ![w] = e]
  /\ pc' = [pc EXCEPT ![w] = "fetched"]
  /\ UNCHANGED <<table, scheduling, pending, api, faults, history>>

(* Mutant: what the handler emitted outlives its transaction.              *)
ReleaseKeepsPending(w) ==
  /\ pc' = [pc EXCEPT ![w] = "idle"]
  /\ row' = [row EXCEPT ![w] = NoRow]
  /\ UNCHANGED pending

(* The end of the transaction, whichever way it ends.                      *)
Release(w) ==
  /\ pc' = [pc EXCEPT ![w] = "idle"]
  /\ row' = [row EXCEPT ![w] = NoRow]
  /\ pending' = [pending EXCEPT ![w] = {}]

(* COMMIT after put_back gave the row the status st: what the handler      *)
(* emitted becomes visible with it.                                        *)
Commit(w, st) ==
  /\ status' = [e \in Ids |-> IF e = row[w] THEN st
                              ELSE IF e \in pending[w] THEN "new"
                              ELSE status[e]]
  /\ tries' = [tries EXCEPT ![row[w]] = @ + 1]
  /\ Release(w)
  /\ UNCHANGED <<nextId, name, scheduling, api, faults, emitter>>

(* Mutant: put_back gives up one attempt early.                            *)
PutBackErrEarly(w) ==
  \/ /\ retries[row[w]] < RetryLimit - 1
     /\ retries' = [retries EXCEPT ![row[w]] = @ + 1]
     /\ delayed' = delayed \cup {row[w]}
     /\ Commit(w, "new")
  \/ /\ retries[row[w]] >= RetryLimit - 1
     /\ Commit(w, "error")
     /\ UNCHANGED <<retries, delayed>>

(* Mutant: put_back has no limit.                                          *)
PutBackErrForever(w) ==
  /\ retries' = [retries EXCEPT ![row[w]] = @ + 1]
  /\ delayed' = delayed \cup {row[w]}
  /\ Commit(w, "new")

(* put_back `Err.                                                          *)
PutBackErr(w) ==
  \/ /\ retries[row[w]] < RetryLimit
     /\ retries' = [retries EXCEPT ![row[w]] = @ + 1]
     /\ delayed' = delayed \cup {row[w]}
     /\ Commit(w, "new")
  \/ /\ retries[row[w]] >= RetryLimit
     /\ Commit(w, "error")
     /\ UNCHANGED <<retries, delayed>>

(* The transaction comes to nothing: the server rolled it back.            *)
Rollback(w) ==
  /\ Release(w)
  /\ UNCHANGED <<table, scheduling, api, history>>

(* The value does not parse: dequeue raises after it took the row, there   *)
(* is no item to put back, and with_transaction commits an unchanged row.  *)
ValueUnreadable(w) ==
  /\ pc[w] = "fetched"
  /\ row[w] \in Unreadable
  /\ Rollback(w)
  /\ UNCHANGED faults

(* The canvas is loaded with the handlers it has at this moment.           *)
LoadCanvas(w) ==
  /\ pc[w] = "fetched"
  /\ row[w] \notin Unreadable
  /\ pc' = [pc EXCEPT ![w] = IF name[row[w]] \in deployed THEN "running"
                             ELSE "nohandler"]
  /\ UNCHANGED <<table, scheduling, row, pending, api, faults, history>>

LoadFails(w) ==
  /\ pc[w] = "fetched"
  /\ row[w] \notin Unreadable
  /\ PutBackErr(w)

(* Mutant: an event without a handler is left where it is.                 *)
HandlerMissingKept(w) ==
  /\ pc[w] = "nohandler"
  /\ Rollback(w)
  /\ UNCHANGED faults

HandlerMissing(w) ==
  /\ pc[w] = "nohandler"
  /\ Commit(w, "missing")
  /\ UNCHANGED <<retries, delayed>>

(* Mutant: emit has a connection of its own, where it commits at once.     *)
EmitAtOnce(w, h) ==
  /\ pc[w] = "running"
  /\ Insert(h)
  /\ status' = [status EXCEPT ![nextId] = "new"]
  /\ emitter' = [emitter EXCEPT ![nextId] = <<row[w], tries[row[w]] + 1>>]
  /\ UNCHANGED <<retries, delayed, scheduling, worker, api, faults, tries>>

(* emit from a worker's handler: an INSERT in the worker's transaction.    *)
Emit(w, h) ==
  /\ pc[w] = "running"
  /\ Insert(h)
  /\ pending' = [pending EXCEPT ![w] = @ \cup {nextId}]
  /\ emitter' = [emitter EXCEPT ![nextId] = <<row[w], tries[row[w]] + 1>>]
  /\ UNCHANGED <<status, retries, delayed, scheduling, pc, row, api, faults,
                 tries>>

(* The handler returned a value, an error value included.                  *)
Finish(w) ==
  /\ pc[w] = "running"
  /\ row[w] \notin FailingSql
  /\ Commit(w, "done")
  /\ UNCHANGED <<retries, delayed>>

(* An exception that is not an SQL error escaped: put_back `Err works, and *)
(* the COMMIT keeps what the handler had written.                          *)
HandlerRaises(w) ==
  /\ pc[w] = "running"
  /\ row[w] \notin FailingSql
  /\ PutBackErr(w)

(* An SQL statement of the handler failed: the transaction is aborted, so  *)
(* put_back fails too (its exception is swallowed), and COMMIT rolls back. *)
StatementFails(w) ==
  /\ pc[w] = "running"
  /\ row[w] \in FailingSql
  /\ Rollback(w)
  /\ UNCHANGED faults

(* The process is killed, its connection is lost before the COMMIT, or one *)
(* of its own statements fails for a passing reason.                       *)
WorkerCrash(w) ==
  /\ pc[w] # "idle"
  /\ Fault
  /\ Rollback(w)

-----------------------------------------------------------------------------
(* Pausing (developers) and blocking (administrators) a handler.           *)

(* INSERT INTO scheduling_rules .. ON CONFLICT DO NOTHING.                 *)
AddRule(c, t, h) ==
  /\ apc[c] = "idle"
  /\ rules' = rules \cup {<<t, h>>}
  /\ apc' = [apc EXCEPT ![c] = "inserted"]
  /\ req' = [req EXCEPT ![c] = h]
  /\ UNCHANGED <<table, deployed, snap, worker, todo, held, faults, history>>

(* UPDATE events SET status = 'new' WHERE status = 'scheduled': it takes   *)
(* its snapshot, locks and rechecks the rows one by one, and commits.      *)
UnscheduleScan(c) ==
  /\ apc[c] = "inserted"
  /\ apc' = [apc EXCEPT ![c] = "updating"]
  /\ todo' = [todo EXCEPT ![c] = {e \in Ids : /\ status[e] = "scheduled"
                                              /\ name[e] = req[c]}]
  /\ UNCHANGED <<table, scheduling, worker, req, held, faults, history>>

(* Mutant: rows are rewritten whatever became of them during the wait.     *)
UnscheduleRowUnchecked(c, e) ==
  /\ e \in todo[c]
  /\ ~LockedByWorker(e)
  /\ ~LockedByCaller(e)
  /\ todo' = [todo EXCEPT ![c] = @ \ {e}]
  /\ held' = [held EXCEPT ![c] = @ \cup {e}]
  /\ UNCHANGED <<table, scheduling, worker, apc, req, faults, history>>

(* Mutant: rows are rewritten without waiting for the worker that has them.*)
UnscheduleRowNoWait(c, e) ==
  /\ e \in todo[c]
  /\ todo' = [todo EXCEPT ![c] = @ \ {e}]
  /\ held' = [held EXCEPT ![c] = IF status[e] = "scheduled" THEN @ \cup {e}
                                 ELSE @]
  /\ UNCHANGED <<table, scheduling, worker, apc, req, faults, history>>

UnscheduleRow(c, e) ==
  /\ e \in todo[c]
  /\ ~LockedByWorker(e)
  /\ ~LockedByCaller(e)
  /\ todo' = [todo EXCEPT ![c] = @ \ {e}]
  /\ held' = [held EXCEPT ![c] = IF status[e] = "scheduled" THEN @ \cup {e}
                                 ELSE @]
  /\ UNCHANGED <<table, scheduling, worker, apc, req, faults, history>>

UnscheduleCommit(c) ==
  /\ apc[c] = "updating"
  /\ todo[c] = {}
  /\ status' = [e \in Ids |-> IF e \in held[c] THEN "new" ELSE status[e]]
  /\ apc' = [apc EXCEPT ![c] = "idle"]
  /\ req' = [req EXCEPT ![c] = NoHandler]
  /\ held' = [held EXCEPT ![c] = {}]
  /\ UNCHANGED <<nextId, retries, name, delayed, scheduling, worker, todo,
                 faults, history>>

(* The API server dies: the rule is committed already, the UPDATE is       *)
(* rolled back.                                                            *)
ApiDies(c) ==
  /\ apc[c] # "idle"
  /\ Fault
  /\ apc' = [apc EXCEPT ![c] = "idle"]
  /\ req' = [req EXCEPT ![c] = NoHandler]
  /\ todo' = [todo EXCEPT ![c] = {}]
  /\ held' = [held EXCEPT ![c] = {}]
  /\ UNCHANGED <<table, scheduling, worker, history>>

(* Two servers that unschedule the rows of one handler in different orders *)
(* wait for one another; Postgres picks a victim, with the same effect.    *)
Deadlocked(c) ==
  \E S \in SUBSET Callers :
    /\ c \in S
    /\ \A d \in S :
         /\ todo[d] # {}
         /\ \A e \in todo[d] : \E b \in S : e \in held[b]

DeadlockVictim(c) ==
  /\ Deadlocked(c)
  /\ apc' = [apc EXCEPT ![c] = "idle"]
  /\ req' = [req EXCEPT ![c] = NoHandler]
  /\ todo' = [todo EXCEPT ![c] = {}]
  /\ held' = [held EXCEPT ![c] = {}]
  /\ UNCHANGED <<table, scheduling, worker, faults, history>>

(* DELETE FROM scheduling_rules: only the rule of that type.               *)
RemoveRule(t, h) ==
  /\ <<t, h>> \in rules
  /\ rules' = rules \ {<<t, h>>}
  /\ UNCHANGED <<table, deployed, snap, worker, api, faults, history>>

-----------------------------------------------------------------------------
(* Everything a worker does once it has a row, but emit.                   *)
WorkerStep(w) ==
  \/ ValueUnreadable(w)
  \/ LoadCanvas(w)
  \/ LoadFails(w)
  \/ HandlerMissing(w)
  \/ Finish(w)
  \/ HandlerRaises(w)
  \/ StatementFails(w)

CallerStep(c) ==
  \/ UnscheduleScan(c)
  \/ \E e \in Ids : UnscheduleRow(c, e)
  \/ UnscheduleCommit(c)
  \/ DeadlockVictim(c)

Next ==
  \/ \E h \in Handlers : HttpEmit(h) \/ Deploy(h)
  \/ \E e \in Ids : DelayPasses(e)
  \/ TickStart
  \/ TickCommit
  \/ SchedulerRestarts
  \/ \E w \in Workers :
       \/ Dequeue(w)
       \/ WorkerStep(w)
       \/ WorkerCrash(w)
       \/ \E h \in Handlers : Emit(w, h)
  \/ \E c \in Callers :
       \/ CallerStep(c)
       \/ ApiDies(c)
       \/ \E t \in RuleTypes, h \in Handlers : AddRule(c, t, h)
  \/ \E t \in RuleTypes, h \in Handlers : RemoveRule(t, h)

Spec == Init /\ [][Next]_vars

(* The scheduler ticks every second, a worker polls again after a second   *)
(* at most, a handler's code ends, time passes, a server goes on with a    *)
(* statement it has begun, and Postgres looks for deadlocks every second.  *)
(* Nobody has to emit, deploy or pause.                                    *)
Fairness ==
  /\ WF_vars(TickStart)
  /\ WF_vars(TickCommit)
  /\ \A e \in Ids : WF_vars(DelayPasses(e))
  /\ \A w \in Workers : WF_vars(Dequeue(w)) /\ WF_vars(WorkerStep(w))
  /\ \A c \in Callers : WF_vars(CallerStep(c))

FairSpec == Spec /\ Fairness

-----------------------------------------------------------------------------
(* Types.                                                                  *)
TypeOK ==
  /\ nextId \in 1..(MaxEvents + 1)
  /\ status \in [Ids -> {"absent", "new", "scheduled"} \cup Outcomes]
  /\ retries \in [Ids -> 0..RetryLimit]
  /\ name \in [Ids -> Handlers \cup {NoHandler}]
  /\ delayed \subseteq Ids
  /\ rules \subseteq RuleTypes \X Handlers
  /\ deployed \subseteq Handlers
  /\ snap \subseteq Ids
  /\ pc \in [Workers -> {"idle", "fetched", "running", "nohandler"}]
  /\ row \in [Workers -> Ids \cup {NoRow}]
  /\ pending \in [Workers -> SUBSET Ids]
  /\ apc \in [Callers -> {"idle", "inserted", "updating"}]
  /\ req \in [Callers -> Handlers \cup {NoHandler}]
  /\ todo \in [Callers -> SUBSET Ids]
  /\ held \in [Callers -> SUBSET Ids]
  /\ faults \in 0..MaxFaults
  /\ tries \in [Ids -> 0..(RetryLimit + 1)]
  /\ emitter \in [Ids -> (Ids \cup {NoRow}) \X (0..(RetryLimit + 1))]

(* A row is in the hands of one process at a time, a worker or an API      *)
(* server, and whoever has it has a row that is still 'scheduled': put_back*)
(* and the unscheduling UPDATE write without looking at the status again.  *)
ExclusiveRows ==
  /\ \A w \in Workers : row[w] # NoRow =>
       /\ status[row[w]] = "scheduled"
       /\ \A v \in Workers : row[v] = row[w] => v = w
       /\ ~LockedByCaller(row[w])
  /\ \A c \in Callers : \A e \in held[c] :
       /\ status[e] = "scheduled"
       /\ \A d \in Callers : e \in held[d] => d = c

(* No attempt is lost or counted twice by rollbacks, pauses and concurrent *)
(* workers: the attempts that committed are the retries plus the last one, *)
(* and an event is given up as 'error' after exactly three (put_back).     *)
AttemptBudget ==
  \A e \in Ids :
    /\ tries[e] = retries[e] + (IF status[e] \in Outcomes THEN 1 ELSE 0)
    /\ status[e] = "error" => tries[e] = RetryLimit + 1

(* What a worker's handler emits is visible only once the attempt that     *)
(* emitted it has committed (enqueue runs in the worker's transaction).    *)
EmissionAtomic ==
  \A e \in Ids : status[e] # "absent" /\ emitter[e] # Outside =>
    tries[emitter[e][1]] >= emitter[e][2]

(* The five minutes before a retry are never cut short, whoever unschedules*)
(* or schedules the event meanwhile.                                       *)
RetryWaits ==
  \A e \in delayed : status[e] = "new" /\ retries[e] > 0 /\ e \notin snap

(* How the processes and the table keep track of the rows in flight, which *)
(* is what makes the invariants above inductive: an id that was not handed *)
(* out has no row; what a worker has inserted but not committed belongs to *)
(* it alone and to the attempt it is making; a worker has a row exactly    *)
(* while it is busy; what a tick is about to schedule is still new.        *)
UnusedIds ==
  \A e \in Ids : e >= nextId =>
    /\ status[e] = "absent"
    /\ emitter[e] = Outside

PendingRows ==
  \A w \in Workers : \A e \in pending[w] :
    /\ pc[w] = "running"
    /\ e < nextId
    /\ status[e] = "absent"
    /\ emitter[e] = <<row[w], tries[row[w]] + 1>>
    /\ \A v \in Workers : e \in pending[v] => v = w

BusyHasRow ==
  \A w \in Workers : pc[w] = "idle" <=> row[w] = NoRow

SnapshotIsNew ==
  \A e \in snap : status[e] = "new"

Bookkeeping == UnusedIds /\ PendingRows /\ BusyHasRow /\ SnapshotIsNew

(* Nothing of the handler h can start now or through a running tick.       *)
Quiet(h) ==
  \A e \in Ids : name[e] = h => status[e] # "scheduled" /\ e \notin snap

(* Once a paused or blocked handler has gone quiet it stays so, whatever   *)
(* is emitted, retried or deployed, as long as one rule stays.             *)
QuietStaysQuiet ==
  [][\A h \in Handlers : Ruled(h) /\ Quiet(h) /\ Ruled(h)' => Quiet(h)']_vars

(* With the default retry policy and no failing outside world, every event *)
(* of a handler that is not held up reaches a final status.                *)
EventsSettle ==
  \A e \in Ids : []<>(\/ status[e] \in {"absent"} \cup Outcomes
                     \/ Ruled(name[e]))

(* A handler that is paused for good goes quiet for good, although events  *)
(* scheduled around the time of the pause may still run, and although the  *)
(* call may have died, or lost to another in a deadlock, before it was     *)
(* over.                                                                   *)
PausedGoesQuiet ==
  \A h \in Handlers :
    <>[](Ruled(h) /\ \A c \in Callers : req[c] # h) => <>[]Quiet(h)

(* events-fsm: an error takes the event out of 'scheduled', back to 'new'  *)
(* with one retry more, or to 'error'; so a handler that always fails      *)
(* settles.                                                                *)
FailuresSettle ==
  \A e \in FailingSql : []<>(\/ status[e] \in {"absent"} \cup Outcomes
                            \/ Ruled(name[e]))

-----------------------------------------------------------------------------
(* The queue implements the lifecycle of docs/production/events.puml: no   *)
(* process ever takes an event along an edge the diagram does not have.    *)
Lifecycle == INSTANCE EventLifecycle
FollowsLifecycle == Lifecycle!Spec

=============================================================================
