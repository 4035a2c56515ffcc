-------------------------- MODULE EventQueueProofs --------------------------
(***************************************************************************)
(* Theorems about EventQueue for any number of events, handlers, workers,  *)
(* API servers and faults, and whichever events fail.                      *)
(***************************************************************************)
EXTENDS EventQueue, TLAPS

(* The inductive invariant.  ExclusiveRows alone is not inductive: that a  *)
(* commit touches nobody else's row needs the pending rows to be absent,   *)
(* that a tick schedules no locked row needs the snapshot to be new, and   *)
(* the types of tries need the attempt budget.                             *)
IInv ==
  /\ TypeOK
  /\ ExclusiveRows
  /\ AttemptBudget
  /\ EmissionAtomic
  /\ RetryWaits
  /\ Bookkeeping

USE DEF Ids, NoRow, RetryLimit, Outcomes

LEMMA InitIInv == Init => IInv
  BY MaxEventsAssumption, MaxFaultsAssumption
  DEF Init, IInv, TypeOK, ExclusiveRows, AttemptBudget, EmissionAtomic,
      RetryWaits, Bookkeeping, UnusedIds, PendingRows, BusyHasRow,
      SnapshotIsNew, LockedByCaller, Outside

(* Steps that leave the table, the workers and the callers' locks alone.   *)
LEMMA UntouchedIInv ==
  ASSUME IInv, UNCHANGED <<table, snap, worker, held, history>>, TypeOK'
  PROVE  IInv'
  BY DEF IInv, TypeOK, ExclusiveRows, AttemptBudget, EmissionAtomic,
         RetryWaits, Bookkeeping, UnusedIds, PendingRows, BusyHasRow,
         SnapshotIsNew, LockedByCaller, table, worker, history, Outside

LEMMA HttpEmitIInv ==
  ASSUME IInv, NEW h \in Handlers, HttpEmit(h)
  PROVE  IInv'
<1> USE DEF IInv, HttpEmit, Insert, scheduling, worker, api, history
<1>1. TypeOK'
  BY MaxEventsAssumption DEF TypeOK
<1>2. ExclusiveRows'
  BY DEF ExclusiveRows, TypeOK, Bookkeeping, UnusedIds, LockedByCaller
<1>3. AttemptBudget'
  BY DEF AttemptBudget, TypeOK, Bookkeeping, UnusedIds
<1>4. EmissionAtomic'
  BY DEF EmissionAtomic, TypeOK, Bookkeeping, UnusedIds
<1>5. RetryWaits'
  BY DEF RetryWaits, TypeOK
<1>6. Bookkeeping'
  BY DEF Bookkeeping, UnusedIds, PendingRows, BusyHasRow, SnapshotIsNew, TypeOK
<1>7. QED
  BY <1>1, <1>2, <1>3, <1>4, <1>5, <1>6

(* Restarting a tick, or the clock.                                        *)
LEMMA ClockIInv ==
  ASSUME IInv, NEW e \in Ids, DelayPasses(e)
  PROVE  IInv'
<1> USE DEF IInv, DelayPasses, scheduling, worker, api, history
<1>1. TypeOK'
  BY DEF TypeOK
<1>2. RetryWaits'
  BY DEF RetryWaits
<1>3. QED
  BY <1>1, <1>2 DEF ExclusiveRows, AttemptBudget, EmissionAtomic, Bookkeeping,
     UnusedIds, PendingRows, BusyHasRow, SnapshotIsNew, LockedByCaller

LEMMA TickStartIInv ==
  ASSUME IInv, TickStart
  PROVE  IInv'
<1> USE DEF IInv, TickStart, table, worker, api, history
<1>1. TypeOK'
  BY DEF TypeOK
<1>2. RetryWaits' /\ SnapshotIsNew'
  BY DEF RetryWaits, SnapshotIsNew, Eligible
<1>3. QED
  BY <1>1, <1>2 DEF ExclusiveRows, AttemptBudget, EmissionAtomic, Bookkeeping,
     UnusedIds, PendingRows, BusyHasRow, LockedByCaller

LEMMA TickCommitIInv ==
  ASSUME IInv, TickCommit
  PROVE  IInv'
<1> USE DEF IInv, TickCommit, worker, api, history
<1>1. TypeOK'
  BY DEF TypeOK
<1>2. ExclusiveRows'
  BY DEF ExclusiveRows, TypeOK, LockedByCaller
<1>3. AttemptBudget'
  BY DEF AttemptBudget, TypeOK, Bookkeeping, SnapshotIsNew
<1>4. EmissionAtomic'
  BY DEF EmissionAtomic, TypeOK, Bookkeeping, SnapshotIsNew
<1>5. RetryWaits'
  BY DEF RetryWaits, TypeOK
<1>6. Bookkeeping'
  BY DEF Bookkeeping, UnusedIds, PendingRows, BusyHasRow, SnapshotIsNew, TypeOK
<1>7. QED
  BY <1>1, <1>2, <1>3, <1>4, <1>5, <1>6

LEMMA SchedulerRestartsIInv ==
  ASSUME IInv, SchedulerRestarts
  PROVE  IInv'
<1> USE DEF IInv, SchedulerRestarts, Fault, table, worker, api, history
<1>1. TypeOK'
  BY MaxFaultsAssumption DEF TypeOK
<1>2. QED
  BY <1>1 DEF ExclusiveRows, AttemptBudget, EmissionAtomic, RetryWaits,
     Bookkeeping, UnusedIds, PendingRows, BusyHasRow, SnapshotIsNew,
     LockedByCaller

-----------------------------------------------------------------------------
(* A worker takes a row, works, and ends its transaction.                  *)

LEMMA DequeueIInv ==
  ASSUME IInv, NEW w \in Workers, Dequeue(w)
  PROVE  IInv'
<1> USE DEF IInv, Dequeue, table, scheduling, api, history
<1>1. TypeOK'
  BY DEF TypeOK
<1>2. ExclusiveRows'
  BY DEF ExclusiveRows, TypeOK, Dequeuable, LockedByWorker, LockedByCaller
<1>3. Bookkeeping'
  BY DEF Bookkeeping, UnusedIds, PendingRows, BusyHasRow, SnapshotIsNew, TypeOK
<1>4. QED
  BY <1>1, <1>2, <1>3 DEF AttemptBudget, EmissionAtomic, RetryWaits

LEMMA LoadCanvasIInv ==
  ASSUME IInv, NEW w \in Workers, LoadCanvas(w)
  PROVE  IInv'
<1> USE DEF IInv, LoadCanvas, table, scheduling, api, history
<1>1. TypeOK'
  BY DEF TypeOK
<1>2. Bookkeeping'
  BY DEF Bookkeeping, UnusedIds, PendingRows, BusyHasRow, SnapshotIsNew, TypeOK
<1>3. QED
  BY <1>1, <1>2 DEF ExclusiveRows, AttemptBudget, EmissionAtomic, RetryWaits,
     LockedByCaller

LEMMA EmitIInv ==
  ASSUME IInv, NEW w \in Workers, NEW h \in Handlers, Emit(w, h)
  PROVE  IInv'
<1> USE DEF IInv, Emit, Insert, scheduling, api
<1>1. row[w] \in Ids /\ status[row[w]] = "scheduled"
  BY DEF TypeOK, ExclusiveRows, Bookkeeping, BusyHasRow
<1>2. tries[row[w]] \in 0..RetryLimit
  BY <1>1 DEF TypeOK, AttemptBudget
<1>3. TypeOK'
  BY <1>1, <1>2, MaxEventsAssumption DEF TypeOK
<1>4. ExclusiveRows'
  BY DEF ExclusiveRows, LockedByCaller
<1>5. AttemptBudget' /\ RetryWaits'
  BY DEF AttemptBudget, RetryWaits
<1>6. EmissionAtomic'
  BY DEF EmissionAtomic, TypeOK, Bookkeeping, UnusedIds
<1>7. Bookkeeping'
  BY DEF Bookkeeping, UnusedIds, PendingRows, BusyHasRow, SnapshotIsNew, TypeOK
<1>8. QED
  BY <1>3, <1>4, <1>5, <1>6, <1>7

LEMMA RollbackIInv ==
  ASSUME IInv, NEW w \in Workers, Rollback(w), faults' \in 0..MaxFaults
  PROVE  IInv'
<1> USE DEF IInv, Rollback, Release, table, scheduling, api, history
<1>1. TypeOK'
  BY DEF TypeOK
<1>2. ExclusiveRows'
  BY DEF ExclusiveRows, TypeOK, LockedByCaller
<1>3. Bookkeeping'
  BY DEF Bookkeeping, UnusedIds, PendingRows, BusyHasRow, SnapshotIsNew, TypeOK
<1>4. QED
  BY <1>1, <1>2, <1>3 DEF AttemptBudget, EmissionAtomic, RetryWaits

(* The worker's row is its own, and it is still scheduled.                 *)
LEMMA BusyRow ==
  ASSUME IInv, NEW w \in Workers, pc[w] # "idle"
  PROVE  /\ row[w] \in Ids
         /\ status[row[w]] = "scheduled"
         /\ row[w] \notin snap
         /\ row[w] \notin delayed
         /\ tries[row[w]] = retries[row[w]]
  BY DEF IInv, TypeOK, ExclusiveRows, AttemptBudget, RetryWaits, Bookkeeping,
         BusyHasRow, SnapshotIsNew

(* What a COMMIT preserves whichever status it gives the row.              *)
LEMMA CommitKeeps ==
  ASSUME IInv, NEW w \in Workers, pc[w] # "idle",
         NEW st \in {"new"} \cup Outcomes, Commit(w, st)
  PROVE  /\ ExclusiveRows'
         /\ EmissionAtomic'
         /\ Bookkeeping'
<1> USE DEF IInv, Commit, Release, scheduling, api
<1>1. row[w] \in Ids /\ status[row[w]] = "scheduled"
  BY BusyRow
<1>2. ExclusiveRows'
  BY <1>1 DEF ExclusiveRows, TypeOK, Bookkeeping, PendingRows, LockedByCaller
<1>3. EmissionAtomic'
  BY <1>1 DEF EmissionAtomic, TypeOK, Bookkeeping, PendingRows, Outside
<1>4. Bookkeeping'
  <2>1. UnusedIds'
    BY <1>1 DEF UnusedIds, PendingRows, TypeOK, Bookkeeping
  <2>2. PendingRows'
    BY <1>1 DEF PendingRows, TypeOK, Bookkeeping, ExclusiveRows, BusyHasRow
  <2>3. BusyHasRow' /\ SnapshotIsNew'
    BY <1>1 DEF BusyHasRow, SnapshotIsNew, TypeOK, Bookkeeping
  <2>4. QED
    BY <2>1, <2>2, <2>3 DEF Bookkeeping
<1>5. QED
  BY <1>2, <1>3, <1>4

LEMMA CommitIInv ==
  ASSUME IInv, NEW w \in Workers, pc[w] # "idle",
         NEW st \in {"done", "missing"}, Commit(w, st),
         UNCHANGED <<retries, delayed>>
  PROVE  IInv'
<1> USE DEF IInv, Commit, Release, scheduling, api
<1>1. /\ row[w] \in Ids
      /\ status[row[w]] = "scheduled"
      /\ row[w] \notin delayed
      /\ tries[row[w]] = retries[row[w]]
  BY BusyRow
<1>2. ExclusiveRows' /\ EmissionAtomic' /\ Bookkeeping'
  BY CommitKeeps
<1>3. TypeOK'
  BY <1>1 DEF TypeOK
<1>4. AttemptBudget'
  BY <1>1 DEF AttemptBudget, TypeOK, Bookkeeping, PendingRows
<1>5. RetryWaits'
  BY <1>1 DEF RetryWaits, TypeOK
<1>6. QED
  BY <1>2, <1>3, <1>4, <1>5

LEMMA PutBackErrIInv ==
  ASSUME IInv, NEW w \in Workers, pc[w] # "idle", PutBackErr(w)
  PROVE  IInv'
<1> USE DEF IInv, Commit, Release, scheduling, api
<1>1. /\ row[w] \in Ids
      /\ status[row[w]] = "scheduled"
      /\ row[w] \notin snap
      /\ row[w] \notin delayed
      /\ tries[row[w]] = retries[row[w]]
  BY BusyRow
<1>2. CASE /\ retries[row[w]] < RetryLimit
           /\ retries' = [retries EXCEPT ![row[w]] = @ + 1]
           /\ delayed' = delayed \cup {row[w]}
           /\ Commit(w, "new")
  <2>1. ExclusiveRows' /\ EmissionAtomic' /\ Bookkeeping'
    BY <1>2, CommitKeeps
  <2>2. TypeOK'
    <3>1. retries[row[w]] \in Nat /\ retries[row[w]] + 1 \in 0..RetryLimit
      BY <1>1, <1>2 DEF TypeOK
    <3>2. retries' \in [Ids -> 0..RetryLimit]
      BY <1>1, <1>2, <3>1 DEF TypeOK
    <3>3. tries' \in [Ids -> 0..(RetryLimit + 1)]
      BY <1>1, <1>2, <3>1 DEF TypeOK
    <3>4. QED
      BY <1>1, <1>2, <3>2, <3>3 DEF TypeOK
  <2>3. AttemptBudget'
    BY <1>1, <1>2 DEF AttemptBudget, TypeOK, Bookkeeping, PendingRows
  <2>4. RetryWaits'
    BY <1>1, <1>2 DEF RetryWaits, TypeOK
  <2>5. QED
    BY <2>1, <2>2, <2>3, <2>4
<1>3. CASE /\ retries[row[w]] >= RetryLimit
           /\ Commit(w, "error")
           /\ UNCHANGED <<retries, delayed>>
  <2>1. ExclusiveRows' /\ EmissionAtomic' /\ Bookkeeping'
    BY <1>3, CommitKeeps
  <2>2. TypeOK'
    BY <1>1, <1>3 DEF TypeOK
  <2>3. AttemptBudget'
    BY <1>1, <1>3 DEF AttemptBudget, TypeOK, Bookkeeping, PendingRows
  <2>4. RetryWaits'
    BY <1>1, <1>3 DEF RetryWaits, TypeOK
  <2>5. QED
    BY <2>1, <2>2, <2>3, <2>4
<1>4. QED
  BY <1>2, <1>3 DEF PutBackErr

-----------------------------------------------------------------------------
(* Rules, and the rows an API server takes back.                           *)

LEMMA UnscheduleRowIInv ==
  ASSUME IInv, NEW c \in Callers, NEW e \in Ids, UnscheduleRow(c, e)
  PROVE  IInv'
<1> USE DEF IInv, UnscheduleRow, table, scheduling, worker, history
<1>1. TypeOK'
  BY DEF TypeOK
<1>2. ExclusiveRows'
  BY DEF ExclusiveRows, TypeOK, LockedByWorker, LockedByCaller
<1>3. QED
  BY <1>1, <1>2 DEF AttemptBudget, EmissionAtomic, RetryWaits, Bookkeeping,
     UnusedIds, PendingRows, BusyHasRow, SnapshotIsNew

LEMMA UnscheduleCommitIInv ==
  ASSUME IInv, NEW c \in Callers, UnscheduleCommit(c)
  PROVE  IInv'
<1> USE DEF IInv, UnscheduleCommit, scheduling, worker, history
<1>1. TypeOK'
  BY DEF TypeOK
<1>2. ExclusiveRows'
  BY DEF ExclusiveRows, TypeOK, LockedByCaller
<1>3. AttemptBudget'
  BY DEF AttemptBudget, ExclusiveRows, TypeOK
<1>4. EmissionAtomic' /\ RetryWaits'
  BY DEF EmissionAtomic, RetryWaits, ExclusiveRows, TypeOK
<1>5. Bookkeeping'
  BY DEF Bookkeeping, UnusedIds, PendingRows, BusyHasRow, SnapshotIsNew,
         ExclusiveRows, TypeOK
<1>6. QED
  BY <1>1, <1>2, <1>3, <1>4, <1>5

LEMMA ApiDiesIInv ==
  ASSUME IInv, NEW c \in Callers, ApiDies(c) \/ DeadlockVictim(c)
  PROVE  IInv'
<1>1. /\ apc' = [apc EXCEPT ![c] = "idle"]
      /\ req' = [req EXCEPT ![c] = NoHandler]
      /\ todo' = [todo EXCEPT ![c] = {}]
      /\ held' = [held EXCEPT ![c] = {}]
      /\ UNCHANGED <<table, scheduling, worker, history>>
  BY DEF ApiDies, DeadlockVictim
<1>2. faults' \in 0..MaxFaults
  BY MaxFaultsAssumption DEF IInv, TypeOK, ApiDies, DeadlockVictim, Fault
<1> USE DEF IInv, table, scheduling, worker, history
<1>3. TypeOK'
  BY <1>1, <1>2 DEF TypeOK
<1>4. ExclusiveRows'
  BY <1>1 DEF ExclusiveRows, TypeOK, LockedByCaller
<1>5. QED
  BY <1>1, <1>3, <1>4 DEF AttemptBudget, EmissionAtomic, RetryWaits, Bookkeeping,
     UnusedIds, PendingRows, BusyHasRow, SnapshotIsNew

(* Actions on the rules, the code and the API servers' program counters.   *)
LEMMA RulesIInv ==
  ASSUME IInv,
         \/ \E h \in Handlers : Deploy(h)
         \/ \E c \in Callers, t \in RuleTypes, h \in Handlers : AddRule(c, t, h)
         \/ \E c \in Callers : UnscheduleScan(c)
         \/ \E t \in RuleTypes, h \in Handlers : RemoveRule(t, h)
  PROVE  IInv'
<1>1. TypeOK'
  <2>1. CASE \E h \in Handlers : Deploy(h)
    BY <2>1 DEF IInv, TypeOK, Deploy, table, worker, api, history
  <2>2. CASE \E c \in Callers, t \in RuleTypes, h \in Handlers : AddRule(c, t, h)
    BY <2>2 DEF IInv, TypeOK, AddRule, table, worker, history
  <2>3. CASE \E c \in Callers : UnscheduleScan(c)
    BY <2>3 DEF IInv, TypeOK, UnscheduleScan, table, scheduling, worker, history
  <2>4. CASE \E t \in RuleTypes, h \in Handlers : RemoveRule(t, h)
    BY <2>4 DEF IInv, TypeOK, RemoveRule, table, worker, api, history
  <2>5. QED
    BY <2>1, <2>2, <2>3, <2>4
<1>2. UNCHANGED <<table, snap, worker, held, history>>
  BY DEF Deploy, AddRule, UnscheduleScan, RemoveRule, scheduling, api
<1>3. QED
  BY <1>1, <1>2, UntouchedIInv

-----------------------------------------------------------------------------
LEMMA NextIInv == IInv /\ [Next]_vars => IInv'
<1> SUFFICES ASSUME IInv, [Next]_vars
             PROVE  IInv'
  OBVIOUS
<1>1. CASE UNCHANGED vars
  <2>1. TypeOK'
    BY <1>1 DEF IInv, TypeOK, vars, table, scheduling, worker, api, history
  <2>2. QED
    BY <1>1, <2>1, UntouchedIInv DEF vars, scheduling, api
<1>2. ASSUME NEW h \in Handlers, HttpEmit(h)
      PROVE  IInv'
  BY <1>2, HttpEmitIInv
<1>3. ASSUME NEW e \in Ids, DelayPasses(e)
      PROVE  IInv'
  BY <1>3, ClockIInv
<1>4. CASE TickStart \/ TickCommit \/ SchedulerRestarts
  BY <1>4, TickStartIInv, TickCommitIInv, SchedulerRestartsIInv
<1>5. ASSUME NEW w \in Workers, Dequeue(w) \/ LoadCanvas(w)
      PROVE  IInv'
  BY <1>5, DequeueIInv, LoadCanvasIInv
<1>6. ASSUME NEW w \in Workers, HandlerMissing(w) \/ Finish(w)
      PROVE  IInv'
  BY <1>6, CommitIInv DEF HandlerMissing, Finish
<1>7. ASSUME NEW w \in Workers, LoadFails(w) \/ HandlerRaises(w)
      PROVE  IInv'
  BY <1>7, PutBackErrIInv DEF LoadFails, HandlerRaises
<1>8. ASSUME NEW w \in Workers,
             ValueUnreadable(w) \/ StatementFails(w) \/ WorkerCrash(w)
      PROVE  IInv'
  <2>1. Rollback(w) /\ faults' \in 0..MaxFaults
    BY <1>8, MaxFaultsAssumption
    DEF ValueUnreadable, StatementFails, WorkerCrash, Fault, IInv, TypeOK
  <2>2. QED
    BY <2>1, RollbackIInv
<1>9. ASSUME NEW w \in Workers, NEW h \in Handlers, Emit(w, h)
      PROVE  IInv'
  BY <1>9, EmitIInv
<1>10. ASSUME NEW c \in Callers,
              \/ \E e \in Ids : UnscheduleRow(c, e)
              \/ UnscheduleCommit(c)
              \/ ApiDies(c)
              \/ DeadlockVictim(c)
       PROVE  IInv'
  BY <1>10, UnscheduleRowIInv, UnscheduleCommitIInv, ApiDiesIInv
<1>11. CASE \/ \E h \in Handlers : Deploy(h)
            \/ \E c \in Callers, t \in RuleTypes, h \in Handlers : AddRule(c, t, h)
            \/ \E c \in Callers : UnscheduleScan(c)
            \/ \E t \in RuleTypes, h \in Handlers : RemoveRule(t, h)
  BY <1>11, RulesIInv
<1>12. QED
  BY <1>1, <1>2, <1>3, <1>4, <1>5, <1>6, <1>7, <1>8, <1>9, <1>10, <1>11
  DEF Next, WorkerStep, CallerStep

LEMMA InvariantHolds == Spec => []IInv
<1>1. Init => IInv
  BY InitIInv
<1>2. IInv /\ [Next]_vars => IInv'
  BY NextIInv
<1>3. QED
  BY <1>1, <1>2, PTL DEF Spec

(* Every variable keeps its type; no counter passes its bound.             *)
THEOREM TypeCorrect == Spec => []TypeOK
  BY InvariantHolds, PTL DEF IInv

(* Two processes never have the same event in hand, and an event in hand   *)
(* is one that is still scheduled.                                         *)
THEOREM RowsAreExclusive == Spec => []ExclusiveRows
  BY InvariantHolds, PTL DEF IInv

(* Attempts are counted exactly, and three are made before giving up.      *)
THEOREM AttemptsAreCounted == Spec => []AttemptBudget
  BY InvariantHolds, PTL DEF IInv

(* No event a handler emitted is visible before that handler's commit.     *)
THEOREM EmissionsAreAtomic == Spec => []EmissionAtomic
  BY InvariantHolds, PTL DEF IInv

(* A retry is not scheduled before its delay is over.                      *)
THEOREM RetriesWait == Spec => []RetryWaits
  BY InvariantHolds, PTL DEF IInv

(* Ids, inserts that are not committed, rows in hand and the scheduler's   *)
(* snapshot are what the code takes them for (enqueue, dequeue, tick).     *)
THEOREM RowsAreAccountedFor == Spec => []Bookkeeping
  BY InvariantHolds, PTL DEF IInv

-----------------------------------------------------------------------------
(* A paused handler stays quiet.  Only a tick makes an event runnable; its *)
(* snapshot has no event of a handler with a rule, nor one whose name is   *)
(* yet to be given.                                                        *)
LEMMA NamesStay ==
  ASSUME IInv, [Next]_vars, NEW e \in Ids, status[e] # "absent"
  PROVE  name'[e] = name[e]
<1>1. \/ UNCHANGED name
      \/ \E h \in Handlers : Insert(h)
  BY DEF Next, WorkerStep, CallerStep, vars, table, HttpEmit, Deploy,
     DelayPasses, TickStart, TickCommit, SchedulerRestarts, Dequeue,
     ValueUnreadable, LoadCanvas, LoadFails, PutBackErr, Commit, Rollback,
     HandlerMissing, Finish, HandlerRaises, StatementFails, WorkerCrash, Emit,
     UnscheduleScan, UnscheduleRow, UnscheduleCommit, ApiDies, DeadlockVictim, AddRule,
     RemoveRule
<1>2. ASSUME NEW h \in Handlers, Insert(h)
      PROVE  name'[e] = name[e]
  <2>1. e # nextId
    BY <1>2 DEF IInv, TypeOK, Bookkeeping, UnusedIds, Insert
  <2>2. QED
    BY <1>2, <2>1 DEF IInv, TypeOK, Insert
<1>3. QED
  BY <1>1, <1>2

(* An event becomes scheduled, or is about to, by a tick only.             *)
LEMMA OnlyTicksSchedule ==
  ASSUME IInv, [Next]_vars, NEW e \in Ids
  PROVE  /\ status'[e] = "scheduled" => status[e] = "scheduled" \/ e \in snap
         /\ e \in snap' => e \in snap \/ Eligible(e)
<1>1. CASE TickStart
  BY <1>1 DEF TickStart, table
<1>2. CASE TickCommit
  BY <1>2 DEF TickCommit, IInv, TypeOK
<1>3. CASE SchedulerRestarts
  BY <1>3 DEF SchedulerRestarts, table
<1>4. CASE /\ UNCHANGED snap
           /\ \/ UNCHANGED status
              \/ \E h \in Handlers : HttpEmit(h)
  BY <1>4 DEF HttpEmit, IInv, TypeOK
<1>5. CASE /\ UNCHANGED snap
           /\ \E w \in Workers, st \in {"new"} \cup Outcomes : Commit(w, st)
  BY <1>5 DEF Commit, IInv, TypeOK
<1>6. CASE /\ UNCHANGED snap
           /\ \E c \in Callers : UnscheduleCommit(c)
  BY <1>6 DEF UnscheduleCommit, IInv, TypeOK
<1>7. QED
  BY <1>1, <1>2, <1>3, <1>4, <1>5, <1>6
  DEF Next, WorkerStep, CallerStep, vars, table, scheduling, HttpEmit, Deploy,
     DelayPasses, Dequeue, ValueUnreadable, LoadCanvas, LoadFails, PutBackErr,
     Commit, Rollback, HandlerMissing, Finish, HandlerRaises, StatementFails,
     WorkerCrash, Emit, UnscheduleScan, UnscheduleRow, UnscheduleCommit,
     ApiDies, DeadlockVictim, AddRule, RemoveRule

LEMMA QuietStep ==
  ASSUME IInv, [Next]_vars, NEW h \in Handlers, Ruled(h), Quiet(h)
  PROVE  Quiet(h)'
<1> SUFFICES ASSUME NEW e \in Ids, name'[e] = h,
                    status'[e] = "scheduled" \/ e \in snap'
             PROVE  FALSE
  BY DEF Quiet
<1>1. status[e] = "scheduled" \/ e \in snap \/ Eligible(e)
  BY OnlyTicksSchedule
<1>2. status[e] # "absent"
  BY <1>1 DEF IInv, Bookkeeping, SnapshotIsNew, Eligible
<1>3. name[e] = h
  BY <1>2, NamesStay
<1>4. QED
  BY <1>1, <1>3 DEF Quiet, Eligible

(* Once a handler with a rule has gone quiet, it stays so while it is      *)
(* ruled, whatever is emitted, retried or deployed (add_scheduling_rule).  *)
THEOREM QuietIsKept == Spec => QuietStaysQuiet
<1>1. IInv /\ [Next]_vars =>
        [\A h \in Handlers : Ruled(h) /\ Quiet(h) /\ Ruled(h)' => Quiet(h)']_vars
  BY QuietStep
<1>2. QED
  BY <1>1, InvariantHolds, PTL DEF Spec, QuietStaysQuiet

-----------------------------------------------------------------------------
(* Refinement: which step of the lifecycle each action is.                 *)

LEMMA CommitAttempts ==
  ASSUME IInv, NEW w \in Workers, pc[w] # "idle", NEW st, Commit(w, st)
  PROVE  /\ row[w] \in Ids
         /\ pending[w] \in SUBSET Ids
         /\ Lifecycle!Attempted(row[w], st, pending[w])
  BY BusyRow DEF IInv, TypeOK, Bookkeeping, PendingRows, Commit,
     Lifecycle!Attempted

LEMMA PutBackErrFollows ==
  ASSUME IInv, NEW w \in Workers, pc[w] # "idle", PutBackErr(w)
  PROVE  Lifecycle!Next
<1>1. CASE /\ retries[row[w]] < RetryLimit
           /\ retries' = [retries EXCEPT ![row[w]] = @ + 1]
           /\ Commit(w, "new")
  BY <1>1, CommitAttempts DEF Lifecycle!Next, Lifecycle!Retried
<1>2. CASE /\ retries[row[w]] >= RetryLimit
           /\ Commit(w, "error")
           /\ UNCHANGED retries
  BY <1>2, CommitAttempts DEF Lifecycle!Next, Lifecycle!GivenUp
<1>3. QED
  BY <1>1, <1>2 DEF PutBackErr

LEMMA StepFollows == IInv /\ [Next]_vars => [Lifecycle!Next]_<<status, retries>>
<1> SUFFICES ASSUME IInv, [Next]_vars
             PROVE  Lifecycle!Next \/ UNCHANGED <<status, retries>>
  OBVIOUS
<1>1. ASSUME NEW h \in Handlers, HttpEmit(h)
      PROVE  Lifecycle!Next
  <2>1. Lifecycle!Created({nextId})
    <3>1. nextId \in Ids /\ status[nextId] = "absent"
      BY <1>1 DEF HttpEmit, Insert, IInv, Bookkeeping, UnusedIds
    <3>2. status' = [e \in Ids |-> IF e \in {nextId} THEN "new" ELSE status[e]]
      BY <1>1, <3>1 DEF HttpEmit, IInv, TypeOK
    <3>3. QED
      BY <1>1, <3>1, <3>2 DEF HttpEmit, Lifecycle!Created, Lifecycle!Move
  <2>2. QED
    BY <1>1, <2>1 DEF HttpEmit, Insert, Lifecycle!Next
<1>2. CASE TickCommit
  <2>1. Lifecycle!Scheduled(snap)
    BY <1>2 DEF TickCommit, IInv, TypeOK, Bookkeeping, SnapshotIsNew,
       Lifecycle!Scheduled, Lifecycle!Move
  <2>2. QED
    BY <2>1 DEF IInv, TypeOK, Lifecycle!Next
<1>3. ASSUME NEW c \in Callers, UnscheduleCommit(c)
      PROVE  Lifecycle!Next
  <2>1. Lifecycle!Unscheduled(held[c])
    BY <1>3 DEF UnscheduleCommit, IInv, TypeOK, ExclusiveRows,
       Lifecycle!Unscheduled, Lifecycle!Move
  <2>2. QED
    BY <2>1 DEF IInv, TypeOK, Lifecycle!Next
<1>4. ASSUME NEW w \in Workers, Finish(w)
      PROVE  Lifecycle!Next
  BY <1>4, CommitAttempts DEF Finish, Lifecycle!Next, Lifecycle!Succeeded
<1>5. ASSUME NEW w \in Workers, HandlerMissing(w)
      PROVE  Lifecycle!Next
  BY <1>5, CommitAttempts DEF HandlerMissing, Lifecycle!Next, Lifecycle!Missing
<1>6. ASSUME NEW w \in Workers, LoadFails(w) \/ HandlerRaises(w)
      PROVE  Lifecycle!Next
  BY <1>6, PutBackErrFollows DEF LoadFails, HandlerRaises
<1>7. QED
  BY <1>1, <1>2, <1>3, <1>4, <1>5, <1>6
  DEF Next, WorkerStep, CallerStep, vars, table, Deploy, DelayPasses,
     TickStart, SchedulerRestarts, Dequeue, ValueUnreadable, LoadCanvas,
     Rollback, StatementFails, WorkerCrash, Emit, UnscheduleScan,
     UnscheduleRow, ApiDies, DeadlockVictim, AddRule, RemoveRule

(* The queue implements the lifecycle of docs/production/events.puml.      *)
THEOREM QueueFollowsLifecycle == Spec => FollowsLifecycle
<1>1. Init => Lifecycle!Init
  BY DEF Init, Lifecycle!Init
<1>2. IInv /\ [Next]_vars => [Lifecycle!Next]_<<status, retries>>
  BY StepFollows
<1>3. QED
  BY <1>1, <1>2, InvariantHolds, PTL
  DEF Spec, FollowsLifecycle, Lifecycle!Spec, Lifecycle!vars

=============================================================================
