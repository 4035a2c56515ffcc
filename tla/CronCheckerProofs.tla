-------------------------- MODULE CronCheckerProofs --------------------------
(***************************************************************************)
(* Theorems about CronChecker for any crons, intervals and failures.       *)
(***************************************************************************)
EXTENDS CronChecker, FiniteSetTheorems, TLAPS

USE DEF Never, Unparsable

(* The last enqueue of a cron is at least as old as its last record, when  *)
(* that enqueue has been recorded.                                         *)
RecordedAfter ==
  \A c \in Crons \ lost : since[c] # Never => age[c] # Never /\ since[c] >= age[c]

(* A checker about to enqueue has a cron that is still due: nobody else    *)
(* records it meanwhile.                                                   *)
AtCron ==
  \A p \in Checkers :
    /\ pc[p] = "enqueueing" => Due(cur[p], left[p][cur[p]])
    /\ pc[p] = "recording" => since[cur[p]] # Never

(* The crons of a tick, with intervals that they had.                      *)
TickOK(l) == DOMAIN l \subseteq Crons /\ l \in [DOMAIN l -> Intervals]

(* A checker at a cron has it among those of its tick.                     *)
InTick ==
  /\ DOMAIN left = Checkers /\ \A p \in Checkers : TickOK(left[p])
  /\ \A p \in Checkers : pc[p] \in {"enqueueing", "recording"} => cur[p] \in DOMAIN left[p]

TInv ==
  /\ active \subseteq Crons
  /\ interval \in [Crons -> Intervals]
  /\ age \in [Crons -> Ages]
  /\ since \in [Crons -> Ages]
  /\ burst \in [Crons -> Nat]
  /\ pc \in [Checkers -> {"asleep", "ticking", "enqueueing", "recording"}]
  /\ cur \in [Checkers -> Crons \cup {NoCron}]

IInv == TInv /\ InTick /\ RecordedAfter /\ AtCron

LoneChecker == \A p, q \in Checkers : p = q

(* Ages and intervals are numbers.                                         *)
LEMMA Numbers ==
  /\ \A i \in Intervals : i \in Nat
  /\ \A t \in Ages : t \in Int /\ (t = Never \/ t >= 0)
  /\ 0 \in Ages /\ Never \in Ages
  BY IntervalAssumption DEF Ages

(* A list of crons of a tick that loses one is one.                        *)
LEMMA WithoutTyped ==
  ASSUME NEW l, TickOK(l), NEW c
  PROVE  /\ TickOK(Without(l, c)) /\ DOMAIN Without(l, c) = DOMAIN l \ {c}
         /\ \A d \in DOMAIN l \ {c} : Without(l, c)[d] = l[d]
<1>1. PICK w : w = Without(l, c)
  OBVIOUS
<1>2. w = [d \in DOMAIN l \ {c} |-> l[d]]
  BY <1>1 DEF Without
<1>3. DOMAIN w = DOMAIN l \ {c} /\ \A d \in DOMAIN l \ {c} : w[d] = l[d]
  BY <1>2
<1>4. TickOK(w)
  BY <1>2, <1>3 DEF TickOK
<1> QED  BY <1>1, <1>3, <1>4

(* So are no crons, and the active ones.                                   *)
LEMMA NoCronsTyped == TickOK(NoCrons) /\ DOMAIN NoCrons = {}
<1>1. PICK l : l = NoCrons
  OBVIOUS
<1>2. DOMAIN l = {} /\ l = [d \in {} |-> l[d]]
  BY <1>1 DEF NoCrons
<1>3. TickOK(l)
  BY <1>2 DEF TickOK
<1> QED  BY <1>1, <1>2, <1>3

LEMMA FetchedTyped ==
  ASSUME interval \in [Crons -> Intervals], active \subseteq Crons
  PROVE  TickOK([c \in active |-> interval[c]])
  BY DEF TickOK

LEMMA OneLaterFacts ==
  ASSUME NEW t \in Ages
  PROVE  /\ OneLater(t) \in Ages
         /\ OneLater(t) >= t
         /\ OneLater(t) = Never <=> t = Never
         /\ \A u \in Ages : u # Never /\ t >= u => OneLater(t) >= OneLater(u)
  BY IntervalAssumption DEF OneLater, Ages

(* A cron that is due stays so while time passes.                          *)
LEMMA StaysDue ==
  ASSUME NEW c, NEW i \in Intervals, age[c] \in Ages, age'[c] \in Ages, age'[c] >= age[c],
         age'[c] = Never <=> age[c] = Never, Due(c, i)
  PROVE  Due(c, i)'
  BY Numbers DEF Due, Elapsed

(* What the invariant says of the crons of ticks, step by step.            *)
LEMMA InTickStep == TInv /\ InTick /\ [Next]_vars => InTick'
<1> SUFFICES ASSUME TInv, InTick, [Next]_vars PROVE InTick'
  OBVIOUS
<1>1. CASE UNCHANGED checker
  BY <1>1 DEF InTick, checker
<1>2. ASSUME NEW p \in Checkers, NEW l, TickOK(l), left' = [left EXCEPT ![p] = l],
             \A q \in Checkers \ {p} : pc'[q] = pc[q] /\ cur'[q] = cur[q],
             pc'[p] \notin {"enqueueing", "recording"}
      PROVE  InTick'
  <2>1. left'[p] = l /\ DOMAIN left' = Checkers /\ \A q \in Checkers \ {p} : left'[q] = left[q]
    BY <1>2 DEF InTick
  <2> QED  BY <1>2, <2>1 DEF InTick
<1>3. ASSUME NEW p \in Checkers, FetchCrons(p) PROVE InTick'
  <2>1. PICK l : l = [c \in active |-> interval[c]]
    OBVIOUS
  <2>2. TickOK(l)
    BY <2>1, FetchedTyped DEF TInv
  <2>3. left' = [left EXCEPT ![p] = l] /\ pc' = [pc EXCEPT ![p] = "ticking"] /\ cur' = cur
    BY <1>3, <2>1 DEF FetchCrons
  <2> QED  BY <1>2, <2>2, <2>3 DEF TInv
<1>4. ASSUME NEW p \in Checkers, NEW c \in Crons, Check(p, c) PROVE InTick'
  <2>1. CASE Due(c, left[p][c])
    BY <1>4, <2>1 DEF Check, InTick, TInv
  <2>2. CASE ~Due(c, left[p][c])
    <3>1. PICK l : l = Without(left[p], c)
      OBVIOUS
    <3>2. TickOK(l)
      BY <3>1, WithoutTyped DEF InTick
    <3>3. left' = [left EXCEPT ![p] = l] /\ pc' = pc /\ cur' = cur /\ pc[p] = "ticking"
      BY <1>4, <2>2, <3>1 DEF Check
    <3> QED  BY <1>2, <3>2, <3>3
  <2> QED  BY <2>1, <2>2
<1>5. ASSUME NEW p \in Checkers, Enqueue(p) PROVE InTick'
  BY <1>5 DEF Enqueue, InTick, TInv
<1>6. ASSUME NEW p \in Checkers, Record(p) PROVE InTick'
  <2>1. PICK l : l = Without(left[p], cur[p])
    OBVIOUS
  <2>2. TickOK(l)
    BY <2>1, WithoutTyped DEF InTick
  <2>3. /\ left' = [left EXCEPT ![p] = l] /\ pc' = [pc EXCEPT ![p] = "ticking"]
        /\ cur' = [cur EXCEPT ![p] = NoCron]
    BY <1>6, <2>1 DEF Record
  <2> QED  BY <1>2, <2>2, <2>3 DEF TInv
<1>7. ASSUME NEW p \in Checkers, EndTick(p) PROVE InTick'
  BY <1>7 DEF EndTick, InTick, TInv
<1>8. ASSUME NEW p \in Checkers, TickAborts(p) PROVE InTick'
  <2>1. /\ left' = [left EXCEPT ![p] = NoCrons] /\ pc' = [pc EXCEPT ![p] = "asleep"]
        /\ cur' = [cur EXCEPT ![p] = NoCron]
    BY <1>8 DEF TickAborts
  <2> QED  BY <1>2, <2>1, NoCronsTyped DEF TInv
<1>9. CASE Advance \/ (\E c \in Edited : Edit(c) \/ Reschedule(c)) \/ UNCHANGED vars
  BY <1>1, <1>9 DEF Advance, Edit, Reschedule, vars
<1> QED  BY <1>3, <1>4, <1>5, <1>6, <1>7, <1>8, <1>9 DEF Next, Step

(* The intervals stay intervals.                                           *)
LEMMA EditTyped ==
  ASSUME TInv, NEW c \in Edited, Edit(c) \/ Reschedule(c)
  PROVE  active' \subseteq Crons /\ interval' \in [Crons -> Intervals] /\ burst' \in [Crons -> Nat]
  BY EditedAssumption DEF Edit, Reschedule, history, TInv

LEMMA InitIInv == Init => IInv
<1> SUFFICES ASSUME Init PROVE IInv
  OBVIOUS
<1>1. \A p \in Checkers : left[p] = NoCrons
  BY DEF Init
<1>2. InTick
  BY <1>1, NoCronsTyped DEF Init, InTick
<1>3. TInv
  BY Numbers DEF Init, TInv
<1> QED  BY <1>2, <1>3 DEF Init, IInv, RecordedAfter, AtCron

LEMMA AdvanceIInv ==
  ASSUME IInv, Advance, InTick'
  PROVE  IInv'
<1> USE DEF IInv, Advance, checker, crons
<1>1. \A c \in Crons : /\ age'[c] \in Ages /\ since'[c] \in Ages
                       /\ age'[c] >= age[c]
                       /\ age'[c] = Never <=> age[c] = Never
                       /\ since'[c] = Never <=> since[c] = Never
                       /\ age[c] # Never /\ since[c] >= age[c] => since'[c] >= age'[c]
  BY OneLaterFacts DEF TInv
<1>2. TInv'
  BY <1>1 DEF TInv
<1>3. RecordedAfter'
  BY <1>1 DEF RecordedAfter
<1>4. ASSUME NEW p \in Checkers, pc[p] = "enqueueing"
      PROVE  Due(cur[p], left[p][cur[p]])'
  <2>1. PICK c : c = cur[p]
    OBVIOUS
  <2>2. PICK i : i = left[p][c]
    OBVIOUS
  <2>3. c \in Crons /\ i \in Intervals /\ Due(c, i)
    BY <1>4, <2>1, <2>2 DEF InTick, TickOK, AtCron
  <2>4. Due(c, i)'
    <3>1. age[c] \in Ages
      BY <2>3 DEF TInv
    <3> QED  BY <1>1, <2>3, <3>1, StaysDue
  <2> QED  BY <2>1, <2>2, <2>4
<1>5. AtCron'
  <2>1. \A p \in Checkers : pc[p] = "recording" => cur[p] \in Crons
    BY DEF InTick, TickOK
  <2> QED  BY <1>1, <1>4, <2>1 DEF AtCron
<1>6. QED
  BY <1>2, <1>3, <1>5

LEMMA StepIInv ==
  ASSUME IInv, LoneChecker, NEW p \in Checkers, Step(p) \/ TickAborts(p), InTick'
  PROVE  IInv'
<1> USE DEF IInv, clock, history, crons
<1>1. CASE FetchCrons(p) \/ EndTick(p) \/ TickAborts(p)
  BY <1>1 DEF FetchCrons, EndTick, TickAborts, TInv, RecordedAfter, AtCron, Due,
     Elapsed, LoneChecker
<1>2. ASSUME NEW c \in Crons, Check(p, c)
      PROVE  IInv'
  BY <1>2 DEF Check, TInv, RecordedAfter, AtCron, Due, Elapsed, LoneChecker
<1>0. pc[p] \in {"enqueueing", "recording"} => cur[p] \in Crons
  BY DEF InTick, TickOK
<1>3. CASE Enqueue(p)
  <2>1. TInv'
    <3>1. cur[p] \in Crons /\ 0 \in Ages
      BY <1>0, <1>3, Numbers DEF Enqueue
    <3>2. since' \in [Crons -> Ages]
      BY <1>3, <3>1 DEF Enqueue, TInv
    <3>3. burst' \in [Crons -> Nat]
      BY <1>3, <3>1 DEF Enqueue, TInv
    <3>4. QED
      BY <1>3, <3>2, <3>3 DEF Enqueue, TInv
  <2>2. RecordedAfter'
    BY <1>3 DEF Enqueue, TInv, RecordedAfter
  <2>3. AtCron'
    BY <1>0, <1>3 DEF Enqueue, TInv, AtCron, LoneChecker
  <2>4. QED
    BY <2>1, <2>2, <2>3
<1>4. CASE Record(p)
  <2>1. TInv'
    <3>1. cur[p] \in Crons /\ 0 \in Ages
      BY <1>0, <1>4, Numbers DEF Record
    <3>2. age' \in [Crons -> Ages]
      BY <1>4, <3>1 DEF Record, TInv
    <3>3. QED
      BY <1>4, <3>2 DEF Record, TInv
  <2>2. RecordedAfter'
    <3>1. since[cur[p]] >= 0
      BY <1>0, <1>4, Numbers DEF Record, TInv, AtCron
    <3> QED  BY <1>0, <1>4, <3>1 DEF Record, TInv, RecordedAfter
  <2>3. AtCron'
    BY <1>4 DEF Record, TInv, AtCron, LoneChecker
  <2>4. QED
    BY <2>1, <2>2, <2>3
<1>5. QED
  BY <1>1, <1>2, <1>3, <1>4 DEF Step

LEMMA NextIInv == LoneChecker /\ IInv /\ [Next]_vars => IInv'
<1> SUFFICES ASSUME LoneChecker, IInv, [Next]_vars
             PROVE  IInv'
  OBVIOUS
<1>0. InTick'
  BY InTickStep DEF IInv
<1>1. CASE UNCHANGED <<clock, lost, checker>> /\ active' \subseteq Crons /\ interval' \in [Crons -> Intervals] /\ burst' \in [Crons -> Nat]
  BY <1>0, <1>1 DEF IInv, TInv, RecordedAfter, AtCron, Due, Elapsed, clock,
     checker
<1>2. CASE Advance
  BY <1>0, <1>2, AdvanceIInv
<1>3. ASSUME NEW p \in Checkers, Step(p) \/ TickAborts(p)
      PROVE  IInv'
  BY <1>0, <1>3, StepIInv
<1>4. ASSUME NEW c \in Edited, Edit(c) \/ Reschedule(c)
      PROVE  IInv'
  BY <1>1, <1>4, EditTyped DEF Edit, Reschedule, history, IInv
<1>5. CASE UNCHANGED vars
  BY <1>1, <1>5 DEF vars, crons, history, IInv, TInv
<1>6. QED
  BY <1>2, <1>3, <1>4, <1>5 DEF Next

(* Only an enqueue adds to a burst.                                        *)
LEMMA BurstsGrow ==
  ASSUME IInv, [Next]_vars, NEW c \in Crons, burst'[c] > burst[c]
  PROVE  \E p \in Checkers : Enqueue(p) /\ cur[p] = c
<1>1. CASE Advance
  BY <1>1 DEF Advance, IInv, TInv
<1>2. ASSUME NEW p \in Checkers, Enqueue(p)
      PROVE  cur[p] = c
  BY <1>2 DEF Enqueue, IInv, TInv
<1>3. CASE UNCHANGED burst
  BY <1>3 DEF IInv, TInv
<1>4. ASSUME NEW d \in Edited, Reschedule(d)
      PROVE  FALSE
  BY <1>4 DEF Reschedule, IInv, TInv
<1>5. QED
  BY <1>1, <1>2, <1>3, <1>4
  DEF Next, Step, vars, history, Edit, FetchCrons, Check, Record, EndTick,
     TickAborts

(* A cron-checker that runs alone never enqueues a cron sooner than the    *)
(* interval it fetched after the time before, whatever the crons, the      *)
(* changes of their intervals and the failures, but for a cron whose last  *)
(* enqueue was not recorded: the checker crashed or failed between the two *)
(* statements of check_and_schedule_work_for_cron, and may run it again.   *)
THEOREM AloneIsNeverEarly == ASSUME LoneChecker PROVE Spec => NoEarlyRun
<1> DEFINE Early == \A c \in Crons \ lost : burst'[c] > burst[c] /\ since[c] # Never =>
                      \E p \in Checkers : /\ pc[p] = "enqueueing"
                                          /\ cur[p] = c
                                          /\ left[p][c] # Unparsable
                                          /\ since[c] >= left[p][c]
<1>1. Init => IInv
  BY InitIInv
<1>2. IInv /\ [Next]_vars => IInv'
  BY NextIInv
<1>3. IInv /\ [Next]_vars => [Early]_vars
  <2> SUFFICES ASSUME IInv, [Next]_vars, NEW c \in Crons \ lost, burst'[c] > burst[c],
                      since[c] # Never
               PROVE  \E p \in Checkers : /\ pc[p] = "enqueueing" /\ cur[p] = c
                                          /\ left[p][c] # Unparsable /\ since[c] >= left[p][c]
    OBVIOUS
  <2>1. PICK p \in Checkers : Enqueue(p) /\ cur[p] = c
    BY BurstsGrow
  <2>2. pc[p] = "enqueueing" /\ Due(c, left[p][c]) /\ left[p][c] \in Intervals
    BY <2>1 DEF Enqueue, IInv, AtCron, InTick, TickOK
  <2>3. age[c] # Never /\ since[c] >= age[c]
    BY DEF IInv, RecordedAfter
  <2>4. age[c] \in Int /\ since[c] \in Int /\ left[p][c] \in Nat
    BY <2>2, Numbers DEF IInv, TInv
  <2>5. QED
    BY <2>1, <2>2, <2>3, <2>4 DEF Due, Elapsed
<1>4. QED
  BY <1>1, <1>2, <1>3, PTL DEF Spec, NoEarlyRun

-----------------------------------------------------------------------------
(* Any number of checkers.                                                 *)
Enqueuers(c) == {p \in Checkers : pc[p] = "enqueueing" /\ cur[p] = c}
Recorders(c) == {p \in Checkers : pc[p] = "recording" /\ cur[p] = c}

(* Those that have yet to check the cron, by an interval it had before.    *)
Stale(c) ==
  {p \in Checkers : /\ c \in DOMAIN left[p]
                    /\ left[p][c] # interval[c]
                    /\ ~(pc[p] \in {"enqueueing", "recording"} /\ cur[p] = c)}

(* While a cron is due, each enqueue of it has a checker that is about to  *)
(* record it, or that failed; once it is recorded only those enqueue it    *)
(* that had checked it before, or that go by an interval it had before.    *)
Counted(c) ==
  /\ DueNow(c) => burst[c] <= Cardinality(Recorders(c)) + faults
  /\ ~DueNow(c) => burst[c] + Cardinality(Enqueuers(c)) + Cardinality(Stale(c))
                     <= Cardinality(Checkers) + faults

BurstInv == TypeOK /\ InTick /\ \A c \in Crons : Counted(c)

(* The types say as much as the invariant above.                           *)
LEMMA TypesThere == TypeOK => TInv
  BY DEF TypeOK, TInv

(* Three groups of checkers that have nobody in common.                    *)
LEMMA ThreeGroups ==
  ASSUME NEW A, NEW B, NEW C, A \subseteq Checkers, B \subseteq Checkers, C \subseteq Checkers,
         A \cap B = {}, A \cap C = {}, B \cap C = {}
  PROVE  /\ IsFiniteSet(A) /\ IsFiniteSet(B) /\ IsFiniteSet(C)
         /\ Cardinality(A) \in Nat /\ Cardinality(B) \in Nat /\ Cardinality(C) \in Nat
         /\ Cardinality(Checkers) \in Nat
         /\ Cardinality(A) + Cardinality(B) + Cardinality(C) <= Cardinality(Checkers)
<1>1. IsFiniteSet(A) /\ IsFiniteSet(B) /\ IsFiniteSet(C)
  BY CheckersAssumption, FS_Subset
<1>2. Cardinality(A) \in Nat /\ Cardinality(B) \in Nat /\ Cardinality(C) \in Nat /\ Cardinality(Checkers) \in Nat
  BY <1>1, CheckersAssumption, FS_CardinalityType
<1>3. IsFiniteSet(A \cup B) /\ Cardinality(A \cup B) = Cardinality(A) + Cardinality(B)
  <2>1. Cardinality(A \cap B) = 0
    BY FS_EmptySet
  <2>2. /\ IsFiniteSet(A \cup B)
        /\ Cardinality(A \cup B) = Cardinality(A) + Cardinality(B) - Cardinality(A \cap B)
    BY <1>1, FS_Union
  <2>3. QED
    BY <1>2, <2>1, <2>2
<1>4. Cardinality((A \cup B) \cup C) = Cardinality(A) + Cardinality(B) + Cardinality(C)
  <2>1. (A \cup B) \cap C = {}
    OBVIOUS
  <2>2. Cardinality((A \cup B) \cap C) = 0
    BY <2>1, FS_EmptySet
  <2>3. Cardinality((A \cup B) \cup C)
          = Cardinality(A \cup B) + Cardinality(C) - Cardinality((A \cup B) \cap C)
    BY <1>1, <1>3, FS_Union
  <2>4. QED
    BY <1>2, <1>3, <2>2, <2>3
<1>5. Cardinality((A \cup B) \cup C) <= Cardinality(Checkers)
  <2>1. (A \cup B) \cup C \subseteq Checkers
    OBVIOUS
  <2>2. QED
    BY <2>1, CheckersAssumption, FS_Subset
<1>6. QED
  BY <1>1, <1>2, <1>4, <1>5

LEMMA Counts ==
  ASSUME NEW c
  PROVE  /\ IsFiniteSet(Enqueuers(c)) /\ IsFiniteSet(Recorders(c)) /\ IsFiniteSet(Stale(c))
         /\ Cardinality(Enqueuers(c)) \in Nat
         /\ Cardinality(Recorders(c)) \in Nat
         /\ Cardinality(Stale(c)) \in Nat
         /\ Cardinality(Checkers) \in Nat
         /\ Cardinality(Enqueuers(c)) + Cardinality(Recorders(c)) + Cardinality(Stale(c)) <= Cardinality(Checkers)
<1>1. PICK E, R, S : E = Enqueuers(c) /\ R = Recorders(c) /\ S = Stale(c)
  OBVIOUS
<1>2. /\ E \subseteq Checkers /\ R \subseteq Checkers /\ S \subseteq Checkers
      /\ E \cap R = {} /\ E \cap S = {} /\ R \cap S = {}
  BY <1>1 DEF Enqueuers, Recorders, Stale
<1>3. QED
  BY <1>1, <1>2, ThreeGroups

LEMMA CountsNext ==
  ASSUME NEW c
  PROVE  /\ Cardinality(Enqueuers(c)') \in Nat
         /\ Cardinality(Stale(c)') \in Nat
         /\ Cardinality(Enqueuers(c)') + Cardinality(Stale(c)') <= Cardinality(Checkers)
<1>1. PICK E, S : /\ E = {p \in Checkers : pc'[p] = "enqueueing" /\ cur'[p] = c}
                   /\ S = {p \in Checkers : /\ c \in DOMAIN left'[p]
                                            /\ left'[p][c] # interval'[c]
                                            /\ ~(pc'[p] \in {"enqueueing", "recording"} /\ cur'[p] = c)}
  OBVIOUS
<1>2. E \subseteq Checkers /\ S \subseteq Checkers /\ E \cap S = {}
  BY <1>1
<1>3. E \cap {} = {} /\ S \cap {} = {} /\ {} \subseteq Checkers
  OBVIOUS
<1>4. /\ Cardinality(E) \in Nat /\ Cardinality(S) \in Nat /\ Cardinality(Checkers) \in Nat
      /\ Cardinality(E) + Cardinality(S) + Cardinality({}) <= Cardinality(Checkers)
  BY <1>2, <1>3, ThreeGroups
<1>5. Cardinality({}) = 0
  BY FS_EmptySet
<1>6. Enqueuers(c)' = E /\ Stale(c)' = S
  BY <1>1 DEF Enqueuers, Stale
<1>7. QED
  BY <1>4, <1>5, <1>6

(* What a group has without some of its checkers.                          *)
LEMMA FewerCount ==
  ASSUME NEW S, NEW T, IsFiniteSet(S), T \subseteq S
  PROVE  IsFiniteSet(T) /\ Cardinality(T) \in Nat /\ Cardinality(T) <= Cardinality(S)
  BY FS_Subset, FS_CardinalityType

LEMMA InitBurstInv == Init => BurstInv
<1> SUFFICES ASSUME Init PROVE BurstInv
  OBVIOUS
<1>1. TypeOK /\ InTick
  <2>1. IInv
    BY InitIInv
  <2>2. QED
    BY <2>1, FaultsAssumption DEF Init, IInv, TInv, TypeOK, InTick, TickOK
<1>2. ASSUME NEW c \in Crons PROVE Counted(c)
  BY Counts DEF Init, Counted, DueNow, Due
<1>3. QED
  BY <1>1, <1>2 DEF BurstInv

(* A cron that comes to be due has a burst of none.                        *)
LEMMA AdvanceCounts ==
  ASSUME BurstInv, Advance
  PROVE  TypeOK' /\ \A c \in Crons : Counted(c)'
<1> USE DEF BurstInv, Advance, checker, crons
<1>1. \A c \in Crons : /\ age'[c] \in Ages /\ since'[c] \in Ages
                       /\ age'[c] >= age[c]
                       /\ age'[c] = Never <=> age[c] = Never
  BY OneLaterFacts DEF TypeOK
<1>2. TypeOK'
  BY <1>1 DEF TypeOK
<1>3. ASSUME NEW c \in Crons PROVE Counted(c)'
  <2>1. Enqueuers(c)' = Enqueuers(c) /\ Recorders(c)' = Recorders(c) /\ Stale(c)' = Stale(c)
    BY DEF Enqueuers, Recorders, Stale
  <2>2. CASE ElapsedNow(c)' /\ ~ElapsedNow(c)
    <3>1. burst'[c] = 0 /\ DueNow(c)'
      BY <2>2 DEF DueNow, Due, ElapsedNow
    <3>2. QED
      BY <2>1, <3>1, Counts DEF Counted, TypeOK
  <2>3. CASE ~(ElapsedNow(c)' /\ ~ElapsedNow(c))
    <3>1. age[c] \in Int /\ age'[c] \in Int /\ interval[c] \in Nat
      BY <1>1, Numbers DEF TypeOK
    <3>2. burst'[c] = burst[c] /\ (DueNow(c)' <=> DueNow(c))
      BY <1>1, <2>3, <3>1 DEF DueNow, Due, ElapsedNow, Elapsed
    <3>3. QED
      BY <2>1, <3>2 DEF Counted
  <2>4. QED
    BY <2>2, <2>3
<1>4. QED
  BY <1>2, <1>3

(* Nor has one with another interval.                                      *)
LEMMA RescheduleCounts ==
  ASSUME BurstInv, NEW d \in Edited, Reschedule(d)
  PROVE  TypeOK' /\ \A c \in Crons : Counted(c)'
<1> USE DEF BurstInv, Reschedule, checker, clock
<1>1. TypeOK'
  BY EditedAssumption DEF TypeOK
<1>2. ASSUME NEW c \in Crons PROVE Counted(c)'
  <2>1. CASE c = d
    <3>1. burst'[c] = 0
      BY <2>1 DEF TypeOK
    <3>2. faults' \in Nat /\ Cardinality(Recorders(c)') \in Nat
      <4>1. Recorders(c)' = Recorders(c)
        BY DEF Recorders
      <4>2. QED
        BY <4>1, Counts DEF TypeOK
    <3>3. QED
      BY <3>1, <3>2, CountsNext, Counts DEF Counted
  <2>2. CASE c # d
    <3>1. interval'[c] = interval[c] /\ burst'[c] = burst[c]
      BY <2>2 DEF TypeOK
    <3>2. Enqueuers(c)' = Enqueuers(c) /\ Recorders(c)' = Recorders(c) /\ Stale(c)' = Stale(c)
      BY <3>1 DEF Enqueuers, Recorders, Stale
    <3>3. DueNow(c)' <=> DueNow(c)
      BY <3>1 DEF DueNow, Due, Elapsed
    <3>4. QED
      BY <3>1, <3>2, <3>3 DEF Counted
  <2>3. QED
    BY <2>1, <2>2
<1>3. QED
  BY <1>1, <1>2

LEMMA EnqueueCounts ==
  ASSUME BurstInv, NEW p \in Checkers, Enqueue(p)
  PROVE  TypeOK' /\ \A c \in Crons : Counted(c)'
<1> USE DEF BurstInv, Enqueue, crons
<1>1. cur[p] \in Crons /\ 0 \in Ages
  BY Numbers DEF InTick, TickOK
<1>2. TypeOK'
  <2>1. since' \in [Crons -> Ages]
    BY <1>1 DEF TypeOK
  <2>2. burst' \in [Crons -> Nat]
    BY <1>1 DEF TypeOK
  <2>3. QED
    BY <1>1, <2>1, <2>2 DEF TypeOK
<1>3. ASSUME NEW c \in Crons PROVE Counted(c)'
  <2>1. DueNow(c)' <=> DueNow(c)
    BY DEF DueNow, Due, Elapsed
  <2>0. Stale(c)' = Stale(c)
    BY DEF Stale, TypeOK
  <2>2. CASE cur[p] = c
    <3>1. /\ Enqueuers(c)' = Enqueuers(c) \ {p} /\ p \in Enqueuers(c)
          /\ Recorders(c)' = Recorders(c) \cup {p} /\ p \notin Recorders(c)
          /\ burst'[c] = burst[c] + 1
      BY <2>2 DEF Enqueuers, Recorders, TypeOK
    <3>2. /\ Cardinality(Enqueuers(c)') = Cardinality(Enqueuers(c)) - 1
          /\ Cardinality(Recorders(c)') = Cardinality(Recorders(c)) + 1
      <4>1. IsFiniteSet(Enqueuers(c)) /\ IsFiniteSet(Recorders(c))
        BY Counts
      <4>2. Cardinality(Enqueuers(c) \ {p}) = Cardinality(Enqueuers(c)) - 1
        BY <3>1, <4>1, FS_RemoveElement
      <4>3. Cardinality(Recorders(c) \cup {p}) = Cardinality(Recorders(c)) + 1
        BY <3>1, <4>1, FS_AddElement
      <4>4. QED
        BY <3>1, <4>2, <4>3
    <3>3. QED
      BY <2>0, <2>1, <3>1, <3>2, Counts DEF Counted, TypeOK
  <2>3. CASE cur[p] # c
    <3>1. /\ Enqueuers(c)' = Enqueuers(c) /\ Recorders(c)' = Recorders(c)
          /\ burst'[c] = burst[c]
      BY <2>3 DEF Enqueuers, Recorders, TypeOK
    <3>2. QED
      BY <2>0, <2>1, <3>1 DEF Counted
  <2>4. QED
    BY <2>2, <2>3
<1>4. QED
  BY <1>2, <1>3

(* A record ends the time in which anybody finds the cron due.             *)
LEMMA RecordCounts ==
  ASSUME BurstInv, NEW p \in Checkers, Record(p), InTick'
  PROVE  TypeOK' /\ \A c \in Crons : Counted(c)'
<1> USE DEF BurstInv, Record, crons
<1>1. cur[p] \in Crons /\ 0 \in Ages /\ TickOK(left[p])
  BY Numbers DEF InTick, TickOK
<1>2. TypeOK'
  <2>1. age' \in [Crons -> Ages]
    BY <1>1 DEF TypeOK
  <2>2. QED
    BY <1>1, <2>1 DEF TypeOK, InTick, TickOK
<1>3. PICK l : l = Without(left[p], cur[p])
  OBVIOUS
<1>4. /\ DOMAIN l = DOMAIN left[p] \ {cur[p]} /\ \A d \in DOMAIN left[p] \ {cur[p]} : l[d] = left[p][d]
      /\ left'[p] = l /\ \A q \in Checkers \ {p} : left'[q] = left[q]
  <2>1. left' = [left EXCEPT ![p] = l]
    BY <1>1, <1>3
  <2>2. DOMAIN l = DOMAIN left[p] \ {cur[p]} /\ \A d \in DOMAIN left[p] \ {cur[p]} : l[d] = left[p][d]
    BY <1>3 DEF Without
  <2>3. left'[p] = l /\ \A q \in Checkers \ {p} : left'[q] = left[q]
    BY <2>1 DEF TypeOK
  <2>4. QED
    BY <2>2, <2>3
<1>5. pc'[p] = "ticking" /\ cur'[p] = NoCron /\ \A q \in Checkers \ {p} : pc'[q] = pc[q] /\ cur'[q] = cur[q]
  BY DEF TypeOK
<1>6. ASSUME NEW c \in Crons PROVE Counted(c)'
  <2>1. Enqueuers(c)' = Enqueuers(c)
    BY <1>5 DEF Enqueuers
  <2>0. Stale(c)' = Stale(c)
    <3>1. \A q \in Checkers \ {p} : q \in Stale(c)' <=> q \in Stale(c)
      BY <1>4, <1>5 DEF Stale
    <3>2. p \in Stale(c)' <=> p \in Stale(c)
      BY <1>4, <1>5 DEF Stale
    <3>3. Stale(c) \subseteq Checkers /\ Stale(c)' \subseteq Checkers
      BY DEF Stale
    <3>4. QED
      BY <3>1, <3>2, <3>3
  <2>2. CASE cur[p] = c
    <3>1. age'[c] = 0 /\ interval'[c] \in Nat
      BY <2>2, Numbers DEF TypeOK
    <3>2. ~DueNow(c)'
      BY <3>1 DEF DueNow, Due, Elapsed
    <3>3. QED
      BY <2>0, <2>1, <3>2, Counts DEF Counted, TypeOK
  <2>3. CASE cur[p] # c
    <3>1. Recorders(c)' = Recorders(c)
      BY <1>5, <2>3 DEF Recorders
    <3>2. DueNow(c)' <=> DueNow(c)
      BY <1>1, <2>3 DEF DueNow, Due, Elapsed, TypeOK
    <3>3. QED
      BY <2>0, <2>1, <3>1, <3>2 DEF Counted
  <2>4. QED
    BY <2>2, <2>3
<1>7. QED
  BY <1>2, <1>6

LEMMA AbortCounts ==
  ASSUME BurstInv, NEW p \in Checkers, TickAborts(p), InTick'
  PROVE  TypeOK' /\ \A c \in Crons : Counted(c)'
<1> USE DEF BurstInv, TickAborts, clock, history, crons
<1>1. TypeOK'
  BY FaultsAssumption DEF TypeOK, InTick, TickOK
<1>2. ASSUME NEW c \in Crons PROVE Counted(c)'
  <2>1. Enqueuers(c)' = Enqueuers(c) \ {p} /\ Recorders(c)' = Recorders(c) \ {p}
    BY DEF Enqueuers, Recorders, TypeOK
  <2>0. Stale(c)' \subseteq Stale(c)
    <3>1. left'[p] = NoCrons /\ \A q \in Checkers \ {p} : left'[q] = left[q] /\ pc'[q] = pc[q] /\ cur'[q] = cur[q]
      BY DEF TypeOK
    <3>2. QED
      BY <3>1, NoCronsTyped DEF Stale
  <2>2. /\ Cardinality(Enqueuers(c)') \in Nat /\ Cardinality(Enqueuers(c)') <= Cardinality(Enqueuers(c))
        /\ Cardinality(Stale(c)') \in Nat /\ Cardinality(Stale(c)') <= Cardinality(Stale(c))
        /\ Cardinality(Recorders(c)') \in Nat /\ Cardinality(Recorders(c)') >= Cardinality(Recorders(c)) - 1
    <3>1. /\ IsFiniteSet(Enqueuers(c)) /\ Cardinality(Enqueuers(c)) \in Nat
          /\ IsFiniteSet(Recorders(c)) /\ Cardinality(Recorders(c)) \in Nat
          /\ IsFiniteSet(Stale(c))
      BY Counts
    <3>2. Cardinality(Enqueuers(c) \ {p}) \in Nat /\ Cardinality(Enqueuers(c) \ {p}) <= Cardinality(Enqueuers(c))
      <4>1. Enqueuers(c) \ {p} \subseteq Enqueuers(c)
        OBVIOUS
      <4>2. QED
        BY <3>1, <4>1, FewerCount
    <3>3. Cardinality(Recorders(c) \ {p})
            = IF p \in Recorders(c) THEN Cardinality(Recorders(c)) - 1 ELSE Cardinality(Recorders(c))
      BY <3>1, FS_RemoveElement
    <3>4. Cardinality(Recorders(c) \ {p}) \in Nat
      <4>1. Recorders(c) \ {p} \subseteq Recorders(c)
        OBVIOUS
      <4>2. QED
        BY <3>1, <4>1, FewerCount
    <3>5. Cardinality(Stale(c)') \in Nat /\ Cardinality(Stale(c)') <= Cardinality(Stale(c))
      BY <2>0, <3>1, FewerCount
    <3>6. QED
      BY <2>1, <3>1, <3>2, <3>3, <3>4, <3>5
  <2>3. DueNow(c)' <=> DueNow(c)
    BY DEF DueNow, Due, Elapsed
  <2>4. QED
    BY <2>2, <2>3, Counts DEF Counted, TypeOK
<1>3. QED
  BY <1>1, <1>2

(* Fetching the crons again forgets the intervals of before.               *)
LEMMA FetchCounts ==
  ASSUME BurstInv, NEW p \in Checkers, FetchCrons(p) \/ EndTick(p), InTick'
  PROVE  TypeOK' /\ \A c \in Crons : Counted(c)'
<1> USE DEF BurstInv, FetchCrons, EndTick, clock, history, crons
<1>1. TypeOK'
  BY DEF TypeOK, InTick, TickOK
<1>2. ASSUME NEW c \in Crons PROVE Counted(c)'
  <2>1. Recorders(c)' = Recorders(c) /\ Enqueuers(c)' = Enqueuers(c)
    BY DEF Recorders, Enqueuers, TypeOK
  <2>2. Stale(c)' \subseteq Stale(c)
    <3>1. CASE FetchCrons(p)
      <4>1. /\ left'[p] = [d \in active |-> interval[d]] /\ interval' = interval
            /\ \A q \in Checkers \ {p} : left'[q] = left[q] /\ pc'[q] = pc[q] /\ cur'[q] = cur[q]
        BY <3>1 DEF TypeOK
      <4>2. c \in DOMAIN left'[p] => left'[p][c] = interval'[c]
        BY <4>1
      <4>3. QED
        BY <4>1, <4>2 DEF Stale
    <3>2. CASE EndTick(p)
      BY <3>2 DEF Stale, TypeOK
    <3>3. QED
      BY <3>1, <3>2
  <2>3. Cardinality(Stale(c)') \in Nat /\ Cardinality(Stale(c)') <= Cardinality(Stale(c))
    BY <2>2, Counts, FewerCount
  <2>4. UNCHANGED <<burst, faults>> /\ (DueNow(c)' <=> DueNow(c))
    BY DEF DueNow, Due, Elapsed
  <2>5. QED
    BY <2>1, <2>3, <2>4, Counts DEF Counted, TypeOK
<1>3. QED
  BY <1>1, <1>2

(* A cron found due by an interval that it has no more was counted.        *)
LEMMA CheckCounts ==
  ASSUME BurstInv, NEW p \in Checkers, NEW d \in Crons, Check(p, d), InTick'
  PROVE  TypeOK' /\ \A c \in Crons : Counted(c)'
<1> USE DEF BurstInv, Check, clock, history, crons
<1>1. TypeOK'
  BY DEF TypeOK, InTick, TickOK
<1>2. ASSUME NEW c \in Crons PROVE Counted(c)'
  <2>1. Recorders(c)' = Recorders(c)
    BY DEF Recorders, TypeOK
  <2>2. UNCHANGED <<burst, faults>> /\ (DueNow(c)' <=> DueNow(c))
    BY DEF DueNow, Due, Elapsed
  <2>3. CASE ~Due(d, left[p][d])
    <3>1. Enqueuers(c)' = Enqueuers(c)
      BY <2>3 DEF Enqueuers
    <3>2. Stale(c)' \subseteq Stale(c)
      <4>1. PICK l : l = Without(left[p], d)
        OBVIOUS
      <4>2. left' = [left EXCEPT ![p] = l]
        BY <2>3, <4>1
      <4>3. DOMAIN l = DOMAIN left[p] \ {d} /\ \A e \in DOMAIN left[p] \ {d} : l[e] = left[p][e]
        BY <4>1 DEF Without
      <4>4. left'[p] = l /\ \A q \in Checkers \ {p} : left'[q] = left[q]
        BY <4>2 DEF TypeOK
      <4>5. pc' = pc /\ cur' = cur /\ interval' = interval
        BY <2>3
      <4>6. QED
        BY <4>3, <4>4, <4>5 DEF Stale
    <3>3. Cardinality(Stale(c)') \in Nat /\ Cardinality(Stale(c)') <= Cardinality(Stale(c))
      BY <3>2, Counts, FewerCount
    <3>4. QED
      BY <2>1, <2>2, <3>1, <3>3, Counts DEF Counted, TypeOK
  <2>4. CASE Due(d, left[p][d]) /\ c # d
    <3>1. Enqueuers(c)' = Enqueuers(c)
      BY <2>4 DEF Enqueuers, TypeOK
    <3>2. Stale(c)' = Stale(c)
      BY <2>4 DEF Stale, TypeOK
    <3>3. QED
      BY <2>1, <2>2, <3>1, <3>2 DEF Counted
  <2>5. CASE Due(d, left[p][d]) /\ c = d
    <3>1. CASE DueNow(c)
      BY <2>1, <2>2, <3>1 DEF Counted
    <3>2. CASE ~DueNow(c)
      <4>1. p \in Stale(c)
        BY <2>5, <3>2 DEF Stale, DueNow
      <4>2. Stale(c)' = Stale(c) \ {p}
        BY <2>5 DEF Stale, TypeOK
      <4>3. Enqueuers(c)' = Enqueuers(c) \cup {p} /\ p \notin Enqueuers(c)
        BY <2>5 DEF Enqueuers, TypeOK
      <4>4. IsFiniteSet(Enqueuers(c)) /\ IsFiniteSet(Stale(c))
        BY Counts
      <4>5. Cardinality(Stale(c) \ {p}) = Cardinality(Stale(c)) - 1
        BY <4>1, <4>4, FS_RemoveElement
      <4>6. Cardinality(Enqueuers(c) \cup {p}) = Cardinality(Enqueuers(c)) + 1
        BY <4>3, <4>4, FS_AddElement
      <4>7. QED
        BY <2>2, <3>2, <4>2, <4>3, <4>5, <4>6, Counts DEF Counted, TypeOK
    <3>3. QED
      BY <3>1, <3>2
  <2>6. QED
    BY <2>3, <2>4, <2>5
<1>3. QED
  BY <1>1, <1>2

LEMMA NextBurstInv == BurstInv /\ [Next]_vars => BurstInv'
<1> SUFFICES ASSUME BurstInv, [Next]_vars PROVE BurstInv'
  OBVIOUS
<1>0. InTick'
  BY InTickStep, TypesThere DEF BurstInv
<1>1. CASE active' \subseteq Crons /\ UNCHANGED <<interval, clock, history, checker, faults>>
  <2>1. TypeOK'
    BY <1>1 DEF BurstInv, TypeOK, clock, history, checker
  <2>2. \A c \in Crons : Counted(c)'
    BY <1>1 DEF BurstInv, Counted, DueNow, Due, Elapsed, Enqueuers, Recorders, Stale, clock, history, checker
  <2>3. QED
    BY <1>0, <2>1, <2>2 DEF BurstInv
<1>2. ASSUME NEW c \in Edited, Edit(c) PROVE BurstInv'
  BY <1>1, <1>2, EditedAssumption DEF Edit, BurstInv, TypeOK
<1>3. CASE UNCHANGED vars
  BY <1>1, <1>3 DEF vars, crons, BurstInv, TypeOK
<1>4. ASSUME NEW p \in Checkers, Step(p) PROVE BurstInv'
  BY <1>0, <1>4, EnqueueCounts, RecordCounts, FetchCounts, CheckCounts DEF Step, BurstInv
<1>5. ASSUME NEW c \in Edited, Reschedule(c) PROVE BurstInv'
  BY <1>0, <1>5, RescheduleCounts DEF BurstInv
<1>6. ASSUME NEW p \in Checkers, TickAborts(p) PROVE BurstInv'
  BY <1>0, <1>6, AbortCounts DEF BurstInv
<1>7. CASE Advance
  BY <1>0, <1>7, AdvanceCounts DEF BurstInv
<1>8. QED
  BY <1>2, <1>3, <1>4, <1>5, <1>6, <1>7 DEF Next

LEMMA BurstInvHolds == Spec => []BurstInv
  BY InitBurstInv, NextBurstInv, PTL DEF Spec

(* The checkers keep their types, intervals are those that there are, and  *)
(* a checker has crons that were active with an interval they had.         *)
THEOREM TypeCorrect == Spec => []TypeOK
<1>1. BurstInv => TypeOK
  BY DEF BurstInv
<1>2. QED
  BY <1>1, BurstInvHolds, PTL

(* Any number of checkers that overlap enqueue a cron that came to be due, *)
(* or has another interval now, at most once each, and once more for each  *)
(* failure; a cron whose interval is changed to one that cannot be parsed  *)
(* has no more runs than that.                                             *)
THEOREM BurstsAreBounded == Spec => []BurstBound
<1>1. BurstInv => BurstBound
  BY Counts DEF BurstInv, BurstBound, Counted, TypeOK
<1>2. QED
  BY <1>1, BurstInvHolds, PTL

=============================================================================
