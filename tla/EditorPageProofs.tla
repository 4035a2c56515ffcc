------------------------- MODULE EditorPageProofs -------------------------
(***************************************************************************)
(* Theorems about EditorPage, for any canvas, any numbers of traces, of    *)
(* gestures and of failures, and any limit on the length of a list:        *)
(*                                                                         *)
(*  - that the keys of Sync are held by exactly one request;               *)
(*  - what mergeTraces keeps, and what rests on it: the shape of the lists *)
(*    of traces, the data they show after a run, and what no arrival takes *)
(*    away from them.                                                      *)
(***************************************************************************)
EXTENDS EditorPage, SubsequenceProofs, FiniteSetTheorems, TLAPS

(* The keys of the requests that have no answer yet.                       *)
KeysOnTheirWay ==
  {r.key : r \in asking \cup posted} \cup {a.request.key : a \in replies}

(* No two of these requests have the same key, wherever they are.          *)
OnePerKey ==
  /\ \A r, q \in asking \cup posted : r.key = q.key => r = q
  /\ asking \cap posted = {}
  /\ \A a, b \in replies : a.request.key = b.request.key => a = b
  /\ \A r \in asking \cup posted : \A a \in replies : r.key # a.request.key

(* Of a trace, the id is all of the key: a 404 asks with the same again.   *)
TraceKeyed(r) == r.key.kind = "trace" => r.key = TraceKey(r.key.id)

AllTraceKeyed ==
  /\ \A r \in asking \cup posted : TraceKeyed(r)
  /\ \A a \in replies : TraceKeyed(a.request)

(* The inductive invariant: KeysAreHeld, without counting, and with where  *)
(* a request is, so that it is known what an arrival takes away.           *)
KeysInv ==
  /\ OnePerKey
  /\ AllTraceKeyed
  /\ KeysOnTheirWay = syncState \ orphans
  /\ orphans \subseteq syncState

(* What a handler may ask of Attempt at once.                              *)
Askable(wanted) ==
  /\ \A r, q \in wanted : r.key = q.key => r = q
  /\ \A r \in wanted : TraceKeyed(r)

LEMMA InitKeysInv == Init => KeysInv
  BY DEF Init, FetchInit, TracesInit, KeysInv, OnePerKey, AllTraceKeyed, KeysOnTheirWay

LEMMA TraceRequestAskable ==
  ASSUME NEW tl, NEW id
  PROVE  Askable(TraceRequest(tl, id))
  BY DEF TraceRequest, Askable, TraceKeyed, TraceKey

-----------------------------------------------------------------------------
(* Answers that have arrived give their keys back, and what is asked for   *)
(* then is taken on where its key is free.                                 *)
LEMMA AttemptKeeps ==
  ASSUME KeysInv,
         NEW gone \in SUBSET replies, replies' = replies \ gone,
         NEW wanted, Askable(wanted),
         Attempt(syncState \ {a.request.key : a \in gone}, wanted),
         UNCHANGED orphans
  PROVE  KeysInv'
<1> DEFINE left == syncState \ {a.request.key : a \in gone}
           free == {r \in wanted : r.key \notin left}
<1>1. /\ syncState' = left \cup {r.key : r \in free}
      /\ asking' \cup posted' = asking \cup posted \cup free
      /\ \/ asking' = asking \cup free /\ posted' = posted
         \/ asking' = asking /\ posted' = posted \cup free
  BY DEF Attempt, Fetch
<1>2. \A r \in asking \cup posted : r.key \in left
  BY DEF KeysInv, OnePerKey, KeysOnTheirWay
<1>3. \A a \in replies' : a.request.key \in left
  BY DEF KeysInv, OnePerKey, KeysOnTheirWay
<1>4. orphans \subseteq left
  BY DEF KeysInv, KeysOnTheirWay
<1>5. OnePerKey'
  BY <1>1, <1>2, <1>3 DEF KeysInv, OnePerKey, Askable
<1>6. AllTraceKeyed'
  BY <1>1 DEF KeysInv, AllTraceKeyed, Askable
<1>7. KeysOnTheirWay' = syncState' \ orphans'
  <2>1. KeysOnTheirWay' = {r.key : r \in asking \cup posted} \cup {r.key : r \in free}
                            \cup {a.request.key : a \in replies \ gone}
    BY <1>1 DEF KeysOnTheirWay
  <2>2. left \ orphans = {r.key : r \in asking \cup posted} \cup {a.request.key : a \in replies \ gone}
    BY DEF KeysInv, KeysOnTheirWay, OnePerKey
  <2>3. {r.key : r \in free} \cap orphans = {}
    BY <1>4
  <2>4. QED
    BY <1>1, <2>1, <2>2, <2>3
<1>8. QED
  BY <1>1, <1>4, <1>5, <1>6, <1>7 DEF KeysInv

(* An arrival after which nothing is asked for.                            *)
LEMMA GivenBackKeeps ==
  ASSUME KeysInv, NEW a \in replies, replies' = replies \ {a},
         syncState' = syncState \ {a.request.key},
         UNCHANGED <<asking, posted, orphans>>
  PROVE  KeysInv'
<1>1. Askable({})
  BY DEF Askable
<1>2. Attempt(syncState \ {b.request.key : b \in {a}}, {})
  BY DEF Attempt, Fetch
<1>3. QED
  BY <1>1, <1>2, AttemptKeeps

(* The steps in which a request only moves on.                             *)
LEMMA RetryKeeps ==
  ASSUME KeysInv, NEW r \in asking, FetchRetry(r), UNCHANGED orphans
  PROVE  KeysInv'
<1>1. asking' \cup posted' = asking \cup posted
  BY DEF FetchRetry
<1>2. QED
  BY <1>1 DEF FetchRetry, KeysInv, OnePerKey, AllTraceKeyed, KeysOnTheirWay

LEMMA AnswerKeeps ==
  ASSUME KeysInv, NEW r \in posted, NEW result, Answer(r, result), UNCHANGED orphans
  PROVE  KeysInv'
<1> DEFINE a == [request |-> r, result |-> result]
<1>1. /\ asking' \cup posted' = (asking \cup posted) \ {r}
      /\ replies' = replies \cup {a}
      /\ a.request = r
      /\ UNCHANGED syncState
  BY DEF Answer, KeysInv, OnePerKey
<1> HIDE DEF a
<1>2. OnePerKey'
  <2>1. posted' \subseteq posted /\ asking' = asking
    BY DEF Answer
  <2>2. QED
    BY <1>1, <2>1 DEF KeysInv, OnePerKey
<1>3. AllTraceKeyed'
  BY <1>1 DEF KeysInv, AllTraceKeyed
<1>4. KeysOnTheirWay' = KeysOnTheirWay
  BY <1>1 DEF KeysOnTheirWay
<1>5. QED
  BY <1>1, <1>2, <1>3, <1>4 DEF KeysInv

(* A 404 asks again under its key, or leaves the key behind.               *)
LEMMA MissingKeeps ==
  ASSUME KeysInv, NEW a \in replies, ReceiveMissing(a)
  PROVE  KeysInv'
<1> DEFINE again == TraceRequest(a.request.tlid, a.request.key.id)
<1>1. /\ asking' \cup posted' = asking \cup posted \cup again
      /\ \/ asking' = asking \cup again /\ posted' = posted
         \/ asking' = asking /\ posted' = posted \cup again
      /\ replies' = replies \ {a}
      /\ UNCHANGED syncState
  BY DEF ReceiveMissing, Fetch
<1>2. a.request.key \in syncState \ orphans
  BY DEF KeysInv, KeysOnTheirWay
<1>3. \A r \in again : r.key = a.request.key /\ TraceKeyed(r)
  <2>1. a.request.key = TraceKey(a.request.key.id)
    BY DEF ReceiveMissing, KeysInv, AllTraceKeyed, TraceKeyed
  <2>2. \A r \in again : r.key = TraceKey(a.request.key.id)
    BY DEF TraceRequest
  <2>3. Askable(again)
    BY TraceRequestAskable
  <2>4. QED
    BY <2>1, <2>2, <2>3 DEF Askable
<1>4. \A r, q \in again : r = q
  BY DEF TraceRequest
<1>5. \A r \in asking \cup posted : r.key # a.request.key
  BY DEF KeysInv, OnePerKey
<1>6. \A b \in replies' : b.request.key # a.request.key
  BY <1>1 DEF KeysInv, OnePerKey
<1>7. OnePerKey'
  BY <1>1, <1>3, <1>4, <1>5, <1>6 DEF KeysInv, OnePerKey
<1>8. AllTraceKeyed'
  BY <1>1, <1>3 DEF KeysInv, AllTraceKeyed
<1>9. CASE a.request.tlid \in toplevels
  <2>1. orphans' = orphans
    BY <1>9 DEF ReceiveMissing
  <2>2. \E r \in again : r.key = a.request.key
    BY <1>3, <1>9 DEF TraceRequest
  <2>3. KeysOnTheirWay' = KeysOnTheirWay
    BY <1>1, <1>3, <2>2 DEF KeysOnTheirWay
  <2>4. QED
    BY <1>1, <1>7, <1>8, <2>1, <2>3 DEF KeysInv
<1>10. CASE a.request.tlid \notin toplevels
  <2>1. orphans' = orphans \cup {a.request.key} /\ again = {}
    BY <1>10 DEF ReceiveMissing, TraceRequest
  <2>2. KeysOnTheirWay' = KeysOnTheirWay \ {a.request.key}
    BY <1>1, <1>5, <1>6, <2>1 DEF KeysOnTheirWay
  <2>3. QED
    BY <1>1, <1>2, <1>7, <1>8, <2>1, <2>2 DEF KeysInv
<1>11. QED
  BY <1>9, <1>10

(* Steps that have nothing to do with requests.                            *)
LEMMA UntouchedKeeps ==
  ASSUME KeysInv, UNCHANGED <<syncState, asking, posted, replies, orphans>>
  PROVE  KeysInv'
  BY DEF KeysInv, OnePerKey, AllTraceKeyed, KeysOnTheirWay

(* A handler that asks while nothing arrives.                              *)
LEMMA AskKeeps ==
  ASSUME KeysInv, NEW wanted, Askable(wanted), Attempt(syncState, wanted),
         UNCHANGED <<replies, orphans>>
  PROVE  KeysInv'
<1>1. Attempt(syncState \ {b.request.key : b \in {}}, wanted)
  <2>1. syncState \ {b.request.key : b \in {}} = syncState
    OBVIOUS
  <2>2. QED
    BY <2>1
<1>2. QED
  BY <1>1, AttemptKeeps

(* What analyzeFocused asks for is of the toplevel that has the cursor.    *)
LEMMA FocusedAskable == Askable(Unfetched(focused)')
  BY DEF Unfetched, TraceRequest, Askable, TraceKeyed, TraceKey

LEMMA AnalyzeKeeps ==
  ASSUME KeysInv, AnalyzeFocused(syncState), UNCHANGED <<replies, orphans>>
  PROVE  KeysInv'
  BY AskKeeps, FocusedAskable DEF AnalyzeFocused

-----------------------------------------------------------------------------
LEMMA ChangePageKeeps ==
  ASSUME KeysInv, NEW tl, NEW id, ChangePage(tl, id)
  PROVE  KeysInv'
<1>1. CASE id = None
  BY <1>1, UntouchedKeeps DEF ChangePage
<1>2. CASE id # None
  <2>1. PICK before \in {focused} : Attempt(syncState, Unfetched(before)')
    BY <1>2 DEF ChangePage
  <2>2. Askable(Unfetched(before)')
    BY DEF Unfetched, TraceRequest, Askable, TraceKeyed, TraceKey
  <2>3. UNCHANGED <<replies, orphans>>
    BY DEF ChangePage
  <2>4. QED
    BY <2>1, <2>2, <2>3, AskKeeps
<1>3. QED
  BY <1>1, <1>2

(* With no cursor, a click asks twice for one toplevel.                    *)
LEMMA TraceClickKeeps ==
  ASSUME KeysInv, NEW tl, NEW id, TraceClick(tl, id)
  PROVE  KeysInv'
<1> DEFINE selected == IF focused = None THEN Unfetched(tl) ELSE {}
           wanted == selected \cup Unfetched(focused)'
<1>1. Attempt(syncState, wanted) /\ UNCHANGED <<replies, orphans>>
  BY DEF TraceClick
<1>2. Askable(wanted)
  <2>1. CASE focused = None
    <3>1. focused' = tl
      BY <2>1 DEF TraceClick
    <3>2. \A r \in wanted : r.tlid = tl /\ r = [tlid |-> tl, key |-> TraceKey(r.key.id)]
      BY <3>1, <2>1 DEF Unfetched, TraceRequest, TraceKey
    <3>3. QED
      BY <3>2 DEF Askable, TraceKeyed, TraceKey
  <2>2. CASE focused # None
    BY <2>2, FocusedAskable
  <2>3. QED
    BY <2>1, <2>2
<1>3. QED
  BY <1>1, <1>2, AskKeeps

LEMMA UserKeeps ==
  ASSUME KeysInv, UserStep
  PROVE  KeysInv'
<1>1. ASSUME NEW tl \in Toplevels, Select(tl) PROVE KeysInv'
  BY <1>1, AnalyzeKeeps DEF Select
<1>2. ASSUME NEW tl \in Toplevels, NEW id, TraceMouseEnter(tl, id) PROVE KeysInv'
  BY <1>2, AskKeeps, TraceRequestAskable DEF TraceMouseEnter, viewVars
<1>3. ASSUME NEW tl \in canvas, AddToplevel(tl) PROVE KeysInv'
  BY <1>3, AnalyzeKeeps DEF AddToplevel
<1>4. ASSUME NEW tl \in Toplevels, RemoveToplevel(tl) \/ TriggerHandler(tl) PROVE KeysInv'
  BY <1>4, UntouchedKeeps DEF RemoveToplevel, TriggerHandler, fetchVars
<1>5. ASSUME Deselect PROVE KeysInv'
  BY <1>5, UntouchedKeeps DEF Deselect, fetchVars
<1>6. QED
  BY <1>1, <1>2, <1>3, <1>4, <1>5, ChangePageKeeps, TraceClickKeeps DEF UserStep

LEMMA ServerKeeps ==
  ASSUME KeysInv, ServerStep
  PROVE  KeysInv'
<1>1. ASSUME OpsSaved \/ FetchAllTraces PROVE KeysInv'
  BY <1>1, UntouchedKeeps DEF OpsSaved, FetchAllTraces, fetchVars
<1>2. ASSUME NEW t \in Traces, NewTrace(t) PROVE KeysInv'
  BY <1>2, UntouchedKeeps DEF NewTrace, fetchVars
<1>3. ASSUME NEW r \in runs, RunFinishes(r) PROVE KeysInv'
  BY <1>3, UntouchedKeeps DEF RunFinishes, fetchVars
<1>4. ASSUME NEW r \in posted, GetTraceData(r) PROVE KeysInv'
  BY <1>4, AnswerKeeps DEF GetTraceData, traceVars
<1>5. ASSUME NEW r \in posted, GetWorkerStats(r) PROVE KeysInv'
  BY <1>5, AnswerKeeps DEF GetWorkerStats, traceVars
<1>6. QED
  BY <1>1, <1>2, <1>3, <1>4, <1>5 DEF ServerStep

LEMMA FetcherKeeps ==
  ASSUME KeysInv, FetcherStep
  PROVE  KeysInv'
<1>1. UNCHANGED orphans
  BY DEF FetcherStep, traceVars
<1>2. ASSUME FetcherLoads \/ FetcherFails PROVE KeysInv'
  BY <1>1, <1>2, UntouchedKeeps DEF FetcherLoads, FetcherFails
<1>3. ASSUME NEW r \in posted, AnswerFails(r) PROVE KeysInv'
  BY <1>1, <1>3, AnswerKeeps DEF AnswerFails
<1>4. QED
  BY <1>1, <1>2, <1>3, RetryKeeps DEF FetcherStep

LEMMA PageKeeps ==
  ASSUME KeysInv, PageStep
  PROVE  KeysInv'
<1>1. ASSUME NEW p \in pushes, NewTracePush(p) PROVE KeysInv'
  BY <1>1, AnalyzeKeeps DEF NewTracePush
<1>2. ASSUME FetchAllTracesCallback PROVE KeysInv'
  BY <1>2, AnalyzeKeeps DEF FetchAllTracesCallback
<1>3. ASSUME NEW r \in runs, TriggerHandlerCallback(r) PROVE KeysInv'
  BY <1>3, AnalyzeKeeps DEF TriggerHandlerCallback
<1>4. ASSUME NEW a \in replies, ReceiveTrace(a) PROVE KeysInv'
  <2>1. Attempt(syncState \ {b.request.key : b \in {a}}, Unfetched(focused)')
    <3>1. {b.request.key : b \in {a}} = {a.request.key}
      OBVIOUS
    <3>2. QED
      BY <1>4, <3>1 DEF ReceiveTrace, AnalyzeFocused
  <2>2. replies' = replies \ {a} /\ UNCHANGED orphans
    BY <1>4 DEF ReceiveTrace
  <2>3. QED
    BY <1>4, <2>1, <2>2, FocusedAskable, AttemptKeeps
<1>5. ASSUME NEW a \in replies, ReceiveFailure(a) PROVE KeysInv'
  BY <1>5, GivenBackKeeps DEF ReceiveFailure, traceVars
<1>6. ASSUME NEW a \in replies, ReceiveStats(a) PROVE KeysInv'
  BY <1>6, GivenBackKeeps DEF ReceiveStats, traceVars
<1>7. QED
  BY <1>1, <1>2, <1>3, <1>4, <1>5, <1>6, MissingKeeps DEF PageStep

LEMMA WindowKeeps ==
  ASSUME KeysInv, WindowStep
  PROVE  KeysInv'
<1>1. ASSUME OnFocus \/ OnBlur \/ SwitchTab \/ VisibilityCheck PROVE KeysInv'
  BY <1>1, UntouchedKeeps DEF OnFocus, OnBlur, SwitchTab, VisibilityCheck, fetchVars, traceVars
<1>2. ASSUME TimerFire PROVE KeysInv'
  <2>1. Askable({[tlid |-> focused, key |-> StatsKey(focused)]})
    BY DEF Askable, TraceKeyed, StatsKey
  <2>2. QED
    BY <1>2, <2>1, AskKeeps DEF TimerFire, traceVars
<1>3. QED
  BY <1>1, <1>2 DEF WindowStep

LEMMA StepKeysInv == KeysInv /\ [Next]_vars => KeysInv'
<1>1. ASSUME KeysInv, UNCHANGED vars PROVE KeysInv'
  BY <1>1, UntouchedKeeps DEF vars, fetchVars, traceVars
<1>2. QED
  BY <1>1, UserKeeps, ServerKeeps, FetcherKeeps, PageKeeps, WindowKeeps DEF Next

(* Counting: a key in flight has one request, any other has none.          *)
LEMMA KeysInvCounts == KeysInv => KeysAreHeld
<1> SUFFICES ASSUME KeysInv, NEW key \in Keys
             PROVE  /\ Cardinality(HeldBy(key)) = IF key \in syncState \ orphans THEN 1 ELSE 0
                    /\ key \in orphans => key \in syncState
  BY DEF KeysAreHeld
<1>1. \A o, p \in HeldBy(key) : o = p
  BY DEF KeysInv, OnePerKey, HeldBy, Outstanding
<1>2. CASE key \in syncState \ orphans
  <2>1. PICK o \in Outstanding : o[1].key = key
    <3>1. key \in KeysOnTheirWay
      BY <1>2 DEF KeysInv
    <3>2. CASE \E r \in asking \cup posted : r.key = key
      <4>1. PICK r \in asking \cup posted : r.key = key
        BY <3>2
      <4>2. <<r, "asking">> \in Outstanding \/ <<r, "posted">> \in Outstanding
        BY DEF Outstanding
      <4>3. QED
        BY <4>1, <4>2
    <3>3. CASE \E a \in replies : a.request.key = key
      <4>1. PICK a \in replies : a.request.key = key
        BY <3>3
      <4>2. <<a.request, a.result>> \in Outstanding
        BY DEF Outstanding
      <4>3. QED
        BY <4>1, <4>2
    <3>4. QED
      BY <3>1, <3>2, <3>3 DEF KeysOnTheirWay
  <2>2. HeldBy(key) = {o}
    BY <1>1, <2>1 DEF HeldBy
  <2>3. QED
    BY <1>2, <2>2, FS_Singleton DEF KeysInv
<1>3. CASE key \notin syncState \ orphans
  <2>1. HeldBy(key) = {}
    BY <1>3 DEF KeysInv, KeysOnTheirWay, HeldBy, Outstanding
  <2>2. QED
    BY <1>3, <2>1, FS_EmptySet DEF KeysInv
<1>4. QED
  BY <1>2, <1>3

(* Whatever arrives in whatever order, a key is in flight exactly while    *)
(* one request with it is: Sync.ml refuses a request only for one that     *)
(* will be answered, except where a toplevel was deleted under a 404.      *)
THEOREM KeysAreAlwaysHeld == Spec => []KeysAreHeld
  BY InitKeysInv, StepKeysInv, KeysInvCounts, PTL DEF Spec

-----------------------------------------------------------------------------
(* The inductive invariant. *)

Distinct(list) == \A i, j \in DOMAIN list : list[i].id = list[j].id => i = j

Different(ids) == \A i, j \in DOMAIN ids : ids[i] = ids[j] => i = j

(* Traces with an id of A and data of D.                                   *)
Lists(A, D) == {list \in Seq([id : A, data : D]) : Distinct(list)}

DataOrNot == {TooLarge, NoneYet} \cup 1..(1 + MaxGestures)

(* What the server has: of each toplevel, the traces that can be its own.  *)
ServerInv ==
  /\ canvas \subseteq Toplevels /\ saved \subseteq canvas
  /\ stored \in Seq(Traces) /\ Different(stored)
  /\ \A tl \in Toplevels : called[tl] \in Seq(Belongs(tl)) /\ Different(called[tl])

(* Messages on their way name a trace only for toplevels it can belong to. *)
MessagesInv ==
  /\ \A tl \in Toplevels :
       /\ allTraces.ids[tl] \in Seq(Belongs(tl)) /\ Different(allTraces.ids[tl])
       /\ Len(allTraces.ids[tl]) <= MaxTraces
  /\ \A p \in pushes : p.id \in IDs /\ \A tl \in p.tlids : tl \in Toplevels /\ p.id \in Belongs(tl)
  /\ runs \subseteq [n : Nat, tlid : Toplevels, id : IDs, done : BOOLEAN, touched : SUBSET Toplevels]
  /\ \A r \in runs : r.tlid = Owner(r.id) /\ \A tl \in r.touched : r.id \in Belongs(tl)

(* Each run that the user has started adds one version at most.            *)
Pending == {r \in runs : ~r.done}

VersionsInv ==
  /\ gestures \in Nat /\ gestures <= MaxGestures
  /\ IsFiniteSet(runs)
  /\ \A tl \in Toplevels : \A id \in Belongs(tl) :
       /\ ver[tl][id] \in Nat \ {0}
       /\ ver[tl][id] + Cardinality(Pending) <= 1 + gestures
  /\ \A tl \in Toplevels : ver[tl] \in [Belongs(tl) -> Nat]

FetchInv ==
  /\ fetcherWorker \in {"loading", "ready", "failed"}
  /\ syncState \subseteq Keys
  /\ asking \subseteq Requests /\ posted \subseteq Requests
  /\ replies \subseteq [request : Requests, result : Results]
  /\ visibility \in {"Visible", "Hidden"}

(* What may be shown of a toplevel.                                        *)
Shown(tl, list) ==
  /\ list \in Lists(Belongs(tl), DataOrNot)
  /\ Len(list) <= MaxTraces + 1

ViewInv ==
  /\ toplevels \subseteq canvas /\ deleted \subseteq canvas \ toplevels
  /\ focused \in toplevels \cup {None}
  /\ tlTraceIDs \in [Toplevels -> IDs \cup {None}]
  /\ \A tl \in Toplevels : tlTraceIDs[tl] \in Belongs(tl) \cup {None}
  /\ \A tl \in Toplevels : Shown(tl, traces[tl])

PageInv == ServerInv /\ MessagesInv /\ VersionsInv /\ FetchInv /\ ViewInv

(* Data of trace id for tl is the latest, or older in one of two ways: the *)
(* run that made it old has not come back, or older data was on its way    *)
(* when it did.                                                            *)
Current(tl, id, data) ==
  /\ data <= ver[tl][id]
  /\ \/ data = ver[tl][id]
     \/ id \in raced
     \/ \E r \in runs : r.done /\ r.id = id /\ tl \in r.touched

FreshInv ==
  /\ \A tl \in Toplevels : \A e \in Entries(tl) : IsOk(e.data) => Current(tl, e.id, e.data)
  /\ \A a \in replies : a.request.key.kind = "trace" /\ IsOk(a.result) =>
       Current(a.request.tlid, a.request.key.id, a.result)

-----------------------------------------------------------------------------
(* What placing traces in a list does to it. *)

(* list has come of old by placing the traces N.                           *)
Follows(override, N, old, list) ==
  /\ \A e \in ToSet(old) : \E f \in ToSet(list) : f.id = e.id
  /\ ~override =>
       /\ ToSet(list) \subseteq ToSet(old) \cup N
       /\ \A e \in ToSet(old) : \A f \in ToSet(list) :
            f.id = e.id /\ IsOk(e.data) => IsOk(f.data)
  /\ override => \A f \in ToSet(list) :
       f \in N \/ f = NoTrace(f.id) \/ (f \in ToSet(old) /\ \A n \in N : n.id # f.id)

LEMMA ListMembers ==
  ASSUME NEW S, NEW s \in Seq(S)
  PROVE  /\ Len(s) \in Nat /\ DOMAIN s = 1..Len(s)
         /\ \A i \in 1..Len(s) : s[i] \in S /\ s[i] \in ToSet(s)
         /\ \A e \in ToSet(s) : \E i \in 1..Len(s) : s[i] = e
         /\ ToSet(s) \subseteq S
  BY LenProperties, ElementOfSeq DEF ToSet

(* A list with its elements replaced, one by one.                          *)
LEMMA Replaced ==
  ASSUME NEW S, NEW n \in Nat, NEW q, q = [i \in 1..n |-> q[i]],
         \A i \in 1..n : q[i] \in S
  PROVE  q \in Seq(S) /\ Len(q) = n /\ DOMAIN q = 1..n
<1>1. q \in [1..n -> S]
  OBVIOUS
<1>2. q \in Seq(S)
  BY <1>1, SeqDef
<1>3. DOMAIN q = 1..n
  BY <1>1
<1>4. Len(q) \in Nat /\ DOMAIN q = 1..Len(q)
  BY <1>2, LenProperties
<1> QED  BY <1>2, <1>3, <1>4

LEMMA OnConflictIs ==
  ASSUME NEW override, NEW A, NEW D, NoneYet \in D,
         NEW old \in [id : A, data : D], NEW e \in [id : A, data : D], old.id = e.id
  PROVE  /\ OnConflict(override, old, e) \in [id : A, data : D]
         /\ OnConflict(override, old, e).id = e.id
         /\ override => OnConflict(override, old, e) = NoTrace(e.id)
         /\ ~override => /\ OnConflict(override, old, e) \in {old, e}
                         /\ IsOk(old.data) => IsOk(OnConflict(override, old, e).data)
  BY DEF OnConflict, Overridden, Updated, NoTrace

LEMMA PlaceFollows ==
  ASSUME NEW override, NEW A, NEW D, NoneYet \in D,
         NEW N, NEW old, NEW list \in Lists(A, D), Follows(override, N, old, list),
         NEW e \in [id : A, data : D]
  PROVE  /\ Place(override, e, list) \in Lists(A, D)
         /\ Follows(override, N \cup {e}, old, Place(override, e, list))
<1> DEFINE E == [id : A, data : D]
           L == Len(list)
<1>1. list \in Seq(E) /\ Distinct(list)
  BY DEF Lists
<1>2. /\ L \in Nat /\ DOMAIN list = 1..L
      /\ \A i \in 1..L : list[i] \in E /\ list[i] \in ToSet(list)
      /\ \A f \in ToSet(list) : \E i \in 1..L : list[i] = f
  BY <1>1, ListMembers
<1> HIDE DEF L
<1>3. \A i, j \in 1..L : list[i].id = list[j].id => i = j
  BY <1>1, <1>2 DEF Distinct
<1>4. CASE \E i \in 1..L : list[i].id = e.id
  <2> DEFINE q == [i \in 1..L |-> IF list[i].id = e.id THEN OnConflict(override, list[i], e)
                                   ELSE list[i]]
  <2>1. Place(override, e, list) = q
    BY <1>2, <1>4 DEF Place
  <2>2. \A i \in 1..L : q[i] = IF list[i].id = e.id THEN OnConflict(override, list[i], e) ELSE list[i]
    OBVIOUS
  <2>3. q = [i \in 1..L |-> q[i]]
    OBVIOUS
  <2> HIDE DEF q
  <2>4. ASSUME NEW i \in 1..L
        PROVE  /\ q[i] \in E /\ q[i].id = list[i].id
               /\ override => q[i] = NoTrace(e.id) \/ (q[i] = list[i] /\ list[i].id # e.id)
               /\ ~override => /\ q[i] \in {list[i], e}
                               /\ IsOk(list[i].data) => IsOk(q[i].data)
    <3>1. CASE list[i].id = e.id
      <4>1. list[i] \in E /\ q[i] = OnConflict(override, list[i], e)
        BY <1>2, <2>2, <3>1
      <4> QED  BY <3>1, <4>1, OnConflictIs
    <3>2. CASE list[i].id # e.id
      BY <1>2, <2>2, <3>2
    <3> QED  BY <3>1, <3>2
  <2>5. q \in Seq(E) /\ Len(q) = L /\ DOMAIN q = 1..L
    <3>1. \A i \in 1..L : q[i] \in E
      BY <2>4
    <3> HIDE DEF E
    <3> QED  BY <1>2, <2>3, <3>1, Replaced
  <2>6. Distinct(q)
    BY <1>3, <2>4, <2>5 DEF Distinct
  <2>7. /\ \A i \in 1..L : q[i] \in ToSet(q)
        /\ \A f \in ToSet(q) : \E i \in 1..L : q[i] = f
    BY <2>5, ListMembers
  <2>8. Follows(override, N \cup {e}, old, q)
    <3>1. \A g \in ToSet(old) : \E f \in ToSet(q) : f.id = g.id
      <4> TAKE g \in ToSet(old)
      <4>1. PICK f \in ToSet(list) : f.id = g.id
        BY DEF Follows
      <4>2. PICK i \in 1..L : list[i] = f
        BY <1>2
      <4> QED  BY <2>4, <2>7, <4>1, <4>2
    <3>2. ASSUME ~override
          PROVE  /\ ToSet(q) \subseteq ToSet(old) \cup (N \cup {e})
                 /\ \A g \in ToSet(old) : \A f \in ToSet(q) :
                      f.id = g.id /\ IsOk(g.data) => IsOk(f.data)
      <4>1. ToSet(list) \subseteq ToSet(old) \cup N
        BY <3>2 DEF Follows
      <4>2. \A g \in ToSet(old) : \A f \in ToSet(list) : f.id = g.id /\ IsOk(g.data) => IsOk(f.data)
        BY <3>2 DEF Follows
      <4> QED  BY <1>2, <2>4, <2>7, <3>2, <4>1, <4>2
    <3>3. ASSUME override, NEW f \in ToSet(q)
          PROVE  \/ f \in N \cup {e} \/ f = NoTrace(f.id)
                 \/ f \in ToSet(old) /\ \A n \in N \cup {e} : n.id # f.id
      <4>1. PICK i \in 1..L : q[i] = f
        BY <2>7
      <4>2. \/ list[i] \in N \/ list[i] = NoTrace(list[i].id)
            \/ list[i] \in ToSet(old) /\ \A n \in N : n.id # list[i].id
        BY <1>2, <3>3 DEF Follows
      <4>3. CASE f = NoTrace(e.id)
        BY <4>3 DEF NoTrace
      <4>4. CASE f = list[i] /\ list[i].id # e.id
        BY <4>2, <4>4
      <4> QED  BY <2>4, <3>3, <4>1, <4>3, <4>4
    <3> QED  BY <3>1, <3>2, <3>3 DEF Follows
  <2> QED  BY <2>1, <2>5, <2>6, <2>8 DEF Lists
<1>5. CASE ~\E i \in 1..L : list[i].id = e.id
  <2> DEFINE q == <<e>> \o list
  <2>1. Place(override, e, list) = q
    BY <1>2, <1>5 DEF Place
  <2>2. <<e>> \in Seq(E) /\ Len(<<e>>) = 1 /\ <<e>>[1] = e
    OBVIOUS
  <2>3. /\ q \in Seq(E) /\ Len(q) = 1 + L
        /\ \A i \in 1..(1 + L) : q[i] = IF i <= 1 THEN <<e>>[i] ELSE list[i - 1]
    BY <1>1, <2>2, ConcatProperties DEF L
  <2> HIDE DEF q
  <2>4. /\ DOMAIN q = 1..(1 + L)
        /\ \A i \in 1..(1 + L) : q[i] \in ToSet(q)
        /\ \A f \in ToSet(q) : \E i \in 1..(1 + L) : q[i] = f
    BY <2>3, ListMembers
  <2>5. q[1] = e /\ \A i \in 1..L : i + 1 \in 1..(1 + L) /\ q[i + 1] = list[i]
    BY <1>2, <2>2, <2>3
  <2>6. \A i \in 1..(1 + L) : i = 1 \/ (i - 1 \in 1..L /\ q[i] = list[i - 1])
    BY <1>2, <2>3
  <2>7. Distinct(q)
    <3> SUFFICES ASSUME NEW i \in 1..(1 + L), NEW j \in 1..(1 + L), q[i].id = q[j].id  PROVE i = j
      BY <2>4 DEF Distinct
    <3>1. CASE i = 1 \/ j = 1
      BY <1>5, <2>5, <2>6, <3>1
    <3>2. CASE i # 1 /\ j # 1
      <4>1. i - 1 \in 1..L /\ j - 1 \in 1..L /\ list[i - 1].id = list[j - 1].id
        BY <2>6, <3>2
      <4>2. i - 1 = j - 1
        BY <1>3, <4>1
      <4> QED  BY <4>2
    <3> QED  BY <3>1, <3>2
  <2>8. ToSet(q) = ToSet(list) \cup {e}
    <3>1. ASSUME NEW f \in ToSet(q)  PROVE f \in ToSet(list) \cup {e}
      BY <1>2, <2>4, <2>5, <2>6
    <3>2. ASSUME NEW f \in ToSet(list)  PROVE f \in ToSet(q)
      BY <1>2, <2>4, <2>5
    <3>3. 1 \in 1..(1 + L)
      BY <1>2
    <3> QED  BY <2>4, <2>5, <3>1, <3>2, <3>3
  <2>9. \A f \in ToSet(list) : f.id # e.id
    BY <1>2, <1>5
  <2>10. Follows(override, N \cup {e}, old, q)
    <3>1. \A g \in ToSet(old) : \E f \in ToSet(q) : f.id = g.id
      BY <2>8 DEF Follows
    <3>2. ASSUME ~override
          PROVE  /\ ToSet(q) \subseteq ToSet(old) \cup (N \cup {e})
                 /\ \A g \in ToSet(old) : \A f \in ToSet(q) :
                      f.id = g.id /\ IsOk(g.data) => IsOk(f.data)
      BY <2>8, <2>9, <3>2 DEF Follows
    <3>3. ASSUME override, NEW f \in ToSet(q)
          PROVE  \/ f \in N \cup {e} \/ f = NoTrace(f.id)
                 \/ f \in ToSet(old) /\ \A n \in N \cup {e} : n.id # f.id
      BY <2>8, <2>9, <3>3 DEF Follows
    <3> QED  BY <3>1, <3>2, <3>3 DEF Follows
  <2> QED  BY <2>1, <2>3, <2>7, <2>10 DEF Lists
<1> QED  BY <1>4, <1>5

LEMMA NothingFollows ==
  ASSUME NEW override, NEW A, NEW D, NEW old \in Lists(A, D)
  PROVE  Follows(override, {}, old, old)
<1>1. old \in Seq([id : A, data : D]) /\ Distinct(old)
  BY DEF Lists
<1>2. \A e, f \in ToSet(old) : e.id = f.id => e = f
  BY <1>1, ListMembers DEF Distinct
<1> QED  BY <1>2 DEF Follows

(* The new traces of a toplevel, placed from the last to the first.        *)
LEMMA PlacedFollows ==
  ASSUME NEW override, NEW A, NEW D, NoneYet \in D,
         NEW old \in Lists(A, D), NEW new \in Seq([id : A, data : D])
  PROVE  /\ Placed(override, new, old) \in Lists(A, D)
         /\ Follows(override, ToSet(new), old, Placed(override, new, old))
<1> DEFINE L == Len(new)
           Q == Lists(A, D)
           Body(g) == [k \in 0..L |-> IF k = 0 THEN old
                                      ELSE Place(override, new[L + 1 - k], g[k - 1])]
           placed == CHOOSE g : g = Body(g)
           step == [a \in Q \X (1..L) |-> Place(override, new[L + 1 - a[2]], a[1])]
<1>1. L \in Nat /\ \A n \in 1..L : new[n] \in [id : A, data : D] /\ new[n] \in ToSet(new)
  BY ListMembers
<1>2. Placed(override, new, old) = placed[L]
  BY DEF Placed
<1>3. \A e \in ToSet(new) : \E n \in 1..L : new[n] = e
  BY ListMembers
<1> HIDE DEF L
<1>4. \A n \in 1..L : L + 1 - n \in 1..L
  BY <1>1
<1>5. \A q \in Q, n \in 1..L : step[<<q, n>>] = Place(override, new[L + 1 - n], q)
  OBVIOUS
<1>6. ASSUME NEW q \in Q, NEW n \in 1..L  PROVE Place(override, new[L + 1 - n], q) \in Q
  <2>1. new[L + 1 - n] \in [id : A, data : D]
    BY <1>1, <1>4
  <2>2. Follows(override, {}, q, q)
    BY NothingFollows
  <2> QED  BY <2>1, <2>2, PlaceFollows
<1> HIDE DEF step
<1>7. PICK f \in [0..L -> Q] :
        f[0] = old /\ \A n \in 1..L : f[n] = step[<<f[n - 1], n>>]
  <2>1. IsStep(step, old, L, Q)
    BY <1>1, <1>5, <1>6 DEF IsStep
  <2> HIDE DEF Q
  <2>2. \E f \in [0..L -> Q] : Builds(f, step, old, L)
    BY <2>1, Recursion
  <2> QED  BY <2>2 DEF Builds
<1>8. \A n \in 1..L : n - 1 \in 0..L /\ n \in 0..L /\ n # 0
  BY <1>1
<1>9. 0 \in 0..L /\ L \in 0..L /\ \A n \in 0..L : n # 0 => n \in 1..L
  BY <1>1
<1>10. \A n \in 1..L : f[n] = Place(override, new[L + 1 - n], f[n - 1])
  BY <1>5, <1>7, <1>8
<1>11. f = Body(f)
  <2>1. f = [n \in 0..L |-> f[n]]
    OBVIOUS
  <2> QED  BY <1>7, <1>9, <1>10, <2>1
<1>12. placed = Body(placed)
  BY <1>11, Zenon
<1> HIDE DEF placed
<1>13. /\ placed[0] = old
       /\ \A n \in 1..L : placed[n] = Place(override, new[L + 1 - n], placed[n - 1])
  <2> HIDE DEF Body
  <2>1. placed[0] = Body(placed)[0] /\ \A n \in 1..L : placed[n] = Body(placed)[n]
    BY <1>12
  <2>2. Body(placed)[0] = old
    BY <1>9 DEF Body
  <2>3. \A n \in 1..L : Body(placed)[n] = Place(override, new[L + 1 - n], placed[n - 1])
    BY <1>8 DEF Body
  <2> QED  BY <2>1, <2>2, <2>3
<1> HIDE DEF Body
<1> DEFINE N(k) == {new[n] : n \in (L + 1 - k)..L}
           S == {k \in 0..L : placed[k] \in Q /\ Follows(override, N(k), old, placed[k])}
<1>14. 0 \in S
  <2>1. (L + 1 - 0)..L = {}
    BY <1>1
  <2>2. N(0) = {}
    BY <2>1
  <2>3. placed[0] \in Q /\ Follows(override, {}, old, placed[0])
    BY <1>13, NothingFollows
  <2> HIDE DEF N, Q
  <2> QED  BY <1>9, <2>2, <2>3
<1>15. ASSUME NEW k \in 1..L, k - 1 \in S  PROVE k \in S
  <2> DEFINE e == new[L + 1 - k]
  <2>1. e \in [id : A, data : D]
    BY <1>1, <1>4
  <2>2. N(k) = N(k - 1) \cup {e}
    <3>1. (L + 1 - k)..L = ((L + 1 - (k - 1))..L) \cup {L + 1 - k}
      BY <1>1
    <3> QED  BY <3>1
  <2> HIDE DEF N, e
  <2>3. placed[k - 1] \in Q /\ Follows(override, N(k - 1), old, placed[k - 1])
    BY <1>15
  <2>4. placed[k] = Place(override, e, placed[k - 1])
    BY <1>13 DEF e
  <2> DEFINE M == N(k - 1)
             q == placed[k - 1]
  <2>5. q \in Lists(A, D) /\ Follows(override, M, old, q)
    BY <2>3
  <2>6. placed[k] = Place(override, e, q) /\ N(k) = M \cup {e}
    BY <2>2, <2>4
  <2> HIDE DEF M, q
  <2>7. /\ Place(override, e, q) \in Lists(A, D)
        /\ Follows(override, M \cup {e}, old, Place(override, e, q))
    BY <2>1, <2>5, PlaceFollows
  <2>8. placed[k] \in Q /\ Follows(override, N(k), old, placed[k])
    BY <2>6, <2>7
  <2> HIDE DEF Q
  <2> QED  BY <1>8, <2>8
<1> HIDE DEF S
<1>16. 0..L \subseteq S
  BY <1>1, <1>14, <1>15, InductTo
<1>17. placed[L] \in Q /\ Follows(override, N(L), old, placed[L])
  BY <1>9, <1>16 DEF S
<1>18. N(L) = ToSet(new)
  <2>1. (L + 1 - L)..L = 1..L
    BY <1>1
  <2> QED  BY <1>1, <1>3, <2>1
<1> HIDE DEF N
<1> QED  BY <1>2, <1>17, <1>18

(* As many are kept as there are indices.                                  *)
LEMMA Counted ==
  ASSUME NEW n, NEW m, NEW S, S \subseteq Nat, Enumerates(m, n, S)
  PROVE  IsFiniteSet(S) /\ Cardinality(S) = n
<1>1. /\ n \in Nat /\ m \in [1..n -> S]
      /\ \A k, l \in 1..n : k < l => m[k] < m[l]
      /\ \A j \in S : \E k \in 1..n : m[k] = j
  BY DEF Enumerates
<1>2. ASSUME NEW k \in 1..n, NEW l \in 1..n, m[k] = m[l]  PROVE k = l
  <2>1. m[k] \in Nat /\ m[l] \in Nat
    BY <1>1
  <2>2. ~(m[k] < m[l]) /\ ~(m[l] < m[k])
    BY <1>2, <2>1
  <2> QED  BY <1>1, <2>2
<1>3. m \in Bijection(1..n, S)
  BY <1>1, <1>2 DEF Bijection, Injection, Surjection, IsInjective
<1>4. ExistsBijection(1..n, S)
  BY <1>3 DEF ExistsBijection
<1> QED  BY <1>1, <1>4, FS_NatBijection, FS_CountingElements

(* If the last of them were beyond the limit, the limit would be too.      *)
LEMMA WithinLimitKeeps ==
  ASSUME NEW A, NEW D, NEW list \in Lists(A, D), NEW selected
  PROVE  /\ WithinLimit(list, selected) \in Lists(A, D)
         /\ Len(WithinLimit(list, selected)) <= MaxTraces + 1
         /\ ToSet(WithinLimit(list, selected)) \subseteq ToSet(list)
         /\ \A e \in ToSet(list) : e.id = selected => e \in ToSet(WithinLimit(list, selected))
<1> DEFINE E == [id : A, data : D]
           L == Len(list)
           Others(i) == {j \in 1..i : list[j].id # selected}
           I == {i \in 1..L : list[i].id = selected \/ Cardinality(Others(i)) <= MaxTraces}
           p == Kept(list, I)
<1>1. list \in Seq(E) /\ Distinct(list)
  BY DEF Lists
<1>2. /\ L \in Nat /\ DOMAIN list = 1..L
      /\ \A i \in 1..L : list[i] \in E /\ list[i] \in ToSet(list)
      /\ \A f \in ToSet(list) : \E i \in 1..L : list[i] = f
  BY <1>1, ListMembers
<1>3. WithinLimit(list, selected) = p
  BY <1>2 DEF WithinLimit
<1>4. p \in Seq(E) /\ \E m : KeptBy(p, m, list, I)
  BY <1>1, KeptIsKept
<1>5. PICK m : KeptBy(p, m, list, I)
  BY <1>4
<1> HIDE DEF p
<1> DEFINE n == Len(p)
<1>6. /\ n \in Nat /\ DOMAIN p = 1..n
      /\ \A k \in 1..n : p[k] \in ToSet(p)
      /\ \A f \in ToSet(p) : \E k \in 1..n : p[k] = f
  BY <1>4, ListMembers
<1>7. I \cap 1..L = I
  OBVIOUS
<1>8. Enumerates(m, n, I) /\ \A k \in 1..n : p[k] = list[m[k]]
  BY <1>5, <1>7 DEF KeptBy
<1> HIDE DEF n
<1>9. I \subseteq 1..L /\ I \subseteq Nat
  OBVIOUS
<1>10. \A i \in I : i \in 1..L /\ (list[i].id = selected \/ Cardinality(Others(i)) <= MaxTraces)
  OBVIOUS
<1>11. \A i \in 1..L : list[i].id = selected => i \in I
  OBVIOUS
<1> HIDE DEF I, L
<1>12. /\ m \in [1..n -> I]
       /\ \A k, l \in 1..n : k < l => m[k] < m[l]
       /\ \A j \in I : \E k \in 1..n : m[k] = j
  BY <1>8 DEF Enumerates
<1>13. \A i, j \in 1..L : list[i].id = list[j].id => i = j
  BY <1>1, <1>2 DEF Distinct
<1>14. Distinct(p)
  <2> SUFFICES ASSUME NEW k \in 1..n, NEW l \in 1..n, p[k].id = p[l].id  PROVE k = l
    BY <1>6 DEF Distinct
  <2>1. m[k] \in 1..L /\ m[l] \in 1..L /\ m[k] \in Nat
    BY <1>9, <1>12
  <2>2. list[m[k]].id = list[m[l]].id
    BY <1>8
  <2>3. m[k] = m[l]
    BY <1>13, <2>1, <2>2
  <2>4. ~(k < l) /\ ~(l < k)
    <3>1. ~(m[k] < m[l]) /\ ~(m[l] < m[k])
      BY <2>1, <2>3
    <3> QED  BY <1>12, <3>1
  <2> QED  BY <2>4
<1>15. ToSet(p) \subseteq ToSet(list)
  <2> SUFFICES ASSUME NEW f \in ToSet(p)  PROVE f \in ToSet(list)
    OBVIOUS
  <2>1. PICK k \in 1..n : p[k] = f
    BY <1>6
  <2>2. m[k] \in 1..L /\ f = list[m[k]]
    BY <1>8, <1>9, <1>12, <2>1
  <2> QED  BY <1>2, <2>2
<1>16. ASSUME NEW e \in ToSet(list), e.id = selected  PROVE e \in ToSet(p)
  <2>1. PICK i \in 1..L : list[i] = e
    BY <1>2
  <2>2. PICK k \in 1..n : m[k] = i
    BY <1>11, <1>12, <1>16, <2>1
  <2> QED  BY <1>6, <1>8, <2>1, <2>2
<1>17. IsFiniteSet(I) /\ Cardinality(I) = n
  BY <1>8, <1>9, Counted
<1>18. MaxTraces \in Nat
  BY TracesAssumption
<1>19. n <= MaxTraces + 1
  <2> SUFFICES ASSUME ~(n <= MaxTraces + 1)  PROVE FALSE
    OBVIOUS
  <2>1. n \in 1..n /\ n - 1 \in 1..n /\ n - 1 < n
    BY <1>6, <1>18
  <2> DEFINE Rest == {i \in I : list[i].id # selected}
  <2>2. \E i \in Rest : \A j \in Rest : j <= i
    <3>1. CASE list[m[n]].id # selected
      <4>1. m[n] \in Rest
        BY <1>12, <2>1, <3>1
      <4>2. ASSUME NEW j \in Rest  PROVE j <= m[n]
        <5>1. PICK k \in 1..n : m[k] = j
          BY <1>12
        <5>2. m[n] \in Nat /\ j \in Nat
          BY <1>9, <4>1
        <5>3. k = n \/ k < n
          BY <1>6
        <5> QED  BY <1>12, <2>1, <5>1, <5>2, <5>3
      <4> QED  BY <4>1, <4>2
    <3>2. CASE list[m[n]].id = selected
      <4>0. m[n] \in 1..L /\ m[n - 1] \in 1..L /\ m[n - 1] < m[n] /\ m[n - 1] \in I
        BY <1>9, <1>12, <2>1
      <4>1. m[n - 1] \in Rest
        <5>1. m[n - 1] # m[n]
          BY <1>2, <4>0
        <5> QED  BY <1>13, <3>2, <4>0, <5>1
      <4>2. ASSUME NEW j \in Rest  PROVE j <= m[n - 1]
        <5>1. PICK k \in 1..n : m[k] = j
          BY <1>12
        <5>2. m[n - 1] \in Nat /\ j \in Nat
          BY <1>9, <4>1
        <5>3. k # n
          BY <3>2, <5>1
        <5>4. k = n - 1 \/ k < n - 1
          BY <1>6, <5>3
        <5> QED  BY <1>12, <2>1, <5>1, <5>2, <5>4
      <4> QED  BY <4>1, <4>2
    <3> QED  BY <3>1, <3>2
  <2>3. PICK i \in Rest : \A j \in Rest : j <= i
    BY <2>2
  <2>4. Cardinality(Others(i)) <= MaxTraces /\ i \in 1..L
    BY <1>10
  <2>5. Rest \subseteq Others(i)
    <3>1. \A j \in Rest : j \in 1..L /\ list[j].id # selected
      BY <1>9
    <3>2. \A j \in Rest : j \in 1..i
      BY <1>2, <2>3, <2>4, <3>1
    <3> QED  BY <3>1, <3>2
  <2>6. Cardinality(Rest) \in Nat /\ Cardinality(Rest) >= n - 1
    <3>1. CASE Rest = I
      <4>1. Cardinality(Rest) = n
        BY <1>17, <3>1
      <4> QED  BY <1>6, <4>1
    <3>2. CASE Rest # I
      <4>1. PICK x \in I : list[x].id = selected
        BY <3>2
      <4>2. Rest = I \ {x}
        BY <1>9, <1>13, <4>1
      <4>3. Cardinality(I \ {x}) = n - 1
        BY <1>17, <4>1, FS_RemoveElement
      <4>4. Cardinality(Rest) = n - 1
        BY <4>2, <4>3
      <4>5. n - 1 \in Nat
        BY <2>1
      <4> HIDE DEF Rest
      <4> QED  BY <1>6, <4>4, <4>5
    <3> QED  BY <3>1, <3>2
  <2>7. IsFiniteSet(Others(i))
    <3>1. IsFiniteSet(1..i)
      BY <1>2, <2>4, FS_Interval
    <3>2. Others(i) \in SUBSET (1..i)
      OBVIOUS
    <3> QED  BY <3>1, <3>2, FS_Subset
  <2> HIDE DEF Rest, Others
  <2>8. Cardinality(Rest) <= Cardinality(Others(i)) /\ Cardinality(Others(i)) \in Nat
    BY <2>5, <2>7, FS_Subset, FS_CardinalityType
  <2> QED  BY <1>6, <1>18, <2>4, <2>6, <2>8
<1> QED  BY <1>3, <1>4, <1>14, <1>15, <1>16, <1>19 DEF n, Lists

-----------------------------------------------------------------------------
(* mergeTraces for one toplevel. *)

(* list has come of the list of tl, limited, by placing traces of more.    *)
MergedFrom(override, tl, more, list) ==
  /\ \A e \in Entries(tl) : e.id = tlTraceIDs[tl] => \E f \in ToSet(list) : f.id = e.id
  /\ ~override =>
       /\ ToSet(list) \subseteq Entries(tl) \cup ToSet(more)
       /\ \A e \in Entries(tl) : \A f \in ToSet(list) :
            f.id = e.id /\ IsOk(e.data) => IsOk(f.data)
  /\ override => \A f \in ToSet(list) :
       \/ f \in ToSet(more) \/ f = NoTrace(f.id)
       \/ f \in Entries(tl) /\ \A n \in ToSet(more) : n.id # f.id

LEMMA MergedKeeps ==
  ASSUME NEW override, NEW new, NEW tl \in Toplevels, NEW list,
         list = Merged(override, new)[tl],
         Shown(tl, traces[tl]), Shown(tl, new[tl])
  PROVE  Shown(tl, list) /\ MergedFrom(override, tl, new[tl], list)
<1> DEFINE A == Belongs(tl)
           D == DataOrNot
           old == traces[tl]
           more == new[tl]
<1>1. /\ old \in Lists(A, D) /\ more \in Lists(A, D) /\ more \in Seq([id : A, data : D])
      /\ NoneYet \in D
  BY DEF Shown, Lists, DataOrNot
<1>2. list = IF more = <<>> THEN old
             ELSE IF old = <<>> THEN more
             ELSE WithinLimit(Placed(override, more, old), tlTraceIDs[tl])
  BY DEF Merged
<1>3. Entries(tl) = ToSet(old)
  BY DEF Entries
<1>4. \A e, f \in ToSet(old) : e.id = f.id => e = f
  <2>1. old \in Seq([id : A, data : D]) /\ Distinct(old)
    BY <1>1 DEF Lists
  <2> QED  BY <2>1, ListMembers DEF Distinct
<1>5. ToSet(<<>>) = {}
  BY DEF ToSet
<1>6. CASE more = <<>>
  BY <1>2, <1>3, <1>4, <1>5, <1>6 DEF MergedFrom
<1>7. CASE more # <<>> /\ old = <<>>
  BY <1>2, <1>3, <1>5, <1>7 DEF MergedFrom
<1>8. CASE more # <<>> /\ old # <<>>
  <2> DEFINE p == Placed(override, more, old)
             selected == tlTraceIDs[tl]
  <2> HIDE DEF A, D, old, more
  <2>1. p \in Lists(A, D) /\ Follows(override, ToSet(more), old, p)
    BY <1>1, PlacedFollows
  <2>2. list = WithinLimit(p, selected)
    BY <1>2, <1>8
  <2> HIDE DEF p, selected
  <2>3. /\ list \in Lists(A, D) /\ Len(list) <= MaxTraces + 1
        /\ ToSet(list) \subseteq ToSet(p)
        /\ \A e \in ToSet(p) : e.id = selected => e \in ToSet(list)
    BY <2>1, <2>2, WithinLimitKeeps
  <2>4. MergedFrom(override, tl, more, list)
    <3>1. \A e \in Entries(tl) : e.id = selected => \E f \in ToSet(list) : f.id = e.id
      BY <1>3, <2>1, <2>3 DEF Follows
    <3> QED  BY <1>3, <2>1, <2>3, <3>1 DEF Follows, MergedFrom, selected
  <2> QED  BY <2>3, <2>4 DEF Shown, A, D, more
<1> QED  BY <1>6, <1>7, <1>8

-----------------------------------------------------------------------------
(* Which steps change what. *)

LEMMA ServerMoves ==
  ASSUME [Next]_vars
  PROVE  /\ UNCHANGED canvas
         /\ \/ UNCHANGED <<saved, stored, called>>
            \/ OpsSaved
            \/ \E t \in Traces : NewTrace(t)
            \/ \E r \in runs : RunFinishes(r)
<1>1. CASE UserStep
  BY <1>1 DEF UserStep, Still, serverVars, Select, Deselect, ChangePage, TraceClick,
       TraceMouseEnter, AddToplevel, RemoveToplevel, TriggerHandler
<1>2. CASE ServerStep
  BY <1>2 DEF ServerStep, Still, serverVars, traceVars, FetchAllTraces, GetTraceData, GetWorkerStats
<1>3. CASE FetcherStep
  BY <1>3 DEF FetcherStep, Still, traceVars, serverVars
<1>4. CASE PageStep
  BY <1>4 DEF PageStep, Still, traceVars, serverVars, NewTracePush, FetchAllTracesCallback,
       TriggerHandlerCallback, ReceiveTrace, ReceiveMissing, ReceiveFailure, ReceiveStats
<1>5. CASE WindowStep
  BY <1>5 DEF WindowStep, traceVars, serverVars, OnFocus, OnBlur, SwitchTab, VisibilityCheck, TimerFire
<1>6. CASE UNCHANGED vars
  BY <1>6 DEF vars, traceVars, serverVars
<1> QED  BY <1>1, <1>2, <1>3, <1>4, <1>5, <1>6 DEF Next

LEMMA MessagesMove ==
  ASSUME [Next]_vars
  PROVE  \/ UNCHANGED <<runs, allTraces, pushes>>
         \/ \E tl \in Toplevels : TriggerHandler(tl)
         \/ \E t \in Traces : NewTrace(t)
         \/ FetchAllTraces
         \/ \E r \in runs : RunFinishes(r)
         \/ \E p \in pushes : NewTracePush(p)
         \/ FetchAllTracesCallback
         \/ \E r \in runs : TriggerHandlerCallback(r)
<1>1. CASE UserStep
  BY <1>1 DEF UserStep, Still, messageVars, Select, Deselect, ChangePage, TraceClick,
       TraceMouseEnter, AddToplevel, RemoveToplevel
<1>2. CASE ServerStep
  BY <1>2 DEF ServerStep, Still, messageVars, traceVars, OpsSaved, GetTraceData, GetWorkerStats
<1>3. CASE FetcherStep
  BY <1>3 DEF FetcherStep, Still, traceVars, messageVars
<1>4. CASE PageStep
  BY <1>4 DEF PageStep, Still, traceVars, messageVars, ReceiveTrace, ReceiveMissing, ReceiveFailure,
       ReceiveStats
<1>5. CASE WindowStep
  BY <1>5 DEF WindowStep, traceVars, messageVars, OnFocus, OnBlur, SwitchTab, VisibilityCheck, TimerFire
<1>6. CASE UNCHANGED vars
  BY <1>6 DEF vars, traceVars, messageVars
<1> QED  BY <1>1, <1>2, <1>3, <1>4, <1>5, <1>6 DEF Next

LEMMA VersionsMove ==
  ASSUME [Next]_vars
  PROVE  \/ UNCHANGED <<gestures, runs, ver>>
         \/ Gesture /\ UNCHANGED <<runs, ver>>
         \/ \E tl \in Toplevels : TriggerHandler(tl)
         \/ \E r \in runs : RunFinishes(r)
         \/ \E r \in runs : TriggerHandlerCallback(r)
<1>1. CASE UserStep
  BY <1>1 DEF UserStep, Still, messageVars, serverVars, Select, Deselect, ChangePage, TraceClick,
       TraceMouseEnter, AddToplevel, RemoveToplevel
<1>2. CASE ServerStep
  BY <1>2 DEF ServerStep, Still, messageVars, serverVars, traceVars, OpsSaved, GetTraceData,
       GetWorkerStats, NewTrace, FetchAllTraces
<1>3. CASE FetcherStep
  BY <1>3 DEF FetcherStep, Still, traceVars, messageVars, serverVars
<1>4. CASE PageStep
  BY <1>4 DEF PageStep, Still, traceVars, messageVars, serverVars, NewTracePush,
       FetchAllTracesCallback, ReceiveTrace, ReceiveMissing, ReceiveFailure, ReceiveStats
<1>5. CASE WindowStep
  BY <1>5 DEF WindowStep, traceVars, messageVars, serverVars, OnFocus, OnBlur, SwitchTab,
       VisibilityCheck, TimerFire
<1>6. CASE UNCHANGED vars
  BY <1>6 DEF vars, traceVars, messageVars, serverVars
<1> QED  BY <1>1, <1>2, <1>3, <1>4, <1>5, <1>6 DEF Next

(* What mergeTraces is given, by whom.                                     *)
LEMMA TracesMove ==
  ASSUME [Next]_vars
  PROVE  \/ UNCHANGED traces
         \/ \E tl \in Toplevels : \E id \in Belongs(tl) :
              ChangePage(tl, id) /\ UpdateTraces(ForEach({tl}, NoTrace(id)))
         \/ \E p \in pushes : NewTracePush(p)
         \/ FetchAllTracesCallback
         \/ \E r \in runs : TriggerHandlerCallback(r)
         \/ \E a \in replies : ReceiveTrace(a)
<1>1. CASE UserStep
  BY <1>1 DEF UserStep, Still, viewVars, Select, Deselect, ChangePage, TraceClick,
       TraceMouseEnter, AddToplevel, RemoveToplevel, TriggerHandler
<1>2. CASE ServerStep
  BY <1>2 DEF ServerStep, Still, viewVars, traceVars, OpsSaved, GetTraceData, GetWorkerStats,
       NewTrace, FetchAllTraces, RunFinishes
<1>3. CASE FetcherStep
  BY <1>3 DEF FetcherStep, Still, traceVars, viewVars
<1>4. CASE PageStep
  BY <1>4 DEF PageStep, Still, traceVars, viewVars, ReceiveMissing, ReceiveFailure, ReceiveStats
<1>5. CASE WindowStep
  BY <1>5 DEF WindowStep, traceVars, viewVars, OnFocus, OnBlur, SwitchTab, VisibilityCheck, TimerFire
<1>6. CASE UNCHANGED vars
  BY <1>6 DEF vars, traceVars, viewVars
<1> QED  BY <1>1, <1>2, <1>3, <1>4, <1>5, <1>6 DEF Next

-----------------------------------------------------------------------------
(* What the server has. *)

LEMMA Owners ==
  /\ \A tl \in Toplevels : tl \in IDs /\ Owner(tl) = tl /\ tl \in Belongs(tl) /\ tl # None
  /\ \A id \in IDs : /\ Owner(id) \in Toplevels /\ id # None
                    /\ \A tl \in Touched(Owner(id)) \cap Toplevels : id \in Belongs(tl)
  /\ \A tl \in Toplevels : Touched(tl) \subseteq Toplevels /\ Belongs(tl) \subseteq IDs
  /\ \A tl \in Toplevels : \A id \in Belongs(tl) : tl \notin Functions => Owner(id) = tl
  BY TracesAssumption DEF IDs, Owner, Belongs, Touched, Functions

Without(s, e) == {i \in DOMAIN s : s[i] # e}

LEMMA InFront ==
  ASSUME NEW S, NEW s \in Seq(S), Different(s), NEW e \in S,
         NEW q, q = <<e>> \o Kept(s, Without(s, e))
  PROVE  q \in Seq(S) /\ Different(q)
<1> DEFINE I == Without(s, e)
           p == Kept(s, I)
           L == Len(p)
<1>1. DOMAIN s = 1..Len(s)
  BY LenProperties
<1>2. \A i, j \in 1..Len(s) : s[i] = s[j] => i = j
  BY <1>1 DEF Different
<1>3. q = <<e>> \o p /\ \A i \in I : s[i] # e
  BY DEF Without
<1> HIDE DEF I
<1>4. /\ p \in Seq(S) /\ L \in Nat
      /\ \A k \in 1..L : \E i \in 1..Len(s) : i \in I /\ p[k] = s[i]
  BY KeptMembers
<1>5. \A k, l \in 1..L : p[k] = p[l] => k = l
  BY <1>2, KeptDiffer
<1>6. \A k \in 1..L : p[k] # e
  BY <1>3, <1>4
<1>7. <<e>> \in Seq(S) /\ Len(<<e>>) = 1 /\ <<e>>[1] = e
  OBVIOUS
<1> HIDE DEF p
<1>8. /\ <<e>> \o p \in Seq(S) /\ Len(<<e>> \o p) = 1 + L
      /\ \A i \in 1..(1 + L) : (<<e>> \o p)[i] = IF i <= 1 THEN <<e>>[i] ELSE p[i - 1]
  BY <1>4, <1>7, ConcatProperties
<1>9. q \in Seq(S) /\ DOMAIN q = 1..(1 + L)
  BY <1>3, <1>8, LenProperties
<1> HIDE DEF L
<1>10. ASSUME NEW i \in 1..(1 + L)
       PROVE  (i = 1 /\ q[i] = e) \/ (i - 1 \in 1..L /\ q[i] = p[i - 1])
  <2>1. q[i] = IF i <= 1 THEN <<e>>[i] ELSE p[i - 1]
    BY <1>3, <1>8
  <2>2. i = 1 \/ (~(i <= 1) /\ i - 1 \in 1..L)
    BY <1>4
  <2>3. CASE i = 1
    BY <1>7, <2>1, <2>3
  <2> QED  BY <2>1, <2>2, <2>3
<1>11. ASSUME NEW i \in 1..(1 + L), NEW j \in 1..(1 + L), q[i] = q[j]  PROVE i = j
  <2>0. q[i] = e => i = 1
    BY <1>6, <1>10
  <2>1. CASE i = 1
    <3>1. q[i] = e
      BY <1>10, <2>1
    <3>2. q[j] = e
      BY <1>11, <3>1
    <3> QED  BY <1>6, <1>10, <2>1, <3>2
  <2>2. CASE j = 1
    <3>1. q[j] = e
      BY <1>10, <2>2
    <3> QED  BY <1>11, <2>0, <2>2, <3>1
  <2>3. CASE i # 1 /\ j # 1
    <3>1. i - 1 \in 1..L /\ j - 1 \in 1..L /\ p[i - 1] = p[j - 1]
      BY <1>10, <1>11, <2>3
    <3>2. i - 1 = j - 1
      BY <1>5, <3>1
    <3> QED  BY <3>2
  <2> QED  BY <2>1, <2>2, <2>3
<1> QED  BY <1>9, <1>11 DEF Different

LEMMA StoresArgumentsKeeps ==
  ASSUME ServerInv, NEW id \in IDs, StoresArguments(Owner(id), id)
  PROVE  \A tl \in Toplevels : called'[tl] \in Seq(Belongs(tl)) /\ Different(called'[tl])
<1> SUFFICES ASSUME NEW tl \in Toplevels
             PROVE  called'[tl] \in Seq(Belongs(tl)) /\ Different(called'[tl])
  OBVIOUS
<1>1. called[tl] \in Seq(Belongs(tl)) /\ Different(called[tl])
  BY DEF ServerInv
<1>2. CASE tl \in Touched(Owner(id)) \ {Owner(id)}
  <2>1. id \in Belongs(tl)
    BY <1>2, Owners
  <2>2. called'[tl] = <<id>> \o Kept(called[tl], {i \in DOMAIN called[tl] : called[tl][i] # id})
    BY <1>2 DEF StoresArguments
  <2> DEFINE S == Belongs(tl)
             q == called'[tl]
             old == called[tl]
  <2>3. /\ old \in Seq(S) /\ Different(old) /\ id \in S
        /\ q = <<id>> \o Kept(old, Without(old, id))
    BY <1>1, <2>1, <2>2 DEF Without
  <2> HIDE DEF S, q, old
  <2>4. q \in Seq(S) /\ Different(q)
    BY <2>3, InFront
  <2> QED  BY <2>4 DEF S, q
<1>3. CASE tl \notin Touched(Owner(id)) \ {Owner(id)}
  BY <1>1, <1>3 DEF StoresArguments
<1> QED  BY <1>2, <1>3

LEMMA StoredOneMore ==
  ASSUME ServerInv, NEW t \in Traces, t \notin ToSet(stored), stored' = <<t>> \o stored
  PROVE  stored' \in Seq(Traces) /\ Different(stored')
<1>1. stored \in Seq(Traces) /\ Different(stored)
  BY DEF ServerInv
<1>2. DOMAIN stored = 1..Len(stored) /\ \A i \in 1..Len(stored) : stored[i] # t
  BY <1>1, ListMembers
<1> DEFINE I == {i \in DOMAIN stored : stored[i] # t}
<1>3. Kept(stored, I) = stored
  <2> DEFINE m == [i \in 1..Len(stored) |-> i]
  <2>1. I \cap 1..Len(stored) = 1..Len(stored) /\ Len(stored) \in Nat
    BY <1>1, <1>2, LenProperties
  <2>2. Enumerates(m, Len(stored), 1..Len(stored))
    BY <2>1 DEF Enumerates
  <2>3. KeptBy(stored, m, stored, I)
    BY <2>1, <2>2 DEF KeptBy
  <2> HIDE DEF m, I
  <2> QED  BY <1>1, <2>3, KeptIsOnly
<1>4. stored' = <<t>> \o Kept(stored, I)
  BY <1>3
<1> DEFINE q == stored'
<1>5. q = <<t>> \o Kept(stored, Without(stored, t))
  BY <1>4 DEF Without
<1> HIDE DEF q, I
<1>6. q \in Seq(Traces) /\ Different(q)
  BY <1>1, <1>5, InFront
<1> QED  BY <1>6 DEF q

LEMMA StepServerInv ==
  ASSUME ServerInv, MessagesInv, ViewInv, [Next]_vars
  PROVE  ServerInv'
<1>0. UNCHANGED canvas
  BY ServerMoves
<1>1. CASE UNCHANGED <<saved, stored, called>>
  BY <1>0, <1>1 DEF ServerInv
<1>2. CASE OpsSaved
  BY <1>0, <1>2 DEF OpsSaved, ServerInv, ViewInv
<1>3. ASSUME NEW t \in Traces, NewTrace(t)  PROVE ServerInv'
  <2>1. t \in IDs /\ Owner(t) = Handles[t]
    BY DEF IDs, Owner
  <2>2. \A tl \in Toplevels : called'[tl] \in Seq(Belongs(tl)) /\ Different(called'[tl])
    BY <1>3, <2>1, StoresArgumentsKeeps DEF NewTrace
  <2>3. stored' \in Seq(Traces) /\ Different(stored')
    BY <1>3, StoredOneMore DEF NewTrace
  <2>4. saved' = saved
    BY <1>3 DEF NewTrace
  <2> QED  BY <1>0, <2>2, <2>3, <2>4 DEF ServerInv
<1>4. ASSUME NEW r \in runs, RunFinishes(r)  PROVE ServerInv'
  <2>1. r.id \in IDs /\ r.tlid = Owner(r.id)
    BY DEF MessagesInv
  <2>2. \A tl \in Toplevels : called'[tl] \in Seq(Belongs(tl)) /\ Different(called'[tl])
    BY <1>4, <2>1, StoresArgumentsKeeps DEF RunFinishes
  <2>3. UNCHANGED <<saved, stored>>
    BY <1>4 DEF RunFinishes
  <2> QED  BY <1>0, <2>2, <2>3 DEF ServerInv
<1> QED  BY <1>1, <1>2, <1>3, <1>4, ServerMoves

-----------------------------------------------------------------------------
(* What is on its way. *)

LEMMA NewestKeeps ==
  ASSUME NEW S, NEW ids \in Seq(S), Different(ids)
  PROVE  Newest(ids) \in Seq(S) /\ Different(Newest(ids)) /\ Len(Newest(ids)) <= MaxTraces
<1> DEFINE n == IF Len(ids) < MaxTraces THEN Len(ids) ELSE MaxTraces
<1>1. MaxTraces \in Nat
  BY TracesAssumption
<1>2. Len(ids) \in Nat /\ DOMAIN ids = 1..Len(ids) /\ \A i \in 1..Len(ids) : ids[i] \in S
  BY ListMembers
<1>3. n \in Nat /\ n <= MaxTraces /\ \A i \in 1..n : i \in 1..Len(ids)
  BY <1>1, <1>2
<1>4. Newest(ids) = SubSeq(ids, 1, n)
  BY DEF Newest
<1> HIDE DEF n
<1> DEFINE q == SubSeq(ids, 1, n)
<1>5. q \in Seq(S) /\ Len(q) = n /\ \A i \in 1..n : q[i] = ids[i]
  BY <1>2, <1>3, SubSeqProperties
<1> HIDE DEF q
<1>6. DOMAIN q = 1..n
  BY <1>5, LenProperties
<1>7. Different(q)
  BY <1>2, <1>3, <1>5, <1>6 DEF Different
<1> QED  BY <1>3, <1>4, <1>5, <1>7 DEF q

LEMMA ListOfKeeps ==
  ASSUME ServerInv, NEW tl \in Toplevels
  PROVE  /\ ListOf(tl) \in Seq(Belongs(tl)) /\ Different(ListOf(tl))
         /\ Len(ListOf(tl)) <= MaxTraces
<1> DEFINE I == {i \in DOMAIN stored : Handles[stored[i]] = tl}
           kept == Kept(stored, I)
           ids == IF tl \in Functions THEN called[tl] ELSE kept
<1>1. MaxTraces \in Nat \ {0}
  BY TracesAssumption
<1>2. kept \in Seq(Belongs(tl)) /\ Different(kept)
  <2>1. /\ stored \in Seq(Traces) /\ DOMAIN stored = 1..Len(stored)
        /\ \A i, j \in 1..Len(stored) : stored[i] = stored[j] => i = j
    BY LenProperties DEF ServerInv, Different
  <2>2. \A i \in I : Handles[stored[i]] = tl
    OBVIOUS
  <2> HIDE DEF I
  <2>3. /\ kept \in Seq(Traces) /\ Len(kept) \in Nat
        /\ \A k \in 1..Len(kept) : \E i \in 1..Len(stored) : i \in I /\ kept[k] = stored[i]
    BY <2>1, KeptMembers
  <2>4. \A k, l \in 1..Len(kept) : kept[k] = kept[l] => k = l
    BY <2>1, KeptDiffer
  <2> HIDE DEF kept
  <2>5. \A k \in 1..Len(kept) : kept[k] \in Traces /\ Handles[kept[k]] = tl
    BY <2>2, <2>3, ElementOfSeq
  <2>6. \A k \in 1..Len(kept) : kept[k] \in Belongs(tl)
    BY <2>5 DEF Belongs, Owner, IDs
  <2>7. DOMAIN kept = 1..Len(kept) /\ kept = [k \in 1..Len(kept) |-> kept[k]]
    BY <2>3, LenProperties
  <2>8. kept \in Seq(Belongs(tl))
    BY <2>3, <2>6, <2>7, Replaced
  <2> QED  BY <2>4, <2>7, <2>8 DEF Different
<1>3. ids \in Seq(Belongs(tl)) /\ Different(ids)
  BY <1>2 DEF ServerInv
<1>4. ListOf(tl) = IF tl \notin saved THEN <<>>
                   ELSE IF ids = <<>> /\ tl \notin Functions THEN <<tl>>
                   ELSE Newest(ids)
  BY DEF ListOf
<1> HIDE DEF ids
<1>5. CASE ListOf(tl) = <<>>
  BY <1>1, <1>5, EmptySeq DEF Different
<1>6. CASE ListOf(tl) = <<tl>>
  <2>1. <<tl>> \in Seq(Belongs(tl)) /\ Len(<<tl>>) = 1 /\ DOMAIN <<tl>> = {1}
    BY Owners
  <2> QED  BY <1>1, <1>6, <2>1 DEF Different
<1>7. CASE ListOf(tl) = Newest(ids)
  BY <1>3, <1>7, NewestKeeps
<1> QED  BY <1>4, <1>5, <1>6, <1>7

LEMMA SelectedBelongs ==
  ASSUME ViewInv, NEW tl \in Toplevels
  PROVE  SelectedTraceID(tl) \in Belongs(tl)
<1>1. CASE tlTraceIDs[tl] # None
  BY <1>1 DEF ViewInv, SelectedTraceID
<1>2. CASE tlTraceIDs[tl] = None /\ traces[tl] = <<>>
  <2>1. GetTraces(tl) = <<NoTrace(tl)>>
    BY <1>2 DEF GetTraces
  <2> QED  BY <1>2, <2>1, Owners DEF SelectedTraceID, NoTrace
<1>3. CASE tlTraceIDs[tl] = None /\ traces[tl] # <<>>
  <2>1. traces[tl] \in Seq([id : Belongs(tl), data : DataOrNot])
    BY DEF ViewInv, Shown, Lists
  <2>2. Head(traces[tl]) \in [id : Belongs(tl), data : DataOrNot]
    BY <1>3, <2>1, HeadTailProperties
  <2> QED  BY <1>3, <2>2 DEF SelectedTraceID, GetTraces
<1> QED  BY <1>1, <1>2, <1>3

Runs == [n : Nat, tlid : Toplevels, id : IDs, done : BOOLEAN, touched : SUBSET Toplevels]

RunOK(r) ==
  /\ r \in Runs
  /\ r.tlid = Owner(r.id)
  /\ \A tl \in r.touched : r.id \in Belongs(tl)

LEMMA TriggeredOK ==
  ASSUME ViewInv, NEW tl \in Toplevels, tl \notin Functions, NEW n \in Nat
  PROVE  RunOK([n |-> n, tlid |-> tl, id |-> SelectedTraceID(tl), done |-> FALSE, touched |-> {}])
<1>1. SelectedTraceID(tl) \in Belongs(tl)
  BY SelectedBelongs
<1>2. SelectedTraceID(tl) \in IDs /\ Owner(SelectedTraceID(tl)) = tl
  BY <1>1, Owners
<1> QED  BY <1>2 DEF RunOK, Runs

LEMMA FinishedOK ==
  ASSUME NEW r, RunOK(r)
  PROVE  RunOK([r EXCEPT !.done = TRUE, !.touched = Touched(r.tlid)])
  BY Owners DEF RunOK, Runs

LEMMA StepMessagesInv ==
  ASSUME ServerInv, MessagesInv, VersionsInv, ViewInv, [Next]_vars
  PROVE  MessagesInv'
<1> DEFINE Asked(ids) == \A tl \in Toplevels :
                           /\ ids[tl] \in Seq(Belongs(tl)) /\ Different(ids[tl])
                           /\ Len(ids[tl]) <= MaxTraces
           PushOK(p) == p.id \in IDs /\ \A tl \in p.tlids : tl \in Toplevels /\ p.id \in Belongs(tl)
<1>0. Asked(allTraces.ids) /\ (\A p \in pushes : PushOK(p)) /\ (\A r \in runs : RunOK(r))
  BY DEF MessagesInv, RunOK, Runs
<1>1. SUFFICES Asked(allTraces'.ids) /\ (\A p \in pushes' : PushOK(p)) /\ (\A r \in runs' : RunOK(r))
  BY DEF MessagesInv, RunOK, Runs
<1> HIDE DEF Asked, PushOK
<1>2. CASE UNCHANGED <<runs, allTraces, pushes>>
  BY <1>0, <1>2
<1>3. ASSUME NEW tl \in Toplevels, TriggerHandler(tl)
      PROVE  Asked(allTraces'.ids) /\ (\A p \in pushes' : PushOK(p)) /\ (\A r \in runs' : RunOK(r))
  <2>1. gestures' \in Nat
    BY <1>3 DEF TriggerHandler, Gesture, VersionsInv
  <2>2. tl \notin Functions
    BY <1>3 DEF TriggerHandler
  <2>3. RunOK([n |-> gestures', tlid |-> tl, id |-> SelectedTraceID(tl), done |-> FALSE, touched |-> {}])
    BY <2>1, <2>2, TriggeredOK
  <2> QED  BY <1>0, <1>3, <2>3 DEF TriggerHandler
<1>4. ASSUME NEW t \in Traces, NewTrace(t)
      PROVE  Asked(allTraces'.ids) /\ (\A p \in pushes' : PushOK(p)) /\ (\A r \in runs' : RunOK(r))
  <2>1. t \in IDs /\ Owner(t) = Handles[t]
    BY DEF IDs, Owner
  <2>2. PushOK([id |-> t, tlids |-> Touched(Handles[t])])
    BY <2>1, Owners DEF PushOK
  <2> QED  BY <1>0, <1>4, <2>2 DEF NewTrace
<1>5. CASE FetchAllTraces
  <2>1. Asked([tl \in Toplevels |-> ListOf(tl)])
    BY ListOfKeeps DEF Asked
  <2> QED  BY <1>0, <1>5, <2>1 DEF FetchAllTraces
<1>6. ASSUME NEW r \in runs, RunFinishes(r)
      PROVE  Asked(allTraces'.ids) /\ (\A p \in pushes' : PushOK(p)) /\ (\A q \in runs' : RunOK(q))
  <2>1. RunOK([r EXCEPT !.done = TRUE, !.touched = Touched(r.tlid)])
    BY <1>0, FinishedOK
  <2> QED  BY <1>0, <1>6, <2>1 DEF RunFinishes
<1>7. ASSUME NEW p \in pushes, NewTracePush(p)
      PROVE  Asked(allTraces'.ids) /\ (\A q \in pushes' : PushOK(q)) /\ (\A r \in runs' : RunOK(r))
  BY <1>0, <1>7 DEF NewTracePush
<1>8. CASE FetchAllTracesCallback
  <2>1. allTraces'.ids = allTraces.ids
    BY <1>8 DEF FetchAllTracesCallback
  <2> QED  BY <1>0, <1>8, <2>1 DEF FetchAllTracesCallback
<1>9. ASSUME NEW r \in runs, TriggerHandlerCallback(r)
      PROVE  Asked(allTraces'.ids) /\ (\A p \in pushes' : PushOK(p)) /\ (\A q \in runs' : RunOK(q))
  BY <1>0, <1>9 DEF TriggerHandlerCallback
<1> QED  BY <1>2, <1>3, <1>4, <1>5, <1>6, <1>7, <1>8, <1>9, MessagesMove

-----------------------------------------------------------------------------
(* Versions: what is pending can only become one more. *)

LEMMA StepVersionsInv ==
  ASSUME MessagesInv, VersionsInv, [Next]_vars
  PROVE  VersionsInv'
<1> DEFINE c == Cardinality(Pending)
<1>1. MaxGestures \in Nat /\ gestures \in Nat /\ gestures <= MaxGestures /\ IsFiniteSet(runs)
  BY TracesAssumption DEF VersionsInv
<1>2. \A tl \in Toplevels : ver[tl] \in [Belongs(tl) -> Nat]
  BY DEF VersionsInv
<1>3. \A tl \in Toplevels : \A id \in Belongs(tl) :
        ver[tl][id] \in Nat \ {0} /\ ver[tl][id] + c <= 1 + gestures
  BY DEF VersionsInv
<1>4. IsFiniteSet(Pending) /\ c \in Nat
  <2>1. Pending \in SUBSET runs
    BY DEF Pending
  <2> QED  BY <1>1, <2>1, FS_Subset, FS_CardinalityType
<1> HIDE DEF c
<1>5. CASE UNCHANGED <<gestures, runs, ver>>
  BY <1>5 DEF VersionsInv, Pending
<1>6. CASE Gesture /\ UNCHANGED <<runs, ver>>
  <2>1. gestures' \in Nat /\ gestures' <= MaxGestures /\ gestures' = gestures + 1
    BY <1>1, <1>6 DEF Gesture
  <2>2. Pending' = Pending
    BY <1>6 DEF Pending
  <2>3. \A tl \in Toplevels : \A id \in Belongs(tl) :
          ver'[tl][id] \in Nat \ {0} /\ ver'[tl][id] + c <= 1 + gestures'
    BY <1>1, <1>3, <1>4, <1>6, <2>1
  <2> QED  BY <1>1, <1>2, <1>6, <2>1, <2>2, <2>3 DEF VersionsInv, c
<1>7. ASSUME NEW tl \in Toplevels, TriggerHandler(tl)  PROVE VersionsInv'
  <2> DEFINE r == [n |-> gestures', tlid |-> tl, id |-> SelectedTraceID(tl), done |-> FALSE, touched |-> {}]
  <2>1. gestures' \in Nat /\ gestures' <= MaxGestures /\ gestures' = gestures + 1
    BY <1>1, <1>7 DEF TriggerHandler, Gesture
  <2>2. runs' = runs \cup {r} /\ UNCHANGED ver /\ ~r.done
    BY <1>7 DEF TriggerHandler, serverVars
  <2> HIDE DEF r
  <2>3. Pending' = Pending \cup {r}
    BY <2>2 DEF Pending
  <2>4. Cardinality(Pending \cup {r}) <= c + 1 /\ Cardinality(Pending \cup {r}) \in Nat
    <3>1. Cardinality(Pending \cup {r}) = IF r \in Pending THEN Cardinality(Pending) ELSE Cardinality(Pending) + 1
      BY <1>4, FS_AddElement
    <3>2. Cardinality(Pending \cup {r}) = IF r \in Pending THEN c ELSE c + 1
      BY <3>1 DEF c
    <3> QED  BY <1>4, <3>2
  <2>5. IsFiniteSet(runs')
    BY <1>1, <2>2, FS_AddElement
  <2>6. \A t \in Toplevels : \A id \in Belongs(t) :
          ver'[t][id] \in Nat \ {0} /\ ver'[t][id] + Cardinality(Pending \cup {r}) <= 1 + gestures'
    BY <1>1, <1>3, <1>4, <2>1, <2>2, <2>4
  <2> QED  BY <1>2, <2>1, <2>2, <2>3, <2>5, <2>6 DEF VersionsInv
<1>8. ASSUME NEW r \in runs, RunFinishes(r)  PROVE VersionsInv'
  <2> DEFINE q == [r EXCEPT !.done = TRUE, !.touched = Touched(r.tlid)]
  <2>0. r \in Runs
    BY DEF MessagesInv, Runs
  <2>1. /\ runs' = (runs \ {r}) \cup {q} /\ UNCHANGED gestures /\ ~r.done /\ q.done
        /\ ver' = [tl \in Toplevels |->
             IF tl \in Touched(r.tlid) THEN [ver[tl] EXCEPT ![r.id] = @ + 1] ELSE ver[tl]]
    BY <1>8, <2>0 DEF RunFinishes, Runs
  <2> HIDE DEF q
  <2>2. Pending' = Pending \ {r} /\ r \in Pending
    BY <2>1 DEF Pending
  <2>3. Cardinality(Pending \ {r}) = c - 1
    BY <1>4, <2>2, FS_RemoveElement DEF c
  <2>4. IsFiniteSet(runs')
    BY <1>1, <2>1, FS_AddElement, FS_RemoveElement
  <2>5. ASSUME NEW tl \in Toplevels
        PROVE  /\ ver'[tl] \in [Belongs(tl) -> Nat]
               /\ \A id \in Belongs(tl) : ver'[tl][id] \in {ver[tl][id], ver[tl][id] + 1}
    <3>1. CASE tl \in Touched(r.tlid)
      <4>1. ver'[tl] = [ver[tl] EXCEPT ![r.id] = @ + 1]
        BY <2>1, <3>1
      <4>2. ver[tl] \in [Belongs(tl) -> Nat]
        BY <1>2
      <4>3. ASSUME NEW id \in Belongs(tl)
            PROVE  ver'[tl][id] \in {ver[tl][id], ver[tl][id] + 1} /\ ver'[tl][id] \in Nat
        <5>1. ver[tl][id] \in Nat
          BY <4>2
        <5>2. CASE id = r.id
          <6>1. ver'[tl][id] = ver[tl][id] + 1
            BY <4>1, <4>2, <5>2
          <6> QED  BY <5>1, <6>1
        <5>3. CASE id # r.id
          <6>1. ver'[tl][id] = ver[tl][id]
            BY <4>1, <4>2, <5>3
          <6> QED  BY <5>1, <6>1
        <5> QED  BY <5>2, <5>3
      <4>4. ver'[tl] = [id \in Belongs(tl) |-> ver'[tl][id]]
        BY <4>1, <4>2
      <4> QED  BY <4>3, <4>4
    <3>2. CASE tl \notin Touched(r.tlid)
      BY <1>2, <2>1, <3>2
    <3> QED  BY <3>1, <3>2
  <2>6. \A tl \in Toplevels : \A id \in Belongs(tl) :
          ver'[tl][id] \in Nat \ {0} /\ ver'[tl][id] + (c - 1) <= 1 + gestures'
    <3> TAKE tl \in Toplevels
    <3> TAKE id \in Belongs(tl)
    <3>1. ver[tl][id] \in Nat \ {0} /\ ver[tl][id] + c <= 1 + gestures
      BY <1>3
    <3>2. ver'[tl][id] \in {ver[tl][id], ver[tl][id] + 1} /\ gestures' = gestures
      BY <2>1, <2>5
    <3> QED  BY <1>1, <1>4, <3>1, <3>2
  <2> QED  BY <1>1, <2>1, <2>2, <2>3, <2>4, <2>5, <2>6 DEF VersionsInv
<1>9. ASSUME NEW r \in runs, TriggerHandlerCallback(r)  PROVE VersionsInv'
  <2>1. runs' = runs \ {r} /\ UNCHANGED <<gestures, ver>> /\ r.done
    BY <1>9 DEF TriggerHandlerCallback, serverVars
  <2>2. Pending' = Pending
    BY <2>1 DEF Pending
  <2>3. IsFiniteSet(runs')
    BY <1>1, <2>1, FS_RemoveElement
  <2> QED  BY <1>1, <1>2, <1>3, <2>1, <2>2, <2>3 DEF VersionsInv, c
<1> QED  BY <1>5, <1>6, <1>7, <1>8, <1>9, VersionsMove

-----------------------------------------------------------------------------
(* What the page shows. *)

Given(new) == \A tl \in Toplevels : Shown(tl, new[tl])

WithoutData(new) ==
  \A tl \in Toplevels : \A e \in ToSet(new[tl]) : e = NoTrace(e.id)

LEMMA EachGiven ==
  ASSUME NEW tls, NEW e, e.data \in DataOrNot, e = [id |-> e.id, data |-> e.data],
         \A tl \in tls \cap Toplevels : e.id \in Belongs(tl),
         NEW new, new = ForEach(tls, e)
  PROVE  /\ Given(new)
         /\ \A tl \in Toplevels : ToSet(new[tl]) = IF tl \in tls THEN {e} ELSE {}
<1>1. MaxTraces \in Nat \ {0}
  BY TracesAssumption
<1>2. ASSUME NEW tl \in Toplevels
      PROVE  Shown(tl, new[tl]) /\ ToSet(new[tl]) = IF tl \in tls THEN {e} ELSE {}
  <2>1. CASE tl \in tls
    <3>1. new[tl] = <<e>>
      BY <2>1 DEF ForEach
    <3>2. e \in [id : Belongs(tl), data : DataOrNot]
      BY <2>1
    <3>3. /\ <<e>> \in Seq([id : Belongs(tl), data : DataOrNot])
          /\ Len(<<e>>) = 1 /\ DOMAIN <<e>> = {1} /\ <<e>>[1] = e
      BY <3>2
    <3> QED  BY <1>1, <2>1, <3>1, <3>3 DEF Shown, Lists, Distinct, ToSet
  <2>2. CASE tl \notin tls
    <3>1. new[tl] = <<>>
      BY <2>2 DEF ForEach
    <3>2. <<>> \in Seq([id : Belongs(tl), data : DataOrNot]) /\ Len(<<>>) = 0 /\ DOMAIN <<>> = {}
      OBVIOUS
    <3> QED  BY <1>1, <2>2, <3>1, <3>2 DEF Shown, Lists, Distinct, ToSet
  <2> QED  BY <2>1, <2>2
<1> QED  BY <1>2 DEF Given

LEMMA AllGiven ==
  ASSUME MessagesInv, NEW new,
         new = [tl \in Toplevels |->
                 [i \in DOMAIN allTraces.ids[tl] |-> NoTrace(allTraces.ids[tl][i])]]
  PROVE  Given(new) /\ WithoutData(new)
<1>1. MaxTraces \in Nat \ {0}
  BY TracesAssumption
<1>2. ASSUME NEW tl \in Toplevels
      PROVE  Shown(tl, new[tl]) /\ \A e \in ToSet(new[tl]) : e = NoTrace(e.id)
  <2> DEFINE ids == allTraces.ids[tl]
             q == new[tl]
             E == [id : Belongs(tl), data : DataOrNot]
             n == Len(ids)
  <2>1. ids \in Seq(Belongs(tl)) /\ Different(ids) /\ n <= MaxTraces
    BY DEF MessagesInv
  <2>2. q = [i \in DOMAIN ids |-> NoTrace(ids[i])]
    OBVIOUS
  <2> HIDE DEF ids, q
  <2>3. n \in Nat /\ DOMAIN ids = 1..n /\ \A i \in 1..n : ids[i] \in Belongs(tl)
    BY <2>1, ListMembers
  <2>4. \A i \in 1..n : q[i] = NoTrace(ids[i]) /\ q[i] \in E
    BY <2>2, <2>3 DEF NoTrace, DataOrNot
  <2>5. q = [i \in 1..n |-> q[i]]
    BY <2>2, <2>3
  <2> HIDE DEF n, E
  <2>6. q \in Seq(E) /\ Len(q) = n /\ DOMAIN q = 1..n
    BY <2>3, <2>4, <2>5, Replaced
  <2>7. Distinct(q)
    BY <2>1, <2>3, <2>4, <2>6 DEF Distinct, Different, NoTrace
  <2>8. \A e \in ToSet(q) : e = NoTrace(e.id)
    BY <2>4, <2>6 DEF ToSet, NoTrace
  <2> QED  BY <1>1, <2>1, <2>3, <2>6, <2>7, <2>8 DEF q, n, E, Shown, Lists
<1> QED  BY <1>2 DEF Given, WithoutData

(* What can be asked of one toplevel.                                      *)
RequestsOf(tl) == {[tlid |-> tl, key |-> TraceKey(id)] : id \in Belongs(tl)}

LEMMA RequestsSplit ==
  /\ \A r \in Requests : \/ \E tl \in Toplevels : r \in RequestsOf(tl)
                         \/ \E w \in Workers : r = [tlid |-> w, key |-> StatsKey(w)]
  /\ \A tl \in Toplevels : RequestsOf(tl) \subseteq Requests
  /\ \A w \in Workers : [tlid |-> w, key |-> StatsKey(w)] \in Requests
<1> DEFINE All == {RequestsOf(tl) : tl \in Toplevels}
           Stats == {[tlid |-> w, key |-> StatsKey(w)] : w \in Workers}
<1>1. Requests = (UNION All) \cup Stats
  BY DEF Requests, RequestsOf
<1>2. \A S \in All : \E tl \in Toplevels : S = RequestsOf(tl)
  OBVIOUS
<1>3. \A tl \in Toplevels : RequestsOf(tl) \in All
  OBVIOUS
<1>4. \A r \in Stats : \E w \in Workers : r = [tlid |-> w, key |-> StatsKey(w)]
  OBVIOUS
<1>5. \A w \in Workers : [tlid |-> w, key |-> StatsKey(w)] \in Stats
  OBVIOUS
<1> HIDE DEF All, Stats
<1>6. \A r \in Requests : (\E S \in All : r \in S) \/ r \in Stats
  BY <1>1
<1>7. (\A S \in All : S \subseteq Requests) /\ Stats \subseteq Requests
  BY <1>1
<1> QED  BY <1>2, <1>3, <1>4, <1>5, <1>6, <1>7, Zenon

LEMMA TraceRequested ==
  ASSUME NEW r \in Requests, r.key.kind = "trace"
  PROVE  r.tlid \in Toplevels /\ r.key.id \in Belongs(r.tlid) /\ r.key = TraceKey(r.key.id)
<1>1. CASE \E tl \in Toplevels : r \in RequestsOf(tl)
  <2>1. PICK tl \in Toplevels : r \in RequestsOf(tl)
    BY <1>1
  <2>2. PICK id \in Belongs(tl) : r = [tlid |-> tl, key |-> TraceKey(id)]
    BY <2>1 DEF RequestsOf
  <2>3. r.tlid = tl /\ r.key = TraceKey(id) /\ r.key.id = id
    BY <2>2 DEF TraceKey
  <2> QED  BY <2>3
<1>2. CASE \E w \in Workers : r = [tlid |-> w, key |-> StatsKey(w)]
  BY <1>2 DEF StatsKey
<1> QED  BY <1>1, <1>2, RequestsSplit, Zenon

(* The answer to a run blows away what it touched.                         *)
OverriddenBy(r, new) ==
  /\ Given(new) /\ traces' = Merged(TRUE, new)
  /\ \A tl \in Toplevels :
       ToSet(new[tl]) = IF tl \in r.touched THEN {NoTrace(r.id)} ELSE {}

LEMMA RunOverrides ==
  ASSUME PageInv, NEW r \in runs, TriggerHandlerCallback(r)
  PROVE  \E new : OverriddenBy(r, new)
<1> DEFINE e == NoTrace(r.id)
           new == ForEach(r.touched, e)
<1>1. e.data \in DataOrNot /\ e = [id |-> e.id, data |-> e.data] /\ e.id = r.id
  BY DEF NoTrace, DataOrNot
<1> HIDE DEF e
<1>2. \A tl \in r.touched \cap Toplevels : e.id \in Belongs(tl)
  BY <1>1 DEF PageInv, MessagesInv
<1>3. /\ Given(new)
      /\ \A t \in Toplevels : ToSet(new[t]) = IF t \in r.touched THEN {e} ELSE {}
  BY <1>1, <1>2, EachGiven
<1>4. traces' = Merged(TRUE, new)
  BY DEF TriggerHandlerCallback, OverrideTraces, e
<1> HIDE DEF new
<1> QED  BY <1>3, <1>4 DEF e, OverriddenBy

(* Every change of the lists is a merge of what fits, and is one of three. *)
LEMMA TracesChange ==
  ASSUME PageInv, [Next]_vars
  PROVE  \/ UNCHANGED traces
         \/ \E new : Given(new) /\ WithoutData(new) /\ traces' = Merged(FALSE, new)
         \/ \E a \in replies : \E new :
              /\ a.request.key.kind = "trace"
              /\ Given(new) /\ traces' = Merged(FALSE, new)
              /\ \A tl \in Toplevels :
                   ToSet(new[tl]) = IF tl \in {a.request.tlid}
                                      THEN {[id |-> a.request.key.id, data |-> a.result]} ELSE {}
         \/ \E r \in runs : TriggerHandlerCallback(r) /\ \E new : OverriddenBy(r, new)
<1>1. CASE UNCHANGED traces
  BY <1>1
<1>2. ASSUME NEW tl \in Toplevels, NEW id \in Belongs(tl),
             UpdateTraces(ForEach({tl}, NoTrace(id)))
      PROVE  \E new : Given(new) /\ WithoutData(new) /\ traces' = Merged(FALSE, new)
  <2> DEFINE e == NoTrace(id)
             new == ForEach({tl}, e)
  <2>1. e.data \in DataOrNot /\ e = [id |-> e.id, data |-> e.data] /\ e.id = id /\ e = NoTrace(e.id)
    BY DEF NoTrace, DataOrNot
  <2> HIDE DEF e
  <2>2. /\ Given(new)
        /\ \A t \in Toplevels : ToSet(new[t]) = IF t \in {tl} THEN {e} ELSE {}
    BY <2>1, EachGiven
  <2>3. traces' = Merged(FALSE, new)
    BY <1>2 DEF UpdateTraces, e
  <2> HIDE DEF new
  <2>4. WithoutData(new)
    BY <2>1, <2>2 DEF WithoutData
  <2> QED  BY <2>2, <2>3, <2>4
<1>3. ASSUME NEW p \in pushes, NewTracePush(p)
      PROVE  \E new : Given(new) /\ WithoutData(new) /\ traces' = Merged(FALSE, new)
  <2> DEFINE e == NoTrace(p.id)
             new == ForEach(p.tlids, e)
  <2>1. e.data \in DataOrNot /\ e = [id |-> e.id, data |-> e.data] /\ e.id = p.id /\ e = NoTrace(e.id)
    BY DEF NoTrace, DataOrNot
  <2> HIDE DEF e
  <2>2. \A tl \in p.tlids \cap Toplevels : e.id \in Belongs(tl)
    BY <2>1 DEF PageInv, MessagesInv
  <2>3. /\ Given(new)
        /\ \A t \in Toplevels : ToSet(new[t]) = IF t \in p.tlids THEN {e} ELSE {}
    BY <2>1, <2>2, EachGiven
  <2>4. traces' = Merged(FALSE, new)
    BY <1>3 DEF NewTracePush, UpdateTraces, e
  <2> HIDE DEF new
  <2>5. WithoutData(new)
    BY <2>1, <2>3 DEF WithoutData
  <2> QED  BY <2>3, <2>4, <2>5
<1>4. ASSUME FetchAllTracesCallback
      PROVE  \E new : Given(new) /\ WithoutData(new) /\ traces' = Merged(FALSE, new)
  <2> DEFINE new == [tl \in Toplevels |->
                      [i \in DOMAIN allTraces.ids[tl] |-> NoTrace(allTraces.ids[tl][i])]]
  <2>1. Given(new) /\ WithoutData(new)
    BY AllGiven DEF PageInv
  <2>2. traces' = Merged(FALSE, new)
    BY <1>4 DEF FetchAllTracesCallback, UpdateTraces
  <2> QED  BY <2>1, <2>2
<1>5. ASSUME NEW a \in replies, ReceiveTrace(a)
      PROVE  \E new :
               /\ a.request.key.kind = "trace"
               /\ Given(new) /\ traces' = Merged(FALSE, new)
               /\ \A tl \in Toplevels :
                    ToSet(new[tl]) = IF tl \in {a.request.tlid}
                                       THEN {[id |-> a.request.key.id, data |-> a.result]} ELSE {}
  <2> DEFINE e == [id |-> a.request.key.id, data |-> a.result]
             new == ForEach({a.request.tlid}, e)
  <2>1. a.request \in Requests /\ a.result \in Results
    BY DEF PageInv, FetchInv
  <2>2. a.request.key.kind = "trace" /\ (IsOk(a.result) \/ a.result = TooLarge)
    BY <1>5 DEF ReceiveTrace
  <2>3. a.request.key.id \in Belongs(a.request.tlid)
    BY <2>1, <2>2, TraceRequested
  <2>4. a.result \in DataOrNot
    BY <2>1, <2>2 DEF Results, DataOrNot, IsOk, TooLarge, Missing, Failure
  <2>5. e.data \in DataOrNot /\ e = [id |-> e.id, data |-> e.data]
        /\ \A tl \in {a.request.tlid} \cap Toplevels : e.id \in Belongs(tl)
    BY <2>3, <2>4
  <2>6. traces' = Merged(FALSE, new)
    BY <1>5 DEF ReceiveTrace, UpdateTraces
  <2> HIDE DEF e
  <2>7. /\ Given(new)
        /\ \A t \in Toplevels : ToSet(new[t]) = IF t \in {a.request.tlid} THEN {e} ELSE {}
    BY <2>5, EachGiven
  <2> HIDE DEF new
  <2> QED  BY <2>2, <2>6, <2>7 DEF e
<1>6. ASSUME NEW r \in runs, TriggerHandlerCallback(r)
      PROVE  \E new : OverriddenBy(r, new)
  BY <1>6, RunOverrides
<1> QED  BY <1>1, <1>2, <1>3, <1>4, <1>5, <1>6, TracesMove

LEMMA TracesStayShown ==
  ASSUME PageInv, [Next]_vars
  PROVE  \A tl \in Toplevels : Shown(tl, traces'[tl])
<1>1. \A tl \in Toplevels : Shown(tl, traces[tl])
  BY DEF PageInv, ViewInv
<1>2. ASSUME NEW override, NEW new, Given(new), traces' = Merged(override, new), NEW tl \in Toplevels
      PROVE  Shown(tl, traces'[tl])
  <2>1. Shown(tl, traces[tl]) /\ Shown(tl, new[tl])
    BY <1>1, <1>2 DEF Given
  <2> DEFINE list == traces'[tl]
  <2>2. list = Merged(override, new)[tl]
    BY <1>2
  <2> HIDE DEF list
  <2>3. Shown(tl, list)
    BY <2>1, <2>2, MergedKeeps
  <2> QED  BY <2>3 DEF list
<1> QED  BY <1>1, <1>2, TracesChange DEF OverriddenBy

LEMMA StepViewInv ==
  ASSUME PageInv, [Next]_vars
  PROVE  ViewInv'
<1> DEFINE CursorOK == /\ toplevels' \subseteq canvas /\ deleted' \subseteq canvas \ toplevels'
                       /\ focused' \in toplevels' \cup {None}
           SelectedOK == /\ tlTraceIDs' \in [Toplevels -> IDs \cup {None}]
                         /\ \A tl \in Toplevels : tlTraceIDs'[tl] \in Belongs(tl) \cup {None}
<1>0. /\ toplevels \subseteq canvas /\ deleted \subseteq canvas \ toplevels
      /\ focused \in toplevels \cup {None}
      /\ tlTraceIDs \in [Toplevels -> IDs \cup {None}]
      /\ \A tl \in Toplevels : tlTraceIDs[tl] \in Belongs(tl) \cup {None}
  BY DEF PageInv, ViewInv
<1>1. UNCHANGED canvas
  BY ServerMoves
<1>2. CASE UserStep
  <2>1. CursorOK
    BY <1>0, <1>2 DEF UserStep, Still, serverVars, viewVars, Select, Deselect, ChangePage, TraceClick,
         TraceMouseEnter, AddToplevel, RemoveToplevel, TriggerHandler
  <2>2. \/ UNCHANGED tlTraceIDs
        \/ \E tl \in Toplevels : \E id \in Belongs(tl) : tlTraceIDs' = [tlTraceIDs EXCEPT ![tl] = id]
    BY <1>2 DEF UserStep, Still, viewVars, Select, Deselect, ChangePage, TraceClick,
         TraceMouseEnter, AddToplevel, RemoveToplevel, TriggerHandler
  <2>3. ASSUME NEW tl \in Toplevels, NEW id \in Belongs(tl), tlTraceIDs' = [tlTraceIDs EXCEPT ![tl] = id]
        PROVE  SelectedOK
    <3>1. id \in IDs
      BY Owners
    <3> QED  BY <1>0, <2>3, <3>1
  <2> QED  BY <1>0, <1>1, <2>1, <2>2, <2>3, TracesStayShown DEF ViewInv
<1>3. CASE ~UserStep
  <2>1. UNCHANGED <<toplevels, deleted, focused, tlTraceIDs>>
    <3>1. CASE ServerStep
      BY <3>1 DEF ServerStep, Still, serverVars, viewVars, traceVars, OpsSaved, GetTraceData, GetWorkerStats,
           NewTrace, FetchAllTraces, RunFinishes
    <3>2. CASE FetcherStep
      BY <3>2 DEF FetcherStep, Still, traceVars, serverVars, viewVars
    <3>3. CASE PageStep
      BY <3>3 DEF PageStep, Still, traceVars, serverVars, viewVars, NewTracePush, FetchAllTracesCallback,
           TriggerHandlerCallback, ReceiveTrace, ReceiveMissing, ReceiveFailure, ReceiveStats
    <3>4. CASE WindowStep
      BY <3>4 DEF WindowStep, traceVars, serverVars, viewVars, OnFocus, OnBlur, SwitchTab, VisibilityCheck, TimerFire
    <3>5. CASE UNCHANGED vars
      BY <3>5 DEF vars, traceVars, serverVars, viewVars
    <3> QED  BY <1>3, <3>1, <3>2, <3>3, <3>4, <3>5 DEF Next
  <2> QED  BY <1>0, <1>1, <2>1, TracesStayShown DEF ViewInv
<1> QED  BY <1>2, <1>3

-----------------------------------------------------------------------------
(* What the page asks for. *)

LEMMA RequestsAre ==
  /\ \A tl \in Toplevels : \A id \in Belongs(tl) : TraceRequest(tl, id) \subseteq Requests
  /\ \A w \in Workers : {[tlid |-> w, key |-> StatsKey(w)]} \subseteq Requests
  /\ \A r \in Requests : r.key \in Keys
<1>1. ASSUME NEW tl \in Toplevels, NEW id \in Belongs(tl)
      PROVE  TraceRequest(tl, id) \subseteq Requests
  <2>1. [tlid |-> tl, key |-> TraceKey(id)] \in RequestsOf(tl)
    BY DEF RequestsOf
  <2>2. [tlid |-> tl, key |-> TraceKey(id)] \in Requests
    BY <2>1, RequestsSplit
  <2> QED  BY <2>2 DEF TraceRequest
<1>2. ASSUME NEW w \in Workers  PROVE {[tlid |-> w, key |-> StatsKey(w)]} \subseteq Requests
  <2>1. [tlid |-> w, key |-> StatsKey(w)] \in Requests
    BY RequestsSplit, Zenon
  <2> QED  BY <2>1
<1>3. \A r \in Requests : r.key \in Keys
  BY DEF Keys
<1> QED  BY <1>1, <1>2, <1>3

MayAsk == \A tl \in Toplevels \cup {None} : Unfetched(tl) \subseteq Requests

LEMMA UnfetchedRequests == ViewInv => MayAsk
<1> USE DEF MayAsk
<1> SUFFICES ASSUME ViewInv, NEW tl \in Toplevels \cup {None}
             PROVE  Unfetched(tl) \subseteq Requests
  OBVIOUS
<1>1. CASE tl = None
  BY <1>1 DEF Unfetched
<1>2. CASE tl # None
  <2>1. SelectedTraceID(tl) \in Belongs(tl)
    BY <1>2, SelectedBelongs
  <2> QED  BY <1>2, <2>1, RequestsAre DEF Unfetched
<1> QED  BY <1>1, <1>2

LEMMA FocusedRequests == ServerInv /\ ViewInv => Unfetched(focused) \subseteq Requests
  BY UnfetchedRequests DEF ServerInv, ViewInv, MayAsk

Asks ==
  /\ syncState \subseteq Keys
  /\ asking \subseteq Requests /\ posted \subseteq Requests

LEMMA AttemptAsks ==
  ASSUME Asks, NEW sync, sync \subseteq Keys, NEW wanted, wanted \subseteq Requests,
         Attempt(sync, wanted)
  PROVE  Asks'
  BY RequestsAre DEF Asks, Attempt, Fetch

LEMMA AnalyzeAsks ==
  ASSUME Asks, ServerInv', ViewInv', NEW sync, sync \subseteq Keys, AnalyzeFocused(sync)
  PROVE  Asks'
<1>1. (ServerInv /\ ViewInv => Unfetched(focused) \subseteq Requests)'
  BY FocusedRequests, PTL
<1>2. Unfetched(focused)' \subseteq Requests
  BY <1>1
<1> QED  BY <1>2, AttemptAsks DEF AnalyzeFocused

Answers == replies \subseteq [request : Requests, result : Results]

LEMMA AnswerAnswers ==
  ASSUME Asks, Answers, NEW r, NEW result \in Results, Answer(r, result)
  PROVE  Asks' /\ Answers'
  BY DEF Asks, Answers, Answer

LEMMA StepWorker ==
  ASSUME FetchInv, [Next]_vars
  PROVE  fetcherWorker' \in {"loading", "ready", "failed"} /\ visibility' \in {"Visible", "Hidden"}
<1>0. fetcherWorker \in {"loading", "ready", "failed"} /\ visibility \in {"Visible", "Hidden"}
  BY DEF FetchInv
<1>1. CASE UserStep
  BY <1>0, <1>1 DEF UserStep, Still, windowVars, fetchVars, Select, Deselect, ChangePage, TraceClick,
       TraceMouseEnter, AddToplevel, RemoveToplevel, TriggerHandler
<1>2. CASE ServerStep
  BY <1>0, <1>2 DEF ServerStep, Still, windowVars, fetchVars, OpsSaved, GetTraceData, GetWorkerStats,
       NewTrace, FetchAllTraces, RunFinishes, Answer
<1>3. CASE FetcherStep
  BY <1>0, <1>3 DEF FetcherStep, Still, windowVars, FetcherLoads, FetcherFails, FetchRetry, AnswerFails,
       Answer
<1>4. CASE PageStep
  BY <1>0, <1>4 DEF PageStep, Still, windowVars, NewTracePush, FetchAllTracesCallback,
       TriggerHandlerCallback, ReceiveTrace, ReceiveMissing, ReceiveFailure, ReceiveStats
<1>5. CASE WindowStep
  BY <1>0, <1>5 DEF WindowStep, fetchVars, windowVars, windowFocusChange, OnFocus, OnBlur, SwitchTab,
       VisibilityCheck, TimerFire
<1>6. CASE UNCHANGED vars
  BY <1>0, <1>6 DEF vars, fetchVars, windowVars
<1> QED  BY <1>1, <1>2, <1>3, <1>4, <1>5, <1>6 DEF Next

LEMMA ChangePageAsks ==
  ASSUME Asks, ServerInv, ViewInv, ViewInv', NEW tl, NEW id, ChangePage(tl, id)
  PROVE  Asks'
<1>1. CASE id = None
  BY <1>1 DEF ChangePage, Asks
<1>2. CASE id # None
  <2>1. PICK before \in {focused} : Attempt(syncState, Unfetched(before)')
    BY <1>2 DEF ChangePage
  <2>2. before \in Toplevels \cup {None}
    BY DEF ServerInv, ViewInv
  <2>3. (ViewInv => MayAsk)'
    BY UnfetchedRequests, PTL
  <2>4. Unfetched(before)' \subseteq Requests
    BY <2>2, <2>3 DEF MayAsk
  <2> QED  BY <2>1, <2>4, AttemptAsks DEF Asks
<1> QED  BY <1>1, <1>2

LEMMA TraceClickAsks ==
  ASSUME Asks, ServerInv, ViewInv, ServerInv', ViewInv', NEW tl \in Toplevels, NEW id, TraceClick(tl, id)
  PROVE  Asks'
<1> DEFINE selected == IF focused = None THEN Unfetched(tl) ELSE {}
           wanted == selected \cup Unfetched(focused)'
<1>1. Attempt(syncState, wanted)
  BY DEF TraceClick
<1>2. selected \subseteq Requests
  BY UnfetchedRequests DEF MayAsk
<1>3. (ServerInv /\ ViewInv => Unfetched(focused) \subseteq Requests)'
  BY FocusedRequests, PTL
<1>4. wanted \subseteq Requests
  BY <1>2, <1>3
<1> QED  BY <1>1, <1>4, AttemptAsks DEF Asks

LEMMA UserAsks ==
  ASSUME Asks, Answers, ServerInv, ViewInv, ServerInv', ViewInv', UserStep
  PROVE  Asks' /\ Answers'
<1>0. syncState \subseteq Keys
  BY DEF Asks
<1>1. ASSUME NEW tl \in Toplevels, Select(tl)  PROVE Asks'
  BY <1>0, <1>1, AnalyzeAsks DEF Select
<1>2. ASSUME NEW tl \in Toplevels, NEW id \in Belongs(tl), TraceMouseEnter(tl, id)  PROVE Asks'
  BY <1>0, <1>2, RequestsAre, AttemptAsks DEF TraceMouseEnter
<1>3. ASSUME NEW tl, AddToplevel(tl)  PROVE Asks'
  BY <1>0, <1>3, AnalyzeAsks DEF AddToplevel
<1>4. ASSUME NEW tl, RemoveToplevel(tl) \/ TriggerHandler(tl)  PROVE Asks'
  BY <1>4 DEF RemoveToplevel, TriggerHandler, fetchVars, Asks
<1>5. ASSUME Deselect  PROVE Asks'
  BY <1>5 DEF Deselect, fetchVars, Asks
<1>6. Asks'
  BY <1>1, <1>2, <1>3, <1>4, <1>5, ChangePageAsks, TraceClickAsks DEF UserStep
<1>7. UNCHANGED replies
  BY DEF UserStep, fetchVars, Select, Deselect, ChangePage, TraceClick, TraceMouseEnter, AddToplevel,
       RemoveToplevel, TriggerHandler
<1> QED  BY <1>6, <1>7 DEF Answers

LEMMA ServerAsks ==
  ASSUME Asks, Answers, VersionsInv, ServerStep
  PROVE  Asks' /\ Answers'
<1>1. CASE OpsSaved \/ FetchAllTraces \/ (\E t \in Traces : NewTrace(t)) \/ (\E r \in runs : RunFinishes(r))
  BY <1>1 DEF OpsSaved, FetchAllTraces, NewTrace, RunFinishes, fetchVars, Asks, Answers
<1>2. ASSUME NEW r \in posted, GetTraceData(r)  PROVE Asks' /\ Answers'
  <2>1. r \in Requests /\ r.key.kind = "trace"
    BY <1>2 DEF Asks, GetTraceData
  <2>2. r.tlid \in Toplevels /\ r.key.id \in Belongs(r.tlid)
    BY <2>1, TraceRequested
  <2> DEFINE v == ver[r.tlid][r.key.id]
  <2>3. v \in 1..(1 + MaxGestures)
    <3>1. v \in Nat \ {0} /\ v + Cardinality(Pending) <= 1 + gestures
      BY <2>2 DEF VersionsInv
    <3>2. IsFiniteSet(Pending)
      <4>1. Pending \in SUBSET runs
        BY DEF Pending
      <4> QED  BY <4>1, FS_Subset DEF VersionsInv
    <3>3. Cardinality(Pending) \in Nat /\ gestures \in Nat /\ gestures <= MaxGestures /\ MaxGestures \in Nat
      BY <3>2, FS_CardinalityType, TracesAssumption DEF VersionsInv
    <3> HIDE DEF v
    <3> QED  BY <3>1, <3>3
  <2>4. \E result \in {Missing, TooLarge, v} : Answer(r, result)
    BY <1>2 DEF GetTraceData
  <2> HIDE DEF v
  <2>5. {Missing, TooLarge, v} \subseteq Results
    BY <2>3 DEF Results
  <2> QED  BY <2>4, <2>5, AnswerAnswers
<1>3. ASSUME NEW r \in posted, GetWorkerStats(r)  PROVE Asks' /\ Answers'
  <2>1. 1 \in Results
    BY TracesAssumption DEF Results
  <2> QED  BY <1>3, <2>1, AnswerAnswers DEF GetWorkerStats
<1> QED  BY <1>1, <1>2, <1>3 DEF ServerStep

LEMMA FetcherAsks ==
  ASSUME Asks, Answers, FetcherStep
  PROVE  Asks' /\ Answers'
<1>1. CASE FetcherLoads \/ FetcherFails \/ (\E r \in asking : FetchRetry(r))
  BY <1>1 DEF FetcherLoads, FetcherFails, FetchRetry, Asks, Answers
<1>2. ASSUME NEW r \in posted, AnswerFails(r)  PROVE Asks' /\ Answers'
  <2>1. Failure \in Results
    BY DEF Results
  <2> QED  BY <1>2, <2>1, AnswerAnswers DEF AnswerFails
<1> QED  BY <1>1, <1>2 DEF FetcherStep

LEMMA PageAsks ==
  ASSUME Asks, Answers, ServerInv', ViewInv', PageStep
  PROVE  Asks' /\ Answers'
<1>0. syncState \subseteq Keys
  BY DEF Asks
<1>1. ASSUME NEW p, NewTracePush(p)  PROVE Asks'
  BY <1>0, <1>1, AnalyzeAsks DEF NewTracePush
<1>2. ASSUME FetchAllTracesCallback  PROVE Asks'
  BY <1>0, <1>2, AnalyzeAsks DEF FetchAllTracesCallback
<1>3. ASSUME NEW r, TriggerHandlerCallback(r)  PROVE Asks'
  BY <1>0, <1>3, AnalyzeAsks DEF TriggerHandlerCallback
<1>4. ASSUME NEW a, ReceiveTrace(a)  PROVE Asks'
  <2>1. syncState \ {a.request.key} \subseteq Keys
    BY <1>0
  <2> QED  BY <1>4, <2>1, AnalyzeAsks DEF ReceiveTrace
<1>5. ASSUME NEW a \in replies, ReceiveMissing(a)  PROVE Asks'
  <2>1. a.request \in Requests /\ a.request.key.kind = "trace"
    BY <1>5 DEF Answers, ReceiveMissing
  <2>2. TraceRequest(a.request.tlid, a.request.key.id) \subseteq Requests
    BY <2>1, TraceRequested, RequestsAre
  <2> QED  BY <1>5, <2>2 DEF ReceiveMissing, Fetch, Asks
<1>6. ASSUME NEW a, ReceiveFailure(a) \/ ReceiveStats(a)  PROVE Asks'
  BY <1>6 DEF ReceiveFailure, ReceiveStats, Asks
<1>7. Asks'
  BY <1>1, <1>2, <1>3, <1>4, <1>5, <1>6 DEF PageStep
<1>8. replies' \subseteq replies
  BY DEF PageStep, NewTracePush, FetchAllTracesCallback, TriggerHandlerCallback, ReceiveTrace,
       ReceiveMissing, ReceiveFailure, ReceiveStats
<1> QED  BY <1>7, <1>8 DEF Answers

LEMMA WindowAsks ==
  ASSUME Asks, Answers, WindowStep
  PROVE  Asks' /\ Answers'
<1>1. CASE OnFocus \/ OnBlur \/ SwitchTab \/ VisibilityCheck
  BY <1>1 DEF OnFocus, OnBlur, SwitchTab, VisibilityCheck, fetchVars, Asks, Answers
<1>2. CASE TimerFire
  BY <1>2, RequestsAre, AttemptAsks DEF TimerFire, Asks, Answers
<1> QED  BY <1>1, <1>2 DEF WindowStep

LEMMA StepFetchInv ==
  ASSUME PageInv, ServerInv', ViewInv', [Next]_vars
  PROVE  FetchInv'
<1>1. Asks /\ Answers /\ ServerInv /\ ViewInv /\ VersionsInv /\ FetchInv
  BY DEF PageInv, FetchInv, Asks, Answers
<1>2. Asks' /\ Answers'
  <2>1. CASE UNCHANGED vars
    BY <1>1, <2>1 DEF vars, fetchVars, Asks, Answers
  <2> QED  BY <1>1, <2>1, UserAsks, ServerAsks, FetcherAsks, PageAsks, WindowAsks DEF Next
<1> QED  BY <1>1, <1>2, StepWorker DEF FetchInv, Asks, Answers

LEMMA InitPageInv == Init => PageInv
<1> SUFFICES ASSUME Init  PROVE PageInv
  OBVIOUS
<1> USE DEF Init, FetchInit, TracesInit
<1>1. canvas \subseteq Toplevels /\ MaxTraces \in Nat \ {0} /\ MaxGestures \in Nat
  BY CanvasesAssumption, TracesAssumption
<1>2. \A S : <<>> \in Seq(S) /\ Different(<<>>) /\ Distinct(<<>>)
  BY DEF Different, Distinct
<1>3. ServerInv
  BY <1>1, <1>2 DEF ServerInv
<1>4. MessagesInv
  BY <1>1, <1>2 DEF MessagesInv
<1>5. VersionsInv
  <2>1. Pending = {} /\ IsFiniteSet(runs) /\ Cardinality(Pending) = 0
    BY FS_EmptySet DEF Pending
  <2>2. \A tl \in Toplevels : ver[tl] \in [Belongs(tl) -> Nat] /\ \A id \in Belongs(tl) : ver[tl][id] = 1
    OBVIOUS
  <2> QED  BY <1>1, <2>1, <2>2 DEF VersionsInv
<1>6. FetchInv
  BY DEF FetchInv
<1>7. ViewInv
  BY <1>1, <1>2 DEF ViewInv, Shown, Lists
<1> QED  BY <1>3, <1>4, <1>5, <1>6, <1>7 DEF PageInv

LEMMA StepPageInv == PageInv /\ [Next]_vars => PageInv'
<1> SUFFICES ASSUME PageInv, [Next]_vars  PROVE PageInv'
  OBVIOUS
<1>1. ServerInv' /\ MessagesInv' /\ VersionsInv'
  BY StepServerInv, StepMessagesInv, StepVersionsInv DEF PageInv
<1>2. ViewInv'
  BY StepViewInv
<1>3. FetchInv'
  BY <1>1, <1>2, StepFetchInv
<1> QED  BY <1>1, <1>2, <1>3 DEF PageInv

LEMMA PageInvTypes == PageInv => TypeOK
<1> SUFFICES ASSUME PageInv  PROVE TypeOK
  OBVIOUS
<1>1. TracesTypeOK
  <2>1. ASSUME NEW tl \in Toplevels
        PROVE  /\ Len(traces[tl]) <= MaxTraces + 1
               /\ \A i, j \in DOMAIN traces[tl] : traces[tl][i].id = traces[tl][j].id => i = j
               /\ \A i \in DOMAIN traces[tl] :
                    traces[tl][i] \in [id : IDs, data : {TooLarge, NoneYet} \cup 1..(1 + MaxGestures)]
    <3>1. /\ traces[tl] \in Seq([id : Belongs(tl), data : DataOrNot]) /\ Distinct(traces[tl])
          /\ Len(traces[tl]) <= MaxTraces + 1
      BY DEF PageInv, ViewInv, Shown, Lists
    <3>2. \A i \in DOMAIN traces[tl] : traces[tl][i] \in [id : Belongs(tl), data : DataOrNot]
      <4> DEFINE list == traces[tl]
                 E == [id : Belongs(tl), data : DataOrNot]
      <4>1. list \in Seq(E)
        BY <3>1
      <4> HIDE DEF list, E
      <4>2. \A i \in DOMAIN list : list[i] \in E
        BY <4>1, ListMembers
      <4> QED  BY <4>2 DEF list, E
    <3>3. Belongs(tl) \subseteq IDs
      BY Owners
    <3> QED  BY <3>1, <3>2, <3>3 DEF Distinct, DataOrNot
  <2>2. tlTraceIDs \in [Toplevels -> IDs \cup {None}] /\ focused \in toplevels \cup {None}
    BY DEF PageInv, ViewInv
  <2> QED  BY <2>1, <2>2 DEF TracesTypeOK
<1> QED  BY <1>1 DEF PageInv, FetchInv, ViewInv, ServerInv, TypeOK

(* The lists of traces keep their shape, whatever is pushed, listed or     *)
(* fetched in whatever order: each trace once, never more than the limit   *)
(* and the selected one (mergeTraces), under a toplevel it can belong to;  *)
(* and versions stay within what the user's runs can make of them.         *)
THEOREM PageTyped == Spec => []TypeOK
<1>1. Spec => []PageInv
  BY InitPageInv, StepPageInv, PTL DEF Spec
<1> QED  BY <1>1, PageInvTypes, PTL

-----------------------------------------------------------------------------
(* What no step takes away. *)

LEMMA EntriesMerged ==
  ASSUME PageInv, NEW override, NEW new, Given(new), traces' = Merged(override, new),
         NEW tl \in Toplevels
  PROVE  MergedFrom(override, tl, new[tl], traces'[tl])
<1> DEFINE list == traces'[tl]
<1>1. Shown(tl, traces[tl]) /\ Shown(tl, new[tl])
  BY DEF PageInv, ViewInv, Given
<1>2. list = Merged(override, new)[tl]
  OBVIOUS
<1> HIDE DEF list
<1>3. MergedFrom(override, tl, new[tl], list)
  BY <1>1, <1>2, MergedKeeps
<1> QED  BY <1>3 DEF list

LEMMA SelectedStep ==
  ASSUME PageInv, [Next]_vars, NEW tl \in Toplevels, NEW e \in Entries(tl), tlTraceIDs[tl] = e.id
  PROVE  \E f \in Entries(tl)' : f.id = e.id
<1>1. Entries(tl)' = ToSet(traces'[tl])
  BY DEF Entries
<1>2. CASE UNCHANGED traces
  BY <1>1, <1>2 DEF Entries
<1>3. ASSUME NEW override, NEW new, Given(new), traces' = Merged(override, new)
      PROVE  \E f \in Entries(tl)' : f.id = e.id
  <2>1. MergedFrom(override, tl, new[tl], traces'[tl])
    BY <1>3, EntriesMerged
  <2> QED  BY <1>1, <2>1 DEF MergedFrom
<1> QED  BY <1>2, <1>3, TracesChange DEF OverriddenBy

LEMMA KeptStep ==
  ASSUME PageInv, [Next]_vars, NEW tl \in Toplevels, NEW e \in Entries(tl),
         IsOk(e.data), runs \subseteq runs', NEW f \in Entries(tl)', f.id = e.id
  PROVE  IsOk(f.data)
<1>1. Entries(tl)' = ToSet(traces'[tl])
  BY DEF Entries
<1>2. CASE UNCHANGED traces
  <2>1. traces[tl] \in Seq([id : Belongs(tl), data : DataOrNot]) /\ Distinct(traces[tl])
    BY DEF PageInv, ViewInv, Shown, Lists
  <2> DEFINE list == traces[tl]
             E == [id : Belongs(tl), data : DataOrNot]
  <2>2. list \in Seq(E) /\ Distinct(list) /\ e \in ToSet(list) /\ f \in ToSet(list)
    BY <1>1, <1>2, <2>1 DEF Entries
  <2> HIDE DEF list, E
  <2>3. e = f
    BY <2>2, ListMembers DEF Distinct
  <2> QED  BY <2>3
<1>3. ASSUME NEW new, Given(new), traces' = Merged(FALSE, new)
      PROVE  IsOk(f.data)
  <2>1. MergedFrom(FALSE, tl, new[tl], traces'[tl])
    BY <1>3, EntriesMerged
  <2> QED  BY <1>1, <2>1 DEF MergedFrom
<1>4. ASSUME NEW r \in runs, TriggerHandlerCallback(r)  PROVE FALSE
  BY <1>4 DEF TriggerHandlerCallback
<1> QED  BY <1>2, <1>3, <1>4, TracesChange

(* Data that the page has is dropped only for a run of the trace: no push, *)
(* list of traces, answer or 404 takes it away from a trace that stays     *)
(* (updateTrace in mergeTraces keeps data that is there).                  *)
THEOREM DataIsKeptAlways == Spec => DataIsKept
<1>1. Spec => []PageInv
  BY InitPageInv, StepPageInv, PTL DEF Spec
<1>2. PageInv /\ [Next]_vars =>
        [\A tl \in Toplevels : \A e \in Entries(tl) :
           IsOk(e.data) /\ runs' \subseteq runs /\ runs \subseteq runs' =>
             \A f \in Entries(tl)' : f.id = e.id => IsOk(f.data)]_vars
  BY KeptStep
<1> QED  BY <1>1, <1>2, PTL DEF Spec, DataIsKept

(* The trace that the user has selected stays in its list, however many    *)
(* newer ones arrive: the limit of mergeTraces does not count it.          *)
THEOREM SelectedStaysAlways == Spec => SelectedStays
<1>1. Spec => []PageInv
  BY InitPageInv, StepPageInv, PTL DEF Spec
<1>2. PageInv /\ [Next]_vars =>
        [\A tl \in Toplevels : \A e \in Entries(tl) :
           tlTraceIDs[tl] = e.id => \E f \in Entries(tl)' : f.id = e.id]_vars
  BY SelectedStep
<1> QED  BY <1>1, <1>2, PTL DEF Spec, SelectedStays

-----------------------------------------------------------------------------
(* What the page shows after a run. *)

LEMMA RacesMove ==
  ASSUME [Next]_vars
  PROVE  UNCHANGED raced \/ \E r \in runs : TriggerHandlerCallback(r)
<1>1. CASE UserStep
  BY <1>1 DEF UserStep, Still, Select, Deselect, ChangePage, TraceClick, TraceMouseEnter,
       AddToplevel, RemoveToplevel, TriggerHandler
<1>2. CASE ServerStep
  BY <1>2 DEF ServerStep, Still, traceVars, OpsSaved, GetTraceData, GetWorkerStats, NewTrace,
       FetchAllTraces, RunFinishes
<1>3. CASE FetcherStep
  BY <1>3 DEF FetcherStep, traceVars
<1>4. CASE PageStep
  BY <1>4 DEF PageStep, traceVars, NewTracePush, FetchAllTracesCallback, ReceiveTrace,
       ReceiveMissing, ReceiveFailure, ReceiveStats
<1>5. CASE WindowStep
  BY <1>5 DEF WindowStep, traceVars, OnFocus, OnBlur, SwitchTab, VisibilityCheck, TimerFire
<1>6. CASE UNCHANGED vars
  BY <1>6 DEF vars, traceVars
<1> QED  BY <1>1, <1>2, <1>3, <1>4, <1>5, <1>6 DEF Next

(* An answer is new only in the version that it reads.                     *)
LEMMA RepliesMove ==
  ASSUME [Next]_vars, NEW a \in replies', a \notin replies,
         a.request.key.kind = "trace", IsOk(a.result)
  PROVE  /\ a.request \in posted
         /\ a.result = ver[a.request.tlid][a.request.key.id]
         /\ UNCHANGED <<ver, runs, raced>>
<1>1. ASSUME NEW r \in posted, NEW result, Answer(r, result)
      PROVE  a = [request |-> r, result |-> result]
  BY <1>1 DEF Answer
<1>2. ASSUME NEW r \in posted, GetTraceData(r)
      PROVE  /\ a.request = r /\ a.result = ver[r.tlid][r.key.id]
             /\ UNCHANGED <<ver, runs, raced>>
  <2> DEFINE v == ver[r.tlid][r.key.id]
  <2>1. \E result \in {Missing, TooLarge, v} : Answer(r, result)
    BY <1>2 DEF GetTraceData
  <2>2. a \in {[request |-> r, result |-> result] : result \in {Missing, TooLarge, v}}
    BY <1>1, <2>1
  <2> HIDE DEF v
  <2>3. a.request = r /\ a.result = v
    BY <2>2 DEF IsOk, Missing, TooLarge
  <2> QED  BY <1>2, <2>3 DEF v, GetTraceData, traceVars, serverVars, messageVars
<1>3. ASSUME NEW r \in posted, GetWorkerStats(r)  PROVE FALSE
  <2>1. a.request = r
    BY <1>1, <1>3 DEF GetWorkerStats
  <2> QED  BY <1>3, <2>1 DEF GetWorkerStats
<1>4. ASSUME NEW r \in posted, AnswerFails(r)  PROVE FALSE
  <2>1. a.result = Failure
    BY <1>1, <1>4 DEF AnswerFails
  <2> QED  BY <2>1 DEF IsOk, Failure
<1>5. CASE UserStep
  BY <1>5 DEF UserStep, fetchVars, Select, Deselect, ChangePage, TraceClick, TraceMouseEnter,
       AddToplevel, RemoveToplevel, TriggerHandler
<1>6. CASE ServerStep
  <2>1. ASSUME OpsSaved \/ (\E t \in Traces : NewTrace(t)) \/ FetchAllTraces
               \/ (\E r \in runs : RunFinishes(r))
        PROVE FALSE
    BY <2>1 DEF OpsSaved, NewTrace, FetchAllTraces, RunFinishes, fetchVars
  <2> QED  BY <1>2, <1>3, <1>6, <2>1 DEF ServerStep
<1>7. CASE FetcherStep
  <2>1. ASSUME FetcherLoads \/ FetcherFails \/ (\E r \in asking : FetchRetry(r))  PROVE FALSE
    BY <2>1 DEF FetcherLoads, FetcherFails, FetchRetry
  <2> QED  BY <1>4, <1>7, <2>1 DEF FetcherStep
<1>8. CASE PageStep
  BY <1>8 DEF PageStep, NewTracePush, FetchAllTracesCallback, TriggerHandlerCallback, ReceiveTrace,
       ReceiveMissing, ReceiveFailure, ReceiveStats
<1>9. CASE WindowStep
  BY <1>9 DEF WindowStep, fetchVars, OnFocus, OnBlur, SwitchTab, VisibilityCheck, TimerFire
<1>10. CASE UNCHANGED vars
  BY <1>10 DEF vars, fetchVars
<1> QED  BY <1>2, <1>5, <1>6, <1>7, <1>8, <1>9, <1>10 DEF Next

(* Data stays current as long as no run comes back that made it old.       *)
LEMMA CurrentStays ==
  ASSUME PageInv, [Next]_vars, NEW tl \in Toplevels, NEW id \in Belongs(tl), NEW data \in Int,
         Current(tl, id, data),
         \A r \in runs : TriggerHandlerCallback(r) => r.id # id \/ tl \notin r.touched
  PROVE  Current(tl, id, data)'
<1>1. /\ data <= ver[tl][id] /\ ver[tl][id] \in Nat
      /\ \/ data = ver[tl][id]
         \/ id \in raced
         \/ \E r \in runs : r.done /\ r.id = id /\ tl \in r.touched
  BY DEF Current, PageInv, VersionsInv
<1>2. raced \subseteq raced'
  BY RacesMove DEF TriggerHandlerCallback
<1>3. CASE UNCHANGED <<runs, ver>>
  BY <1>1, <1>2, <1>3 DEF Current
<1>4. ASSUME NEW t \in Toplevels, TriggerHandler(t)  PROVE Current(tl, id, data)'
  <2>1. runs \subseteq runs' /\ UNCHANGED ver
    BY <1>4 DEF TriggerHandler, serverVars
  <2> QED  BY <1>1, <1>2, <2>1 DEF Current
<1>5. ASSUME NEW r \in runs, RunFinishes(r)  PROVE Current(tl, id, data)'
  <2> DEFINE q == [r EXCEPT !.done = TRUE, !.touched = Touched(r.tlid)]
  <2>1. r \in Runs /\ r.id \in IDs /\ r.tlid = Owner(r.id)
    BY DEF PageInv, MessagesInv, Runs
  <2>2. /\ runs' = (runs \ {r}) \cup {q} /\ ~r.done
        /\ ver' = [t \in Toplevels |->
             IF t \in Touched(r.tlid) THEN [ver[t] EXCEPT ![r.id] = @ + 1] ELSE ver[t]]
    BY <1>5 DEF RunFinishes
  <2>3. q.done /\ q.id = r.id /\ q.touched = Touched(r.tlid)
    BY <2>1 DEF Runs
  <2>4. ver[tl] \in [Belongs(tl) -> Nat]
    BY DEF PageInv, VersionsInv
  <2> HIDE DEF q
  <2>5. CASE id = r.id /\ tl \in Touched(r.tlid)
    <3>1. ver'[tl][id] = ver[tl][id] + 1
      BY <2>2, <2>4, <2>5
    <3>2. data <= ver'[tl][id]
      BY <1>1, <3>1
    <3>3. q \in runs' /\ q.done /\ q.id = id /\ tl \in q.touched
      BY <2>2, <2>3, <2>5
    <3> QED  BY <3>2, <3>3 DEF Current
  <2>6. CASE ~(id = r.id /\ tl \in Touched(r.tlid))
    <3>1. ver'[tl][id] = ver[tl][id]
      BY <2>2, <2>4, <2>6
    <3> QED  BY <1>1, <1>2, <2>2, <3>1 DEF Current
  <2> QED  BY <2>5, <2>6
<1>6. ASSUME NEW r \in runs, TriggerHandlerCallback(r)  PROVE Current(tl, id, data)'
  <2>1. runs' = runs \ {r} /\ UNCHANGED ver
    BY <1>6 DEF TriggerHandlerCallback, serverVars
  <2>2. r.id # id \/ tl \notin r.touched
    BY <1>6
  <2> QED  BY <1>1, <1>2, <2>1, <2>2 DEF Current
<1> QED  BY <1>3, <1>4, <1>5, <1>6, VersionsMove

(* Data on its way that a run made old before it came back has lost a race.*)
LEMMA ReplyStays ==
  ASSUME PageInv, FreshInv, [Next]_vars, NEW a \in replies,
         a.request.key.kind = "trace", IsOk(a.result)
  PROVE  Current(a.request.tlid, a.request.key.id, a.result)'
<1> DEFINE tl == a.request.tlid
           id == a.request.key.id
<1>1. tl \in Toplevels /\ id \in Belongs(tl) /\ a.request.key = TraceKey(id) /\ a.result \in Int
  <2>1. a.request \in Requests /\ a.result \in Results
    BY DEF PageInv, FetchInv
  <2>2. a.result \in Int
    BY <2>1, TracesAssumption DEF Results, TooLarge, Missing, Failure
  <2> QED  BY <2>1, <2>2, TraceRequested
<1>2. Current(tl, id, a.result)
  BY DEF FreshInv
<1>3. ASSUME NEW r \in runs, TriggerHandlerCallback(r), r.id = id
      PROVE  Current(tl, id, a.result)'
  <2>1. raced' = raced \cup {x \in {r.id} : OlderOnItsWay(x)} /\ UNCHANGED ver
    BY <1>3 DEF TriggerHandlerCallback, serverVars
  <2>2. a.result <= ver[tl][id] /\ ver[tl][id] \in Nat
    BY <1>1, <1>2 DEF Current, PageInv, VersionsInv
  <2>3. CASE a.result = ver[tl][id]
    BY <2>1, <2>2, <2>3 DEF Current
  <2>4. CASE a.result < ver[tl][id]
    <3>1. OlderOnItsWay(id)
      BY <1>1, <2>4 DEF OlderOnItsWay
    <3>2. id \in raced'
      BY <1>3, <2>1, <3>1
    <3> QED  BY <2>1, <2>2, <3>2 DEF Current
  <2> QED  BY <1>1, <2>2, <2>3, <2>4
<1>4. CASE \A r \in runs : TriggerHandlerCallback(r) => r.id # id
  <2> HIDE DEF tl, id
  <2>1. Current(tl, id, a.result)'
    BY <1>1, <1>2, <1>4, CurrentStays
  <2> QED  BY <2>1 DEF tl, id
<1> QED  BY <1>3, <1>4

LEMMA EntryStays ==
  ASSUME PageInv, FreshInv, [Next]_vars, NEW tl \in Toplevels, NEW e \in Entries(tl), IsOk(e.data),
         \A r \in runs : TriggerHandlerCallback(r) => r.id # e.id \/ tl \notin r.touched
  PROVE  Current(tl, e.id, e.data)'
<1>1. e \in [id : Belongs(tl), data : DataOrNot]
  <2> DEFINE list == traces[tl]
             E == [id : Belongs(tl), data : DataOrNot]
  <2>1. list \in Seq(E) /\ e \in ToSet(list)
    BY DEF PageInv, ViewInv, Shown, Lists, Entries
  <2> HIDE DEF list, E
  <2>2. e \in E
    BY <2>1, ListMembers
  <2> QED  BY <2>2 DEF E
<1>2. e.id \in Belongs(tl) /\ e.data \in Int
  BY <1>1, TracesAssumption DEF DataOrNot, TooLarge, NoneYet
<1>3. Current(tl, e.id, e.data)
  BY DEF FreshInv
<1> DEFINE id == e.id
           data == e.data
<1>4. /\ id \in Belongs(tl) /\ data \in Int /\ Current(tl, id, data)
      /\ \A r \in runs : TriggerHandlerCallback(r) => r.id # id \/ tl \notin r.touched
  BY <1>2, <1>3
<1> HIDE DEF id, data
<1>5. Current(tl, id, data)'
  BY <1>4, CurrentStays
<1> QED  BY <1>5 DEF id, data

LEMMA InitFreshInv == Init => FreshInv
  BY DEF Init, FetchInit, TracesInit, FreshInv, Entries, ToSet

LEMMA StepFreshInv ==
  ASSUME PageInv, FreshInv, [Next]_vars
  PROVE  FreshInv'
<1>1. ASSUME NEW tl \in Toplevels, NEW f \in Entries(tl)', IsOk(f.data)
      PROVE  Current(tl, f.id, f.data)'
  <2>0. Entries(tl)' = ToSet(traces'[tl])
    BY DEF Entries
  <2>1. ASSUME NEW r \in runs, TriggerHandlerCallback(r)  PROVE Current(tl, f.id, f.data)'
    <3>1. PICK new : OverriddenBy(r, new)
      BY <2>1, RunOverrides
    <3>2. MergedFrom(TRUE, tl, new[tl], traces'[tl])
      BY <3>1, EntriesMerged DEF OverriddenBy
    <3>3. f.data # NoneYet
      BY <1>1 DEF IsOk, NoneYet
    <3>4. f \notin ToSet(new[tl]) /\ f # NoTrace(f.id)
      BY <3>1, <3>3 DEF OverriddenBy, NoTrace
    <3>5. f \in Entries(tl) /\ \A n \in ToSet(new[tl]) : n.id # f.id
      BY <1>1, <2>0, <3>2, <3>4 DEF MergedFrom
    <3>6. f.id # r.id \/ tl \notin r.touched
      <4>1. tl \in r.touched => NoTrace(r.id) \in ToSet(new[tl])
        BY <3>1 DEF OverriddenBy
      <4>2. NoTrace(r.id).id = r.id
        BY DEF NoTrace
      <4> QED  BY <3>5, <4>1, <4>2
    <3>7. \A q \in runs : TriggerHandlerCallback(q) => q = r
      BY <2>1 DEF TriggerHandlerCallback
    <3> QED  BY <1>1, <3>5, <3>6, <3>7, EntryStays
  <2>2. CASE \A r \in runs : ~TriggerHandlerCallback(r)
    <3>1. CASE f \in Entries(tl)
      BY <1>1, <2>2, <3>1, EntryStays
    <3>2. CASE f \notin Entries(tl)
      <4>1. ASSUME UNCHANGED traces  PROVE FALSE
        BY <2>0, <3>2, <4>1 DEF Entries
      <4>2. ASSUME NEW new, Given(new), traces' = Merged(FALSE, new)
            PROVE  f \in ToSet(new[tl])
        <5>1. MergedFrom(FALSE, tl, new[tl], traces'[tl])
          BY <4>2, EntriesMerged
        <5> QED  BY <1>1, <2>0, <3>2, <5>1 DEF MergedFrom
      <4>3. ASSUME NEW new, Given(new), WithoutData(new), traces' = Merged(FALSE, new)
            PROVE  FALSE
        <5>1. f = NoTrace(f.id)
          BY <4>2, <4>3 DEF WithoutData
        <5> QED  BY <1>1, <5>1 DEF NoTrace, NoneYet, IsOk
      <4>4. ASSUME NEW a \in replies, a.request.key.kind = "trace", NEW new,
                   Given(new), traces' = Merged(FALSE, new),
                   \A t \in Toplevels :
                     ToSet(new[t]) = IF t \in {a.request.tlid}
                                       THEN {[id |-> a.request.key.id, data |-> a.result]} ELSE {}
            PROVE  Current(tl, f.id, f.data)'
        <5>1. tl = a.request.tlid /\ f = [id |-> a.request.key.id, data |-> a.result]
          BY <4>2, <4>4
        <5>2. f.id = a.request.key.id /\ f.data = a.result
          BY <5>1
        <5>3. Current(a.request.tlid, a.request.key.id, a.result)'
          BY <1>1, <4>4, <5>2, ReplyStays
        <5> QED  BY <5>1, <5>2, <5>3
      <4> QED  BY <2>2, <4>1, <4>3, <4>4, TracesChange
    <3> QED  BY <3>1, <3>2
  <2> QED  BY <2>1, <2>2
<1>2. ASSUME NEW a \in replies', a.request.key.kind = "trace", IsOk(a.result)
      PROVE  Current(a.request.tlid, a.request.key.id, a.result)'
  <2>1. CASE a \in replies
    BY <1>2, <2>1, ReplyStays
  <2>2. CASE a \notin replies
    <3>1. /\ a.request \in posted
          /\ a.result = ver[a.request.tlid][a.request.key.id]
          /\ UNCHANGED <<ver, runs, raced>>
      BY <1>2, <2>2, RepliesMove
    <3>2. a.request.tlid \in Toplevels /\ a.request.key.id \in Belongs(a.request.tlid)
      BY <1>2, <3>1, TraceRequested DEF PageInv, FetchInv
    <3>3. a.result \in Nat
      BY <3>1, <3>2 DEF PageInv, VersionsInv
    <3> QED  BY <3>1, <3>3 DEF Current
  <2> QED  BY <2>1, <2>2
<1> QED  BY <1>1, <1>2 DEF FreshInv

LEMMA FreshInvShows == FreshInv => FreshUnlessRaced
<1> SUFFICES ASSUME FreshInv, NEW tl \in Toplevels, ~\E e \in Entries(tl) : e.id \in raced
             PROVE  Fresh(tl)
  BY DEF FreshUnlessRaced
<1> SUFFICES ASSUME NEW e \in Entries(tl), IsOk(e.data), \A r \in runs : r.id # e.id
             PROVE  e.data = ver[tl][e.id]
  BY DEF Fresh
<1>1. Current(tl, e.id, e.data)
  BY DEF FreshInv
<1> QED  BY <1>1 DEF Current

(* When a run has come back, the page shows no data from before it, unless *)
(* that was on its way when it came back (TriggerHandlerAPICallback blows  *)
(* the traces away and fetches them, ReceiveTraceFetch takes what comes).  *)
THEOREM FreshUnlessRacedAlways == Spec => []FreshUnlessRaced
<1>1. Spec => []PageInv
  BY InitPageInv, StepPageInv, PTL DEF Spec
<1>2. PageInv /\ FreshInv /\ [Next]_vars => FreshInv'
  BY StepFreshInv
<1>3. Spec => []FreshInv
  BY <1>1, <1>2, InitFreshInv, PTL DEF Spec
<1> QED  BY <1>3, FreshInvShows, PTL

=============================================================================
