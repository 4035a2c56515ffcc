----------------------------- MODULE EditorPage -----------------------------
(***************************************************************************)
(* An editor page that is open on a canvas: its traces, and the figures of *)
(* a worker's queue that a timer fetches every second while the page takes *)
(* itself for visible.  Both go through the one worker and the one set of  *)
(* keys of PageFetch.                                                      *)
(*                                                                         *)
(* A page learns whether it is seen from the focus of its window, and from *)
(* document.hidden, which it looks at every two seconds.                   *)
(***************************************************************************)
EXTENDS PageTraces

CONSTANTS
  Canvases,     \* what the page may be opened on: sets of toplevels
  Workers       \* the toplevels that handle a queue

ASSUME CanvasesAssumption == Canvases \subseteq SUBSET Toplevels /\ Workers \subseteq Toplevels

VARIABLES
  canvas,       \* the toplevels of this canvas, deleted or yet to be made
  hidden,       \* document.hidden
  pageHidden,   \* what visibilityCheck last saw of it
  visibility    \* m.visibility

Requests ==
  (UNION {{[tlid |-> tl, key |-> TraceKey(id)] : id \in Belongs(tl)} : tl \in Toplevels})
    \cup {[tlid |-> w, key |-> StatsKey(w)] : w \in Workers}
Keys == {r.key : r \in Requests}

windowVars == <<hidden, pageHidden, visibility>>
vars == <<fetchVars, traceVars, canvas, windowVars>>

Init ==
  /\ FetchInit
  /\ canvas \in Canvases
  /\ TracesInit(canvas)
  /\ hidden = FALSE
  /\ pageHidden = FALSE
  /\ visibility = "Visible"

-----------------------------------------------------------------------------
(* The window.  Only timers ask for the visibility, so that it changes     *)
(* here only where they have something to do.                              *)
HasTimers == canvas \cap Workers # {}

windowFocusChange(visible) ==
  visibility' = IF visible THEN "Visible" ELSE "Hidden"

OnFocus ==
  /\ HasTimers
  /\ ~hidden
  /\ windowFocusChange(TRUE)
  /\ UNCHANGED <<fetchVars, traceVars, canvas, hidden, pageHidden>>

OnBlur ==
  /\ HasTimers
  /\ windowFocusChange(FALSE)
  /\ UNCHANGED <<fetchVars, traceVars, canvas, hidden, pageHidden>>

(* The user goes to another tab, or comes back.                            *)
SwitchTab ==
  /\ HasTimers
  /\ hidden' = ~hidden
  /\ UNCHANGED <<fetchVars, traceVars, canvas, pageHidden, visibility>>

(* Every two seconds.  What is hidden is passed on as what is visible.     *)
VisibilityCheck ==
  /\ pageHidden # hidden
  /\ windowFocusChange(hidden)
  /\ pageHidden' = hidden
  /\ UNCHANGED <<fetchVars, traceVars, canvas, hidden>>

-----------------------------------------------------------------------------
(* RefreshAnalysis, every second while the page is visible: the stats of   *)
(* the worker that has the cursor.                                         *)
TimerFire ==
  /\ visibility = "Visible"
  /\ focused \in Workers \cap toplevels
  /\ Attempt(syncState, {[tlid |-> focused, key |-> StatsKey(focused)]})
  /\ UNCHANGED <<fetcherWorker, replies, faults, traceVars, canvas, windowVars>>

GetWorkerStats(r) ==
  /\ r.key.kind = "stats"
  /\ Answer(r, 1)
  /\ UNCHANGED <<faults, traceVars, canvas, windowVars>>

(* Mutant: the key is given back only for stats of what has the cursor.    *)
ReceiveStatsKeepsKey(a) ==
  /\ a.request.key.kind = "stats"
  /\ IsOk(a.result)
  /\ replies' = replies \ {a}
  /\ syncState' = IF focused = a.request.tlid THEN syncState \ {a.request.key} ELSE syncState
  /\ UNCHANGED <<fetcherWorker, asking, posted, faults, traceVars, canvas, windowVars>>

ReceiveStats(a) ==
  /\ a.request.key.kind = "stats"
  /\ IsOk(a.result)
  /\ replies' = replies \ {a}
  /\ syncState' = syncState \ {a.request.key}
  /\ UNCHANGED <<fetcherWorker, asking, posted, faults, traceVars, canvas, windowVars>>

-----------------------------------------------------------------------------
(* What the traces do leaves the window alone, and the canvas.             *)
Still == UNCHANGED <<canvas, windowVars>>

UserStep ==
  \/ \E tl \in Toplevels : Select(tl) /\ Still
  \/ \E tl \in Toplevels : \E id \in Belongs(tl) \cup {None} : ChangePage(tl, id) /\ Still
  \/ \E tl \in Toplevels : \E id \in Belongs(tl) : TraceClick(tl, id) /\ Still
  \/ \E tl \in Toplevels : \E id \in Belongs(tl) : TraceMouseEnter(tl, id) /\ Still
  \/ \E tl \in canvas : AddToplevel(tl) /\ Still
  \/ \E tl \in Toplevels : RemoveToplevel(tl) /\ Still
  \/ \E tl \in Toplevels : TriggerHandler(tl) /\ Still
  \/ Deselect /\ Still

ServerStep ==
  \/ OpsSaved /\ Still
  \/ \E t \in Traces : NewTrace(t) /\ Still
  \/ FetchAllTraces /\ Still
  \/ \E r \in posted : GetTraceData(r) /\ Still
  \/ \E r \in posted : GetWorkerStats(r)
  \/ \E r \in runs : RunFinishes(r) /\ Still

FetcherStep ==
  \/ FetcherLoads /\ UNCHANGED traceVars /\ Still
  \/ FetcherFails /\ UNCHANGED traceVars /\ Still
  \/ \E r \in asking : FetchRetry(r) /\ UNCHANGED traceVars /\ Still
  \/ \E r \in posted : AnswerFails(r) /\ UNCHANGED traceVars /\ Still

PageStep ==
  \/ \E p \in pushes : NewTracePush(p) /\ Still
  \/ FetchAllTracesCallback /\ Still
  \/ \E r \in runs : TriggerHandlerCallback(r) /\ Still
  \/ \E a \in replies : ReceiveTrace(a) /\ Still
  \/ \E a \in replies : ReceiveMissing(a) /\ Still
  \/ \E a \in replies : ReceiveFailure(a) /\ Still
  \/ \E a \in replies : ReceiveStats(a)

WindowStep == OnFocus \/ OnBlur \/ SwitchTab \/ VisibilityCheck \/ TimerFire

Next == UserStep \/ ServerStep \/ FetcherStep \/ PageStep \/ WindowStep

Spec == Init /\ [][Next]_vars

(* Timers fire, the server answers and saves, and messages between the     *)
(* page and its workers arrive; what the user does, what other people's    *)
(* requests do and what Pusher delivers is under no fairness.              *)
Fairness ==
  /\ WF_vars(FetcherLoads /\ UNCHANGED traceVars /\ Still)
  /\ WF_vars(OpsSaved /\ Still)
  /\ WF_vars(TimerFire)
  /\ \A r \in Requests :
       /\ WF_vars(FetchRetry(r) /\ UNCHANGED traceVars /\ Still)
       /\ WF_vars((GetTraceData(r) /\ Still) \/ GetWorkerStats(r))
       /\ WF_vars(\E a \in replies :
            /\ a.request = r
            /\ ((ReceiveTrace(a) \/ ReceiveMissing(a) \/ ReceiveFailure(a)) /\ Still)
               \/ ReceiveStats(a))

FairSpec == Spec /\ Fairness

-----------------------------------------------------------------------------
Results == {TooLarge, Missing, Failure} \cup 1..(1 + MaxGestures)

(* No list is longer than the limit and the selected trace, none has a     *)
(* trace twice, and data is a version, absent or too large.                *)
TracesTypeOK ==
  /\ \A tl \in Toplevels :
       /\ Len(traces[tl]) <= MaxTraces + 1
       /\ \A i, j \in DOMAIN traces[tl] : traces[tl][i].id = traces[tl][j].id => i = j
       /\ \A i \in DOMAIN traces[tl] :
            traces[tl][i] \in [id : IDs, data : {TooLarge, NoneYet} \cup 1..(1 + MaxGestures)]
  /\ tlTraceIDs \in [Toplevels -> IDs \cup {None}]
  /\ focused \in toplevels \cup {None}

(* The page keeps its types, and its lists of traces their shape.          *)
TypeOK ==
  /\ fetcherWorker \in {"loading", "ready", "failed"}
  /\ syncState \subseteq Keys
  /\ asking \subseteq Requests /\ posted \subseteq Requests
  /\ replies \subseteq [request : Requests, result : Results]
  /\ toplevels \subseteq canvas /\ saved \subseteq canvas
  /\ deleted \subseteq canvas \ toplevels
  /\ visibility \in {"Visible", "Hidden"}
  /\ TracesTypeOK

(* A key is in flight exactly while one request with it is: no data is     *)
(* asked for twice at a time, whoever wants it, and no key is lost, except *)
(* by the 404 for a toplevel that has been deleted.                        *)
KeysAreHeld ==
  \A key \in Keys :
    /\ Cardinality(HeldBy(key)) = IF key \in syncState \ orphans THEN 1 ELSE 0
    /\ key \in orphans => key \in syncState

Entries(tl) == ToSet(traces[tl])

Fresh(tl) ==
  \A e \in Entries(tl) :
    IsOk(e.data) /\ (\A r \in runs : r.id # e.id) => e.data = ver[tl][e.id]

(* When a run of a trace has come back, the page does not show data that   *)
(* was read before it.                                                     *)
FreshAfterRun == \A tl \in Toplevels : Fresh(tl)

(* What the code does ensure of that: the page shows no data from before a *)
(* run unless it was on its way when the run came back.                    *)
FreshUnlessRaced ==
  \A tl \in Toplevels : Fresh(tl) \/ \E e \in Entries(tl) : e.id \in raced

(* Data that the page has is dropped only for a run: no push, list, answer *)
(* or 404 takes it away from a trace that stays in the list.               *)
DataIsKept ==
  [][\A tl \in Toplevels : \A e \in Entries(tl) :
       IsOk(e.data) /\ runs' \subseteq runs /\ runs \subseteq runs' =>
         \A f \in Entries(tl)' : f.id = e.id => IsOk(f.data)]_vars

(* The trace that the user has selected stays in its list, however many    *)
(* newer ones are pushed.                                                  *)
SelectedStays ==
  [][\A tl \in Toplevels : \A e \in Entries(tl) :
       tlTraceIDs[tl] = e.id => \E f \in Entries(tl)' : f.id = e.id]_vars

Unseen ==
  /\ focused # None
  /\ analyzed
  /\ Data(GetTraces(focused), SelectedTraceID(focused)) = NoneYet

(* The trace of the toplevel that has the cursor is fetched, if nothing    *)
(* fails, no toplevel was deleted under a request, and the cursor was not  *)
(* brought by a link.                                                      *)
FocusedIsFetched == Unseen ~> (~Unseen \/ faults > 0 \/ orphans # {})

(* While the page is taken for visible and a worker has the cursor, its    *)
(* stats come again and again, whatever fetches fail.                      *)
StatsKeepComing ==
  \A w \in Workers :
    <>[](visibility = "Visible" /\ focused = w /\ fetcherWorker # "failed") =>
      []<><<StatsKey(w) \in syncState \ syncState'>>_vars

=============================================================================
