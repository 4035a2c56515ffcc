----------------------------- MODULE PageTraces -----------------------------
(***************************************************************************)
(* The traces of an editor page: which the page knows of each toplevel,    *)
(* which is selected, and how their data is fetched and fetched again.     *)
(*                                                                         *)
(* Ids of traces come with the list of all traces, with pushes of new      *)
(* ones, and with the answers to runs that the user starts, which change   *)
(* the data the server has stored of a trace.  The data is fetched when    *)
(* somebody looks at it.                                                   *)
(***************************************************************************)
EXTENDS PageFetch, Subsequence, SequencesExt

CONSTANTS
  Handles,      \* the handler of each stored trace
  Calls,        \* the functions each toplevel calls when it runs
  TooLargeIDs,  \* traces whose data overflows the stack of the decoder
  MaxTraces,    \* maxNonSelectedTraces, 10 in the code
  MaxGestures,  \* bound on what the user does
  None

ASSUME TracesAssumption ==
  /\ Handles \in [Traces -> Toplevels]
  /\ Calls \in [Toplevels -> SUBSET Toplevels]
  /\ TooLargeIDs \subseteq IDs
  /\ MaxTraces \in Nat \ {0} /\ MaxGestures \in Nat
  /\ None \notin IDs
  /\ Traces \cap Toplevels = {}

VARIABLES
  toplevels,    \* handlers and functions in the model of the page
  deleted,      \* those the user has deleted, whose tlids are not used again
  saved,        \* those the server has
  stored,       \* traces the server has stored, newest first
  called,       \* of each function, the traces that called it, latest first
  ver,          \* version of the data it has of each trace, by toplevel
  runs,         \* runs the user has started that have not come back
  allTraces,    \* the request for the list of all traces, with what was read
  pushes,       \* new_trace messages on their way
  traces,       \* m.traces; <<>> where it has no list
  tlTraceIDs,   \* the trace the user has selected, or None
  focused,      \* tlid of the cursor, or None
  gestures,
  analyzed,     \* analyzeFocused has run since the focus changed
  raced,        \* traces that a run overrode when older data was on its way
  orphans       \* keys whose request was not repeated

serverVars == <<deleted, saved, stored, called, ver>>
messageVars == <<runs, allTraces, pushes>>
viewVars == <<traces, tlTraceIDs, focused, analyzed>>
traceVars == <<toplevels, gestures, serverVars, messageVars, viewVars, raced, orphans>>

NoneYet == 0
NoTrace(id) == [id |-> id, data |-> NoneYet]
Functions == UNION {Calls[tl] : tl \in Toplevels}

(* What a run of tl touches: itself, and what it calls that is there.      *)
Touched(tl) == {tl} \cup (Calls[tl] \cap saved)

(* Runs of tl and of what calls it, with an event or the default input.    *)
Owner(id) == IF id \in Traces THEN Handles[id] ELSE id
Belongs(tl) == {id \in IDs : tl \in {Owner(id)} \cup Calls[Owner(id)]}

(* The initial load has arrived, with all functions and with handlers; the *)
(* cursor is where it was last time.                                       *)
TracesInit(canvas) ==
  /\ toplevels \in SUBSET canvas
  /\ canvas \cap Functions \subseteq toplevels
  /\ saved = toplevels
  /\ deleted = {}
  /\ stored = <<>>
  /\ called = [tl \in Toplevels |-> <<>>]
  /\ ver = [tl \in Toplevels |-> [id \in Belongs(tl) |-> 1]]
  /\ runs = {}
  /\ allTraces = [stage |-> "asked", ids |-> [tl \in Toplevels |-> <<>>]]
  /\ pushes = {}
  /\ traces = [tl \in Toplevels |-> <<>>]
  /\ tlTraceIDs = [tl \in Toplevels |-> None]
  /\ focused \in toplevels \cup {None}
  /\ gestures = 0
  /\ analyzed = FALSE
  /\ raced = {}
  /\ orphans = {}

-----------------------------------------------------------------------------
(* Analysis.ml *)

GetTraces(tl) == IF traces[tl] = <<>> THEN <<NoTrace(tl)>> ELSE traces[tl]

Data(list, id) ==
  LET known == Kept(list, {i \in DOMAIN list : list[i].id = id}) IN
    IF known = <<>> THEN NoneYet ELSE Head(known).data

SelectedTraceID(tl) ==
  IF tlTraceIDs[tl] # None THEN tlTraceIDs[tl] ELSE Head(GetTraces(tl)).id

(* requestTrace, unless the toplevel is gone.                              *)
TraceRequest(tl, id) ==
  IF tl \in toplevels THEN {[tlid |-> tl, key |-> TraceKey(id)]} ELSE {}

(* What analyzeFocused asks for.  Of data that is there it asks for an     *)
(* analysis, see AnalysisQueue; data that is too large it leaves alone.    *)
Unfetched(tl) ==
  IF tl # None /\ Data(GetTraces(tl), SelectedTraceID(tl)) = NoneYet
    THEN TraceRequest(tl, SelectedTraceID(tl))
    ELSE {}

AnalyzeFocused(sync) ==
  /\ Attempt(sync, Unfetched(focused)')
  /\ analyzed' = TRUE

Newest(list) == SubSeq(list, 1, IF Len(list) < MaxTraces THEN Len(list) ELSE MaxTraces)

(* Mutant: the limit counts the selected trace as any other.               *)
WithinLimitAll(list, selected) == Newest(list)

(* Mutant: one trace more than the limit.                                  *)
WithinLimitOneMore(list, selected) ==
  LET Others(i) == {j \in 1..i : list[j].id # selected}
  IN  Kept(list, {i \in DOMAIN list :
                    list[i].id = selected \/ Cardinality(Others(i)) <= MaxTraces + 1})

(* The first MaxTraces of a list, and the selected one.                    *)
WithinLimit(list, selected) ==
  LET Others(i) == {j \in 1..i : list[j].id # selected}
  IN  Kept(list, {i \in DOMAIN list :
                    list[i].id = selected \/ Cardinality(Others(i)) <= MaxTraces})

(* Mutant: whatever arrives replaces what was there.                       *)
UpdatedAlways(old, new) == new

Updated(old, new) ==
  IF IsOk(new.data) \/ (~IsOk(old.data) /\ old.data # new.data) THEN new ELSE old

(* Mutant: a run leaves the data that is there.                            *)
OverriddenKeeps(old, new) == old

Overridden(old, new) == NoTrace(new.id)

OnConflict(override, old, new) ==
  IF override THEN Overridden(old, new) ELSE Updated(old, new)

(* A known trace stays where it is, a new one goes in front.               *)
Place(override, e, list) ==
  IF \E i \in DOMAIN list : list[i].id = e.id
    THEN [i \in DOMAIN list |-> IF list[i].id = e.id THEN OnConflict(override, list[i], e)
                               ELSE list[i]]
    ELSE <<e>> \o list

(* The new traces of one toplevel, from the last.                          *)
Placed(override, new, old) ==
  LET placed[k \in 0..Len(new)] ==
        IF k = 0 THEN old ELSE Place(override, new[Len(new) + 1 - k], placed[k - 1])
  IN  placed[Len(new)]

(* mergeTraces *)
Merged(override, new) ==
  [tl \in Toplevels |->
     IF new[tl] = <<>> THEN traces[tl]
     ELSE IF traces[tl] = <<>> THEN new[tl]
     ELSE WithinLimit(Placed(override, new[tl], traces[tl]), tlTraceIDs[tl])]

UpdateTraces(new) == traces' = Merged(FALSE, new)
OverrideTraces(new) == traces' = Merged(TRUE, new)

(* The same trace for each of some toplevels.                              *)
ForEach(tls, e) == [tl \in Toplevels |-> IF tl \in tls THEN <<e>> ELSE <<>>]

-----------------------------------------------------------------------------
(* What the user does. *)

Gesture ==
  /\ gestures < MaxGestures
  /\ gestures' = gestures + 1

(* Select: the cursor goes to tl.                                          *)
Select(tl) ==
  /\ Gesture
  /\ tl \in toplevels
  /\ focused' = tl
  /\ UNCHANGED <<toplevels, traces, tlTraceIDs>>
  /\ AnalyzeFocused(syncState)
  /\ UNCHANGED <<fetcherWorker, replies, faults>>
  /\ UNCHANGED <<serverVars, messageVars, raced, orphans>>

Deselect ==
  /\ Gesture
  /\ focused # None
  /\ focused' = None
  /\ analyzed' = TRUE
  /\ UNCHANGED fetchVars
  /\ UNCHANGED <<toplevels, serverVars, messageVars, traces, tlTraceIDs, raced, orphans>>

(* A link to tl, with the trace id or None.  updatePossibleTrace analyses  *)
(* what was focused before; then setPage moves the cursor.                 *)
ChangePage(tl, id) ==
  /\ Gesture
  /\ tl \in toplevels
  /\ UNCHANGED toplevels
  /\ IF id = None
       THEN UNCHANGED <<traces, tlTraceIDs, syncState, asking, posted>>
       ELSE /\ UpdateTraces(ForEach({tl}, NoTrace(id)))
            /\ tlTraceIDs' = [tlTraceIDs EXCEPT ![tl] = id]
            /\ \E before \in {focused} : Attempt(syncState, Unfetched(before)')
  /\ focused' = tl
  /\ analyzed' = (focused = tl /\ (analyzed \/ id # None))
  /\ UNCHANGED <<fetcherWorker, replies, faults>>
  /\ UNCHANGED <<serverVars, messageVars, raced, orphans>>

(* A click on a trace selects it; with no cursor, tl is selected first.    *)
TraceClick(tl, id) ==
  /\ Gesture
  /\ tl \in toplevels
  /\ \E i \in DOMAIN GetTraces(tl) : GetTraces(tl)[i].id = id
  /\ tlTraceIDs' = [tlTraceIDs EXCEPT ![tl] = id]
  /\ focused' = IF focused = None THEN tl ELSE focused
  /\ UNCHANGED <<toplevels, traces>>
  /\ LET selected == IF focused = None THEN Unfetched(tl) ELSE {}
     IN Attempt(syncState, selected \cup Unfetched(focused)')
  /\ analyzed' = TRUE
  /\ UNCHANGED <<fetcherWorker, replies, faults>>
  /\ UNCHANGED <<serverVars, messageVars, raced, orphans>>

(* The mouse over a trace fetches it, if it is not there.                  *)
TraceMouseEnter(tl, id) ==
  /\ Gesture
  /\ \E i \in DOMAIN GetTraces(tl) : GetTraces(tl)[i].id = id
  /\ ~IsOk(Data(GetTraces(tl), id))
  /\ Attempt(syncState, TraceRequest(tl, id))
  /\ UNCHANGED <<fetcherWorker, replies, faults>>
  /\ UNCHANGED <<toplevels, serverVars, messageVars, viewVars, raced, orphans>>

(* A handler is made and entered, its ops are on their way.  A toplevel    *)
(* that is restored comes back, and gets the cursor, with the answer of    *)
(* the server, and analyzeFocused does not run: that is not modelled.      *)
AddToplevel(tl) ==
  /\ Gesture
  /\ tl \notin toplevels \cup deleted \cup Functions
  /\ toplevels' = toplevels \cup {tl}
  /\ focused' = tl
  /\ UNCHANGED <<traces, tlTraceIDs>>
  /\ AnalyzeFocused(syncState)
  /\ UNCHANGED <<fetcherWorker, replies, faults>>
  /\ UNCHANGED <<serverVars, messageVars, raced, orphans>>

(* A handler is deleted, and is gone from the page at once.  A function    *)
(* goes with the answer of the server, and keeps the cursor till then:     *)
(* that is not modelled.                                                   *)
RemoveToplevel(tl) ==
  /\ Gesture
  /\ tl \in toplevels \ Functions
  /\ toplevels' = toplevels \ {tl}
  /\ deleted' = deleted \cup {tl}
  /\ focused' = None
  /\ analyzed' = TRUE
  /\ UNCHANGED fetchVars
  /\ UNCHANGED <<saved, stored, called, ver, messageVars, traces, tlTraceIDs, raced, orphans>>

(* Replays the handler on the selected trace, which must be there.         *)
TriggerHandler(tl) ==
  /\ Gesture
  /\ tl \in toplevels \ Functions
  /\ IsOk(Data(GetTraces(tl), SelectedTraceID(tl)))
  /\ runs' = runs \cup {[n |-> gestures', tlid |-> tl, id |-> SelectedTraceID(tl),
                           done |-> FALSE, touched |-> {}]}
  /\ UNCHANGED fetchVars
  /\ UNCHANGED <<toplevels, serverVars, allTraces, pushes, viewVars, raced, orphans>>

-----------------------------------------------------------------------------
(* What the server does. *)

(* A run of tl stores the arguments of the functions it calls.             *)
StoresArguments(tl, id) ==
  called' = [g \in Toplevels |->
    IF g \in Touched(tl) \ {tl} THEN <<id>> \o Kept(called[g], {i \in DOMAIN called[g] : called[g][i] # id})
    ELSE called[g]]

(* The ops that the page has sent are saved.                               *)
OpsSaved ==
  /\ saved # toplevels
  /\ saved' = toplevels
  /\ UNCHANGED fetchVars
  /\ UNCHANGED <<toplevels, gestures, deleted, stored, called, ver, messageVars, viewVars, raced, orphans>>

(* An event runs its handler; the trace is stored, and announced by a push *)
(* that nobody repeats: it arrives late, or never.                         *)
NewTrace(t) ==
  /\ t \notin ToSet(stored)
  /\ Handles[t] \in saved
  /\ stored' = <<t>> \o stored
  /\ StoresArguments(Handles[t], t)
  /\ pushes' = pushes \cup {[id |-> t, tlids |-> Touched(Handles[t])]}
  /\ UNCHANGED fetchVars
  /\ UNCHANGED <<toplevels, gestures, deleted, saved, ver, runs, allTraces, viewVars, raced, orphans>>

(* Events of a handler, or else its default trace; calls of a function.    *)
ListOf(tl) ==
  LET ids == IF tl \in Functions THEN called[tl]
             ELSE Kept(stored, {i \in DOMAIN stored : Handles[stored[i]] = tl})
  IN IF tl \notin saved THEN <<>>
     ELSE IF ids = <<>> /\ tl \notin Functions THEN <<tl>>
     ELSE Newest(ids)

FetchAllTraces ==
  /\ allTraces.stage = "asked"
  /\ allTraces' = [stage |-> "read", ids |-> [tl \in Toplevels |-> ListOf(tl)]]
  /\ UNCHANGED fetchVars
  /\ UNCHANGED <<toplevels, gestures, serverVars, runs, pushes, viewVars, raced, orphans>>

(* No such toplevel, yet or any more: 404.                                 *)
GetTraceData(r) ==
  /\ r.key.kind = "trace"
  /\ Answer(r, IF r.tlid \notin saved THEN Missing
               ELSE IF r.key.id \in TooLargeIDs THEN TooLarge
               ELSE ver[r.tlid][r.key.id])
  /\ UNCHANGED <<faults, traceVars>>

(* The run has stored other results of functions for its trace.            *)
RunFinishes(r) ==
  /\ ~r.done
  /\ r.tlid \in saved
  /\ ver' = [tl \in Toplevels |->
       IF tl \in Touched(r.tlid) THEN [ver[tl] EXCEPT ![r.id] = @ + 1] ELSE ver[tl]]
  /\ StoresArguments(r.tlid, r.id)
  /\ runs' = (runs \ {r}) \cup {[r EXCEPT !.done = TRUE, !.touched = Touched(r.tlid)]}
  /\ UNCHANGED fetchVars
  /\ UNCHANGED <<toplevels, gestures, deleted, saved, stored, allTraces, pushes, viewVars, raced, orphans>>

-----------------------------------------------------------------------------
(* What reaches the page. *)

NewTracePush(p) ==
  /\ pushes' = pushes \ {p}
  /\ UpdateTraces(ForEach(p.tlids, NoTrace(p.id)))
  /\ UNCHANGED <<toplevels, tlTraceIDs, focused>>
  /\ AnalyzeFocused(syncState)
  /\ UNCHANGED <<fetcherWorker, replies, faults>>
  /\ UNCHANGED <<gestures, serverVars, runs, allTraces, raced, orphans>>

FetchAllTracesCallback ==
  /\ allTraces.stage = "read"
  /\ allTraces' = [allTraces EXCEPT !.stage = "done"]
  /\ UpdateTraces([tl \in Toplevels |->
       [i \in DOMAIN allTraces.ids[tl] |-> NoTrace(allTraces.ids[tl][i])]])
  /\ UNCHANGED <<toplevels, tlTraceIDs, focused>>
  /\ AnalyzeFocused(syncState)
  /\ UNCHANGED <<fetcherWorker, replies, faults>>
  /\ UNCHANGED <<gestures, serverVars, runs, pushes, raced, orphans>>

(* Data of the trace is on its way that was read before the run.           *)
OlderOnItsWay(id) ==
  \E a \in replies : a.request.key = TraceKey(id) /\ IsOk(a.result) /\ a.result < ver[a.request.tlid][id]

(* The traces of what the run touched are blown away and fetched again.    *)
TriggerHandlerCallback(r) ==
  /\ r.done
  /\ runs' = runs \ {r}
  /\ OverrideTraces(ForEach(r.touched, NoTrace(r.id)))
  /\ UNCHANGED <<toplevels, tlTraceIDs, focused>>
  /\ AnalyzeFocused(syncState)
  /\ raced' = raced \cup {id \in {r.id} : OlderOnItsWay(id)}
  /\ UNCHANGED <<fetcherWorker, replies, faults>>
  /\ UNCHANGED <<gestures, serverVars, allTraces, pushes, orphans>>

(* Mutant: the data arrives, and nothing looks at what has the cursor.     *)
ReceiveTraceOnly(a) ==
  /\ a.request.key.kind = "trace"
  /\ IsOk(a.result) \/ a.result = TooLarge
  /\ replies' = replies \ {a}
  /\ UpdateTraces(ForEach({a.request.tlid}, [id |-> a.request.key.id, data |-> a.result]))
  /\ syncState' = syncState \ {a.request.key}
  /\ UNCHANGED <<toplevels, tlTraceIDs, focused, analyzed>>
  /\ UNCHANGED <<fetcherWorker, asking, posted, faults>>
  /\ UNCHANGED <<gestures, serverVars, messageVars, raced, orphans>>

(* The data, or the news that it is too large to decode.                   *)
ReceiveTrace(a) ==
  /\ a.request.key.kind = "trace"
  /\ IsOk(a.result) \/ a.result = TooLarge
  /\ replies' = replies \ {a}
  /\ UpdateTraces(ForEach({a.request.tlid}, [id |-> a.request.key.id, data |-> a.result]))
  /\ UNCHANGED <<toplevels, tlTraceIDs, focused>>
  /\ AnalyzeFocused(syncState \ {a.request.key})
  /\ UNCHANGED <<fetcherWorker, faults>>
  /\ UNCHANGED <<gestures, serverVars, messageVars, raced, orphans>>

(* 404: asked again at once, by force.  If the toplevel is gone it is not, *)
(* and the key is never given back.                                        *)
ReceiveMissing(a) ==
  /\ a.request.key.kind = "trace"
  /\ a.result = Missing
  /\ replies' = replies \ {a}
  /\ Fetch(TraceRequest(a.request.tlid, a.request.key.id))
  /\ orphans' = orphans \cup {key \in {a.request.key} : a.request.tlid \notin toplevels}
  /\ UNCHANGED <<fetcherWorker, syncState, faults>>
  /\ UNCHANGED <<toplevels, gestures, serverVars, messageVars, viewVars, raced>>

(* Any other error: the user is told, nothing is asked again.              *)
ReceiveFailure(a) ==
  /\ a.result = Failure
  /\ replies' = replies \ {a}
  /\ syncState' = syncState \ {a.request.key}
  /\ UNCHANGED <<fetcherWorker, asking, posted, faults, traceVars>>

=============================================================================
