----------------------------- MODULE PageFetch -----------------------------
(***************************************************************************)
(* How the editor page asks the server for data in the background.         *)
(*                                                                         *)
(* Requests go to a web worker that appsupport.js makes when its script    *)
(* has arrived; until then each is asked again every 100 ms.  The worker   *)
(* has one promise per request, so answers come in any order.  Sync.ml     *)
(* keeps a set of keys: a second request with the key of one that is in    *)
(* flight is refused, silently.  The key of a trace does not name the      *)
(* toplevel that it is asked for.                                          *)
(***************************************************************************)
EXTENDS Integers, FiniteSets

CONSTANTS
  Toplevels,    \* tlids
  Traces,       \* ids of traces the server may store
  MaxFaults     \* bound on failed loads and failed requests

ASSUME FaultsAssumption == MaxFaults \in Nat

VARIABLES
  fetcherWorker,  \* window.fetcherWorker: "loading", "ready" or "failed"
  syncState,      \* keys in flight, as the model believes
  asking,         \* requests that wait for the worker
  posted,         \* requests the worker has, not yet read by the server
  replies,        \* answers on their way to the page
  faults

fetchVars == <<fetcherWorker, syncState, asking, posted, replies, faults>>

(* The default trace of a toplevel has an id made from its tlid.           *)
IDs == Traces \cup Toplevels

TraceKey(id) == [kind |-> "trace", id |-> id]
StatsKey(tl) == [kind |-> "stats", id |-> tl]

(* Results: a positive number is the version of the data that was read.    *)
TooLarge == -1
Missing == -2
Failure == -3

IsOk(result) == result > 0

Fault ==
  /\ faults < MaxFaults
  /\ faults' = faults + 1

FetchInit ==
  /\ fetcherWorker = "loading"
  /\ syncState = {}
  /\ asking = {}
  /\ posted = {}
  /\ replies = {}
  /\ faults = 0

-----------------------------------------------------------------------------
(* Dark.fetcher.fetch: to the worker, or to a timer if there is none yet.  *)
Fetch(wanted) ==
  IF fetcherWorker = "ready"
    THEN posted' = posted \cup wanted /\ UNCHANGED asking
    ELSE asking' = asking \cup wanted /\ UNCHANGED posted

(* Mutant: a key in flight refuses nothing.                                *)
AttemptAnyway(sync, wanted) ==
  /\ syncState' = sync \cup {r.key : r \in wanted}
  /\ Fetch(wanted)

(* Sync.attempt, from the keys sync that are in flight at that moment.     *)
Attempt(sync, wanted) ==
  LET free == {r \in wanted : r.key \notin sync} IN
    /\ syncState' = sync \cup {r.key : r \in free}
    /\ Fetch(free)

(* The script arrives, or does not: no worker, ever.                       *)
FetcherLoads ==
  /\ fetcherWorker = "loading"
  /\ fetcherWorker' = "ready"
  /\ UNCHANGED <<syncState, asking, posted, replies, faults>>

FetcherFails ==
  /\ fetcherWorker = "loading"
  /\ Fault
  /\ fetcherWorker' = "failed"
  /\ UNCHANGED <<syncState, asking, posted, replies>>

(* The timer of a request fires; without a worker it is set again.         *)
FetchRetry(r) ==
  /\ r \in asking
  /\ fetcherWorker = "ready"
  /\ asking' = asking \ {r}
  /\ posted' = posted \cup {r}
  /\ UNCHANGED <<fetcherWorker, syncState, replies, faults>>

(* The server reads what r asks for; the worker posts what it decoded.     *)
Answer(r, result) ==
  /\ r \in posted
  /\ posted' = posted \ {r}
  /\ replies' = replies \cup {[request |-> r, result |-> result]}
  /\ UNCHANGED <<fetcherWorker, syncState, asking>>

AnswerFails(r) ==
  /\ Fault
  /\ Answer(r, Failure)

-----------------------------------------------------------------------------
(* Each request that has no answer yet, with where it is.                  *)
Outstanding ==
  {<<r, "asking">> : r \in asking} \cup {<<r, "posted">> : r \in posted}
    \cup {<<a.request, a.result>> : a \in replies}

HeldBy(key) == {o \in Outstanding : o[1].key = key}

=============================================================================
