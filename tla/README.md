# Dark: a TLA+ verification of its background machinery and its editor page

Dark is a language, a browser editor and the infrastructure that runs what is
written in it. This directory holds TLA+ specifications of the parts of it in
which things happen at the same time: several processes on one database, and a
page in a browser with its workers, its timers and the answers of servers. With
them come the TLC models that check them and theorems about them checked by
TLAPS. The OCaml backend (`backend/`), the Rust services (`containers/`) and the
OCaml and JavaScript client (`client/`) are the production system and are what is
modelled; the F# backend (`fsharp-backend/`) is a port in progress of the same
protocols, of which the part that runs in the browser (`src/Wasm`) is modelled.

## 1. Inventory

### Parts, their state and their operations

| part | where | state it keeps | operations |
|---|---|---|---|
| event queue | `backend/libbackend/event_queue.ml`, `libevent.ml` | tables `events`, `scheduling_rules` | enqueue, dequeue, put_back, add/remove rule, worker schedules |
| queue-scheduler | `containers/queue-scheduler` | none of its own | one UPDATE a second: `new` to `scheduled` |
| queue-worker | `backend/libbackend/queue_worker.ml`, `bin/queue_worker.ml` | its transaction | dequeue_and_process |
| cron checker | `backend/libbackend/cron.ml`, `bin/cron_checker.ml` | table `cron_records` | every second: which crons are due, enqueue, record |
| canvas and op lists | `canvas.ml`, `serialize.ml`, `libserialize/op.ml`, `undo.ml`, `api.ml` | `toplevel_oplists`, `op_ctrs` | add_op, undo/redo, save, load |
| editor client: ops | `client/src/app/Main.ml`, `core/Encoders.ml` | op counter, undo state | add_op calls, undo, redo |
| editor page: traces | `client/src/analysis`, `client/workers/Fetcher.ml`, `client/src/appsupport.js` | lists of traces, keys in flight, selected traces, visibility | fetch a trace, merge lists, pushes and answers, poll a worker's stats |
| analysis queue | `client/src/appsupport.js`, `client/workers/AnalysisWrapper.ml` | `busy`, `next` | request an analysis, answer |
| loading of the F# worker | `fsharp-backend/src/Wasm/static/BlazorWorker.js` | run dependencies, the handler of messages | load .NET and its assemblies, greet |
| base64 and digests | `backend/libtarget.js/libtarget.js` | none | bytes to text and back |
| webserver | `webserver.ml` | sessions, canvases | user HTTP handlers, admin API, pushes |
| stroller | `containers/stroller`, `libbackend/stroller.ml` | two channels, a shutdown flag | accept, push to pusher.com, track to Heap, shut down |
| traces | `stored_event.ml`, `stored_function_result.ml`, `stored_function_arguments.ml`, `garbage_collection.ml` | `stored_events_v2`, `function_results_v3`, `function_arguments` | store, load, trim |
| user datastores | `user_db.ml`, `sql_compiler.ml`, `libdb*.ml` | `user_data` | set, get, query, migrations of a schema |
| packages and cloning | `package_manager.ml`, `canvas_clone.ml` | `packages_v0` | publish a version, clone a canvas |
| accounts, sessions | `account.ml`, `auth.ml`, `authorization.ml` | `accounts`, `session`, `access` | sign up, log in, permissions |
| static assets | `static_assets.ml` | `static_asset_deploys`, buckets | deploy, list, delete |
| interpreter | `backend/libexecution` | none | evaluate expressions, types, serialisation of values |
| schema migrations | `libbackend/migrations.ml`, `backend/migrations` | `system_migrations` | run once, in order |
| deployment | `services/`, `scripts/`, images under `containers/` | Kubernetes | replicas, health checks, roll-outs |

### How they interact

Everything meets in one Postgres database. A user's request or a cron makes an
*event* (`emit`, cron checker); the scheduler marks it `scheduled` unless a rule
forbids it; any of 60 workers takes it, loads the canvas from the rendered op
lists, runs the handler and writes the outcome in the transaction in which it
took the event. A browser's edits go to any of 36 editor servers, which rewrite
the op lists of the toplevels concerned and hand the request to the stroller of
their pod, for pusher.com to bring to the other browsers. Handlers read op lists
only in their rendered form (`rendered_oplist_cache`). Traces are stored by
whoever runs a handler and trimmed by the garbage collector.

A page shows a program with the values it had in a *trace*. It learns of traces
from one list after it has loaded, from pushes, and from the answers to runs that
the user starts; it fetches the data of the one it shows through a web worker,
one request per trace at a time; and it has the program analysed on that data by
another worker, of which there are two kinds, an OCaml one and one that runs
.NET. All of these come and go through `appsupport.js`, which makes the workers
from scripts it fetches and has timers for what is asked before they are there.

### What is hard, and what makes each part correct

- *Event queue, worker, scheduler.* Row locks with `SKIP LOCKED`, statement
  snapshots under READ COMMITTED, one transaction around code of users that may
  fail or issue SQL itself, processes that die at any point, rules that are
  inserted while events are in flight. Correct means: an event is in one worker
  at a time; attempts are counted exactly and bounded; what an attempt emits
  exists only if the attempt committed; a delay is not cut short; a paused
  handler goes and stays quiet; every event ends.
- *Cron checker.* A record written after the enqueue, in no transaction with it;
  two checkers during a roll-out. Correct means: no cron early, extra runs only
  as many as there were overlaps and failures, every due cron gets its turn.
- *Op lists.* Requests overtake each other on their way to different servers; a
  handler made of five statements and no transaction; op lists that hold undos
  and are replayed together with others. Correct means: the order of a browser's
  edits survives, what is stored is not lost, the rendered form is what the list
  gives, undo and redo are a timeline, names of datastores are unique.
- *Editor client: ops.* Messages from Pusher in any order, own edits shown before
  they are confirmed. Correct means: what is shown converges to what is stored.
- *Editor page.* Answers in any order, keys that must be given back whatever
  comes, a list that arrives after what it lists was fetched, runs that change
  what is being fetched, a toplevel deleted while its trace is on the way.
  Correct means: one request per key, no data lost and none from before a run,
  what the user looks at is fetched and stays, polling goes on.
- *Analysis queue and its loading.* A queue of one slot on each side of a message
  channel, timers that overtake each other, assemblies that do not load. Correct
  means: one analysis at a time, the newest program is analysed last, nothing is
  sent to a worker that does not listen, loading ends.
- *Base64.* Padding that callers strip, tables with holes, bit operations that turn
  undefined into 0. Correct means: RFC 4648, and a round trip at every length.
- *Stroller.* A shutdown that races accepted requests. Correct means: what was
  accepted before the shutdown is pushed, once, in order, and the process ends.
- *Traces.* Deletion of all but the newest while others are stored and read.
- *Packages.* A version read before the transaction that publishes the next.
- *User datastores, accounts, assets, interpreter.* Sequential, or single SQL
  statements; what makes them correct is a matter of tests and types.

`PROJECT.json` lists the hazards at the lines where they bite, with the property
that guards each, or the reason why none does yet.

## 2. Modules

| module | what it is |
|---|---|
| `EventLifecycle` | abstract: the life cycle of one event, as in `docs/production/events.puml` |
| `EventQueue` | events, rules, scheduler, workers and API callers |
| `EventQueueProofs` | theorems about `EventQueue` |
| `MCEventQueue` | symmetries for TLC; three configurations |
| `CronChecker` | checkers, crons, the clock, `cron_records` |
| `CronCheckerProofs` | theorems about `CronChecker`, with one checker and with any number |
| `MCCronChecker` | intervals and symmetry for TLC |
| `Subsequence` | pure: `List.filter` |
| `SubsequenceProofs` | induction and recursion for the other proofs, and lemmas about `Subsequence` |
| `Undo` | pure: `Undo.preprocess`, `Canvas.apply_op`; extends `Subsequence` |
| `UndoProofs` | lemmas about `Undo`: lists of ops apart and together, and as timelines |
| `Timeline` | abstract: past, present and future of each toplevel |
| `OpLog` | browsers, servers, `op_ctrs`, `toplevel_oplists`; extends `Undo` |
| `OpLogProofs` | theorems about `OpLog`, with any servers and with one, and that it implements `Timeline` |
| `MCOpLog` | symmetry for TLC; three configurations |
| `LatestWins` | abstract: a queue that drops all but the newest, and never reorders |
| `AnalysisBoot` | how either analysis worker is loaded and starts to listen |
| `AnalysisQueue` | requests, timers, the queue of one, the worker; extends `AnalysisBoot` |
| `AnalysisQueueProofs` | theorems about `AnalysisQueue` |
| `MCAnalysisQueue` | two configurations |
| `Base64` | the loops of `libtarget.js`, and RFC 4648 to compare with |
| `Base64Proofs` | theorems about `Base64` |
| `MCBase64` | the strings for TLC |
| `PageFetch` | the fetch worker, its retries and the keys in flight |
| `PageTraces` | lists of traces, what changes them and what the server has; extends `PageFetch`, `Subsequence` |
| `EditorPage` | composes both with the window and the polling of stats |
| `EditorPageProofs` | theorems about `EditorPage`: keys, types, data, the selected trace |
| `MCEditorPage` | a canvas with a handler and a function, and one with a worker; two configurations |

### EventQueue

State: the columns of `events` that matter (`status`, `retries`, `name`,
`delayed` for a `delay_until` in the future), `rules` for `scheduling_rules`,
`deployed` for the handlers that exist, `snap` for the ids that the UPDATE of a
running tick has found, and for each worker its place in `dequeue_and_process`,
the row it has locked and the events it has inserted but not committed. Callers
are API servers in `add_scheduling_rule`; `held` is what their UPDATE has locked.

An action is a step between two points at which another process can observe or
disturb: `Dequeue` is the SELECT .. FOR UPDATE SKIP LOCKED; `LoadCanvas`,
`HandlerMissing`, `HandlerRaises`, `StatementFails`, `Emit` and `Finish` are the
exits and effects of the handler's run, each with the put_back and COMMIT that
follow; `WorkerCrash` is a rollback by disconnection. `TickStart` and
`TickCommit` are the scheduler's UPDATE: Postgres evaluates the subquery on
`scheduling_rules` in the snapshot of the statement, as `TickStart` does, and
checks `status` again on the newest version of a row it waited for. `TickCommit`
has no such check, because it would never fail: a row that the snapshot has found
is `new` until the tick schedules it, which `SnapshotIsNew` says of the model.
`AddRule`, `UnscheduleScan`, `UnscheduleRow`, `UnscheduleCommit` are the two
statements of `add_scheduling_rule`, the second row by row, because it has to
wait for the rows that workers have locked. `ApiDies` stops it between the two.

What a handler computes is a choice: it returns, raises, emits, or fails an SQL
statement. Two sets of ids fix what no step changes: `Unreadable` values and
events with `FailingSql`. `tries` and `emitter` are history variables.

`EventQueue` is shown to implement `EventLifecycle` for every event.

### CronChecker

State: the crons there are (`active`) and their intervals now (`interval`), when
each was last recorded (as an age), and for each checker which crons of its tick
are left, with the intervals they had when it fetched them. The developer deletes
a cron or brings it back (`Edit`), or gives it another interval (`Reschedule`);
a checker goes by those it has in `left` until its tick is over. `Check`,
`Enqueue` and `Record` are steps of their own because each is a statement of its
own; `TickAborts` is the exception that ends the tick, `FetchCrons` the SELECT
at its start; a checker may die anywhere. Intervals are small numbers of clock
steps or `Unparsable`. `burst`, `since` and `lost` are history: the enqueues
since the cron last came to be due or was given another interval, the time since
the last one, and whether its record was lost. `NoEarlyRun`, which is about one
checker, speaks of the interval that the checker fetched and exempts the crons
in `lost`: a crash between the enqueue and the record is followed by a second
enqueue at once, and `BurstBound` is what limits those.

### OpLog, Undo and Timeline

`Undo` is a translation of `preprocess`: `PairOff` is the body of its first fold
(from the back), `DropUndone` that of its second, `Applied` is `apply_op` on what
is shown of one toplevel. An op's code is represented by the request that brought
it, so that the code of two requests is never confused; the columns of a
datastore are part of its code. The folds are recursive functions over
the length of what has been taken, and `List.filter` is `Kept` of `Subsequence`,
which names the indices it keeps: the provers can open neither `SelectSeq` nor a
fold that takes an operator. `Once` makes TLC evaluate an accumulator once; by
name, the folds would take exponential time.

`OpLog`: a `Send` is a request of a browser with its next counter, encoded as the
client does it, with a savepoint for each op, all of them in front, except for a
lone undo or redo. What a user can do are the `Edits`, each the lists of ops that
the editor makes of it: code (`CodeEdits`: one op, or several that a refactoring
sends together, also of the same handler), a new datastore with its first column
(`Creations`), a new name for one together with the handlers that mention it
(`Renames`), columns and types (`ColumnEdits`: a type given to the last column
comes with a new blank one, in one request), deletion, undo and redo. A request
can thus have two savepoints and two edits of one toplevel, stored as
save, save, op, op. Requests are a set: they arrive in any order at any idle server. Then, one action
each, the upsert (`Receive`), the select with the filter (`CheckLatest`), the
load with replay and verification (`Load`, with `Accept` and `Reject`), and one
`Save` for each toplevel of the request, in any order. A server may die between
any two. The rows are loaded in any order, as the SELECT has no ORDER BY.

`Timeline` says what undo and redo promise; `OpLog` maps to it by what the list
shows before each savepoint that is left of it (the past) and with one, two, ..
redos appended (the future). An edit puts what was there on the past once for
each savepoint that the request has for the toplevel. So the first undo after an
edit with two takes back all of it, and the second shows the same again: that is
what the code does to a user, and `Timeline` says it.

### AnalysisBoot, AnalysisQueue and LatestWins

`useBlazor` says which engine the page has. `AnalysisBoot` is the way to a
worker: for the OCaml one two scripts (`ScriptArrives`, `ScriptFails`), for the
F# one the manifest, the assemblies one by one, .NET's `postRun` and the first
message, which sets `initialized`. An assembly that does not load stops being
waited for and is kept in `missing`: `postRun` goes on without it, or throws if
what it needs is not there. Without a manifest or `dotnet.js` the load ends at
once. `AnalysisQueue` has a request of the page (`Request`), the timers of those
that came too early (`Retry`), the slots `busy` and `next`, and the two channels
as sequences. The OCaml queue reads `window.Dark.analysis.busy`, a field nothing
sets, and is modelled as it is. A program is the number of its request.
`AnswerUndecodable` and `WorkThrows` are the ways an answer gets lost. Both
queues are shown to implement `LatestWins`.

### Base64

A state is one call: bytes being written three at a time or text being read four
characters at a time, by index as the code does. Reading past the end gives
undefined, which the shifts turn to 0; both are in the model (`ByteAt`,
`SextetAt`). The digests are the same loop over what SHA returns, with `+` and `/`
replaced. `TextIsRfc4648` and `BytesAreRfc4648` compare with definitions by whole
groups of the RFC. The second speaks of texts padded as the RFC has it or less
(`WellPadded`): padding that is not at the end, or is more than the last group has
room for, passes the regular expression of the code but has no meaning in the RFC.

### PageFetch, PageTraces and EditorPage

`PageFetch`: `syncState` is the set of keys as in `Sync.ml`; a request is in
`asking` while it waits in a timer for the worker, in `posted` until the server has
read what it asks for, and its answer in `replies` until the page gets to it. All
three are sets, as the worker has a promise for each request.

`PageTraces`: `traces` and `tlTraceIDs` are those of the model, `Merged` is
`mergeTraces` with its two passes (`Placed` puts each new trace where the old
one is, or in front; `WithinLimit` keeps the first of them and the selected
one), `Unfetched` is what `analyzeFocused` asks for. An action of the user or an
arrival is a whole `update`: the change of the lists, then `analyzeFocused` on
the result, then what it asks of `Attempt`. Of data the model keeps a version,
raised by each run that touches the toplevel; `TooLarge` and nothing (`NoneYet`)
are the errors of the code. On the server, `stored` are events, `called` the
arguments of functions, `saved` the toplevels whose ops have arrived. The page
comes up with all functions and with any of the handlers; the user makes those
that are left (`AddToplevel`, the Enter path) and deletes handlers
(`RemoveToplevel`), whose tlids are not used again (`deleted`). Two ways in which
toplevels come and go are not modelled. A deleted toplevel that is restored
(`Main.ml:1326-1328`) comes back with the answer of the server, which then moves
the cursor (`Main.ml:289-304`, `185-206`) with no `analyzeFocused` after it; and a
function that is deleted (`Main.ml:1323-1325`) goes with the answer of the server
and keeps the cursor until then. `analyzed`
says that `analyzeFocused` has run since the cursor moved: a link (`SetPage`)
moves it after. `raced` and `orphans` are history: traces that a run blew away
while older data was on its way, and keys whose request was dropped when its
toplevel was deleted.

`EditorPage` adds the window: `hidden` is what the browser says, `pageHidden` what
`visibilityCheck` saw last, `visibility` what the model has.

## 3. Runs

All passing runs terminate with the bounds given, on two TLC workers.

| run | question | bounds |
|---|---|---|
| `workers` | exclusive rows, counted attempts, atomic emits, kept delays, bookkeeping | 2 workers, 4 events (one unreadable, one with failing SQL), 1 handler, 1 fault |
| `pausing` | types, exclusive rows, attempts, quiet handlers, life cycle; every event ends, a handler that stays paused goes quiet | 1 worker, 2 API callers, 2 events, 1 fault, fair |
| `sql_failure` | *violated*: a failing event ends as an error | 1 worker, 1 event, fair |
| `cron` | types, bounded bursts, every due cron runs | 2 checkers, 2 crons, intervals of 1 or unparsable, one cron that is deleted, restored and rescheduled, 1 fault, fair |
| `oplog_undo` | timeline of undo and redo, lists only grow, order kept | 1 browser, 1 server, a handler and a datastore, 4 requests of every kind of edit but a new name |
| `oplog_servers` | types, rendered form, whole edits, judged in order | 2 servers, a handler, 2 datastores and 2 names for them, 3 requests of every kind of edit with up to 2 ops besides their savepoints, 1 crash |
| `oplog_race` | *violated*: order kept with two servers | 1 browser, 2 requests, 2 servers |
| `analysis` | types, one at a time, nothing dropped, order, the newest is answered, loading ends, refinement | both engines, see the .cfg |
| `analysis_busy` | *violated*: the OCaml worker has one analysis at a time | the same |
| `base64` | types, round trip, RFC 4648 both ways | all strings up to the length in `MCBase64` |
| `page` | types, keys, fresh and kept data, the selected trace stays, what has the cursor is fetched, polling goes on | a handler with a function, or a worker; 1 pushed trace besides the default ones, lists of 1, 2 gestures, 1 failure, fair |
| `trace_stale` | *violated*: no data from before a run | the same |

Why the bounds are enough: the limit on retries is the code's (`RetryLimit`), so
an event can use up all its attempts; two workers are what it takes to contend
for a row, and a third would only find more rows locked; four events are one for
each kind of end and an emitted one. Two callers can hold rows of one another's
handler, so that they deadlock. Two checkers and a failure make a burst larger
than each alone, and an interval that changes between the fetch and the check of
either is all that `Reschedule` can do to them. One browser is enough for
`OpLog`, since the counters of browsers are independent and any two requests
already meet on two servers; four requests are set, undo, redo and one more that
comes late or is for the other toplevel; two ops of one toplevel in a request
are the two ops on columns of the datastore. With two servers a request for two
toplevels is a new name and a handler that mentions it, and requests that make
or rename datastores also load the other one. Four requests fill the analysis
queue and its timers: one at work, one waiting, one that replaces it, one that
came too early. In `page` the list holds one trace besides the selected one, so
that the default trace and a pushed one already compete; two gestures are a run
and a move of the cursor, which with the cursor the page comes up with is what
the races over one key need. Deadlock is checked where processes never stop; the
browsers of `OpLog` and the user of `EditorPage` do a bounded number of things,
after which nothing is left to do.

### What the violated properties show

1. `FailuresSettle`: an SQL error in a handler aborts the transaction in which
   the failure would be recorded (`queue_worker.ml:181`).
2. `InOrder` with two servers: the check of the counter and the save are not one
   transaction (`serialize.ml:38`, `webserver.ml:743-783`). With one server it
   holds (`oplog_undo`). With any number so do the order of the judgments
   (`JudgedInOrder`) and that what a row has of a request is there once and
   together, with a savepoint for each edit (`EditsWhole`).
3. `OneAtATime`: the OCaml engine's queue asks a `busy` that nobody sets
   (`appsupport.js:212`), so that every program is posted at once. The F# queue
   keeps to it (`FSharpOneAtATime`).
4. `FreshAfterRun`: a run blows away the data of a trace that is being fetched;
   the new fetch is refused for its key, and the old answer is stored
   (`Main.ml:646`). `FreshUnlessRaced` is what holds instead.

Met while reading the code, and in the models, but asked by no run:

- the scheduler's UPDATE can have its snapshot before a rule and commit after the
  unscheduling (`event_queue.ml:339-359`), so that an event is run after the call
  to pause has returned; `QuietStaysQuiet` and `PausedGoesQuiet` are what holds;
- redos are refused depending on the order in which rows are loaded
  (`undo.ml:47`), and of datastores with one name only neighbours are found
  (`canvas.ml:273`);
- an event that cannot be parsed is fetched again by every dequeue, before those
  with greater ids (`queue_worker.ml:21`);
- a `CreateDBWithBlankOr` that arrives after the `DeleteTL` of its datastore is not
  filtered and brings it back (`op.ml:342`);
- the number of crons scheduled that a tick reports is that of the crons checked
  (`cron.ml:204`; the model has no counts);
- `visibilityCheck` passes `hidden` on as what is visible (`appsupport.js:479`), so
  that a page goes on polling in a hidden tab and stops when the tab comes back,
  until its window gets the focus; `StatsKeepComing` speaks of the visibility the
  page believes in;
- a link moves the cursor after `analyzeFocused` (`Main.ml:439-444`): the trace of
  the toplevel it leads to is fetched by whatever comes next (`FocusedIsFetched`
  asks for `analyzed`);
- a 404 for a toplevel that has been deleted meanwhile keeps its key for good
  (`Main.ml:1616`), so that the trace is not fetched for another toplevel either
  (`orphans` in `KeysAreHeld`);
- an answer of the analysis that cannot be decoded leaves `busy` set for good
  (`appsupport.js:253`; `lost` in `NewestIsShown`);
- `if (unsupportedBrowser)` tests the function, not its result
  (`appsupport.js:25`), and `reloadAllowed` allows a reload within 60 seconds of the
  last one and none later, against its comment (`Main.ml:342`); neither is modelled.

### Fairness

`EventQueue`: weak fairness of the scheduler's tick and commit (a loop that never
ends, restarted by Kubernetes), of the workers' dequeue and of every step of an
event (a worker loops for ever, a handler is taken to return, raise or fail), of
the passing of a delay (the clock) and of a caller's steps (a request that is
being handled). None of the faults, emits, pauses or deployments is fair.
`CronChecker`: weak fairness of the checker's steps (the loop sleeps a second and
starts again, whatever the tick returned) and of the clock; failures are bounded
by `MaxFaults`. `AnalysisQueue`: weak fairness of the load, of the timers, of the
worker's step and of the page's (event loops); none of requests and losses.
`EditorPage`: weak fairness of the load of the fetch worker, of its timers, of the
server's answer to each request and its arrival, of the saving of ops and of the
page's own timer; none of gestures, pushes, the list of all traces, runs or
failures. `OpLog` has no liveness property: a lost or refused request is
not repeated by anyone.

## 4. Proofs

TLAPS checks these for every value of the constants that satisfies the
assumptions named in the modules.

`EventQueueProofs`: `TypeCorrect`, `RowsAreExclusive`, `AttemptsAreCounted`,
`EmissionsAreAtomic`, `RetriesWait`, `RowsAreAccountedFor`, `QuietIsKept`,
`QueueFollowsLifecycle`. All rest on one inductive invariant, `IInv`: the types,
`ExclusiveRows`, `AttemptBudget`, `EmissionAtomic`, `RetryWaits` and `Bookkeeping`.
None is inductive alone. That a finished event is not run again needs that a row in
a worker is still `scheduled` (`ExclusiveRows`); that attempts are counted exactly
needs that only the worker with the row, or an unscheduling that has waited for
it, changes its status; atomic emission needs `Bookkeeping`, which says to which
attempt the uncommitted rows belong and that an id not handed out has no row; and
`RetryWaits` needs that what a running tick is about to schedule is `new`. The
proof has a lemma for each action. TLC checks each conjunct of `IInv` in `workers`
or `pausing`.

`CronCheckerProofs`: `TypeCorrect` and `BurstsAreBounded` for any finite set of
checkers, `AloneIsNeverEarly` under the assumption that there is one. The bound on
bursts follows from a count for each cron (`Counted`): while it is due, every
enqueue of its burst has a checker that is about to record it or a failure; once
somebody has recorded it, only those checkers still enqueue it that had found it
due before, and they are no more than the checkers that had not enqueued. That a
burst starts at nothing when the cron comes to be due is `AdvanceCounts`. The
invariant of the lone checker says that the age of the record is never more than
the time since the last enqueue (`RecordedAfter`) unless the record was lost or is
about to be written, and that a cron the checker is about to enqueue is still due
by the interval that it fetched (`AtCron`), whatever the developer has made of
it: nobody else records it between the check and the enqueue. The theorem says
nothing of a cron whose record was lost, see above; `BurstsAreBounded` does. With two
checkers `NoEarlyRun` is false, which is why `cron`, where there are two, does not
ask for it: it is proved and not run (TLC finds no violation of it with one).

`SubsequenceProofs` is what makes the folds of the model provable. The library's
induction theorems take an operator, so `Induct`, `InductTo`, `InductBack` and
`InductFront` say the same of a set: a set of numbers, or of lists, that has the
first and with each the next has them all. `Recursion` says that a function that
gives each value from the one before exists and is the only one; from it follow
the steps of `Kept`, of `Paired`, of the replay and of `Placed`. The facts about
`Kept` (`KeptAppend`, `KeptConcat`, `KeptAgain`, `KeptIsOnly`) are cited
everywhere else.

`UndoProofs`: `PreprocessOwn`, and what the refinement needs. `PreprocessOwn`
says that `preprocess` of a list in which the ops of many toplevels are mixed
is, for each toplevel, `preprocess` of its own, whenever that of the whole does
not fail. The second half reads a list of one toplevel as a timeline. `Then(a,
r, n)` is what is left of list a when n redos come after it; `HowMany` shows
that those n for which this does not fail are the first so many, so that
`Ahead`, what redoing will show, is a list. `Was`, what undoing will show, is
what there was before each savepoint that is left. An undo takes the last of
`Was` off and puts what was shown in front of `Ahead` (`UndoStep`, `AheadUndo`),
a redo goes the other way (`RedoStep`, `AheadRedo`; that it goes back to the
same list is `Undone`), and anything else clears `Ahead` and lengthens `Was` by
one if it is a savepoint (`EditStep`, `AheadEdit`). A savepoint changes nothing of
what is shown (`ShowsSave`), so that n of them put the same on `Was` n times
(`SavesBehind`, `Again`), and the edits after them leave it alone
(`EditsBehind`). `LongerIsStep` puts these together for what one request can add:
nothing, an undo or a redo, or any savepoints followed by one or more edits.

`OpLogProofs`, for any number of servers: `LogTyped`, `RowsRender`, `RowsHaveWhole`
and `LatestInOrder`. `LogInv` is the invariant: what is on the way was sent
(`ClientInv`), `op_ctrs` is between the last request judged the latest and the
last sent (`CountersInv`), rows in the table render by themselves (`RowsInv`),
and so do the rows a server is about to save (`JobsInv`). That last conjunct is
why `RenderedMatches` is not inductive alone: `Load` verifies the ops of all
toplevels of a request together, and `PreprocessOwn` is what makes a row that
was verified in company render alone.

`RowsHaveWhole` is what 36 servers still promise of a row, although a save may undo
another: what it has of a request is there once and together. Those are the
request's edits with as many savepoints in front of them all; an undo or redo; or
of a request that came late the ops that were kept, without savepoints and none
twice (`EditsWhole`). It rests on two more invariants. `WholeInv` says the same of a
request, also once it is filtered (`Whole`); `OwnPart` carries that over to the
ops that `add_ops` picks for a row, since the savepoints of a toplevel are as
many as its edits in every request (`Part`), and `AddedWhole` to the row they are
appended to. `OnceInv` is why nothing comes twice:
a request is on the way or with one server (`OnePlace`), and as long as it is
(`Waiting`) no list that is stored, or is about to be, has an op with its number.
What is about to be saved has to be in it, since a server may save a list it
computed long ago; that a new request has a new number (`NewNumber`) needs that
no op is ahead of its browser's counter (`IsUsed`).

For one server at a time (`LoneServer`): `AloneInOrder`, `AloneGrowsOnly` and
`AloneFollowsTimeline`. `LoneInv` adds that no op in a row that depends on its
order is from after the latest request of its browser (`StoredInv`), that a
request past the check is the latest or has nothing to order, and that what is
about to be saved is what is stored followed by the request's own ops
(`AtWorkInv`). The last is false with two servers, and `oplog_race` shows what
follows: the hypothesis cannot be dropped. The production system has 36 servers,
so these three theorems say what the algorithm does when requests do not meet,
and the run says what is lost when they do. `AloneFollowsTimeline` is the
refinement: `WholeInv` says that a request has of a toplevel savepoints and then as
many edits, or one undo or redo, or ops without savepoints, `LogTerms` that the mapping in `OpLog` is `Was` and
`Ahead` of each row, and `SaveFollows` that saving a row is one step of
`Timeline`; all other steps leave the rows alone.

`AnalysisQueueProofs`: `TypeCorrect`, `FSharpIsOneAtATime`, `NothingIsDropped`,
`AnswersGoForward` and `QueuesFollowLatestWins`. The invariant adds to the types
where the load can be (`BootOrder`: nothing is under way before the worker
listens), that `busy` stands for exactly one program that is posted, at work or
answered unless its answer was lost (`BusyMeansOne`), and that slots, channels and
timers hold programs in the order of the requests, except for those made during
the load (`UnderWayInOrder`). The refinement maps what is posted, answered and in
`next` to one queue; `Submit` takes a program and drops the one in `next`,
`Answer` answers the head, a lost answer is a loss, and the load stutters.

`Base64Proofs`: `TypeCorrect` and `WhatIsWrittenIsRead`. The invariant says of
each phase what it has done after g turns of its loop: the text is that of the
first 3g bytes (`Encodes`), padding and its removal change the tail only
(`IsText`), and the first 3g bytes that are read are those of the data. That
three bytes survive their four sextets is arithmetic (`GroupSurvives`), that the
buffer has the right length for each padding is `BufferFits`. `TextsAreTheRfcs`
and `BytesAreTheRfcs` compare with RFC 4648 at every length. The RFC's digits
are defined by division of a group's number, the code's by shifts and masks of
single bytes; that they agree on whole groups and on the ends is `RfcCharIsFour`
and `RfcByteIsThree`. `RfcInv` adds to `IInv` the two routes it says nothing of,
digests and texts from elsewhere: the bytes of the groups read so far are the
RFC's.

`EditorPageProofs`: `KeysAreAlwaysHeld`. The invariant has, in place of a count,
that no two unanswered requests share a key, wherever they are (`OnePerKey`), that
their keys are those in flight and not orphaned, and that the id is all of the key
of a trace (`TraceKeyed`), so that a 404 asks again under the key it holds.
`AttemptKeeps` is the heart: answers give keys back and new requests are taken on
in one update, as `ReceiveFetch` does it; every handler is then one of five shapes.

`PageTyped`, `DataIsKeptAlways` and `SelectedStaysAlways` rest on `PageInv`:
what the server has (`ServerInv`), what is on its way (`MessagesInv`), versions,
of which no trace has more than the runs that were started (`VersionsInv`), the
fetch worker (`FetchInv`) and what the page shows (`ViewInv`). The types are not
inductive alone: that no list has a trace twice, or one of another toplevel,
needs that nothing on its way has, and what comes is computed by the server from
what it stored. `PlacedFollows` and `WithinLimitKeeps` are the facts about the
two passes of `mergeTraces`, for lists of any length: every trace that was there
is placed, none twice, and the limit drops only others than the selected one.
`FreshUnlessRacedAlways` adds `FreshInv`: data in a list or in an answer on its
way is of the latest version, unless a run that made it old has not come back or
older data was on its way when it did.

Assumptions. Besides types and bounds: the toplevels of `OpLog` are finitely
many (one SELECT loads those of a request) and no handler is a datastore; in
`PageTraces` the ids of stored traces are none of the ids of default traces (a
default trace's id is a hash of the tlid, a stored one's is random), which stand
for themselves by their toplevel. The theorems about one server or one checker
say so in their statements.

Only model-checked:

- liveness (`EventsSettle`, `PausedGoesQuiet`, `DueCronsRun`, `NewestIsShown`,
  `BootEnds`, `FocusedIsFetched`, `StatsKeepComing`), which needs fairness and
  ENABLED, out of TLAPS's reach.

Every invariant and every action property of a passing run has its theorem.

## 5. Not modelled, and why

See `components` in `PROJECT.json` for each part. Parts left out altogether: the
stroller, which its README says is being phased out, and whose delays and losses
are in the pushes of `PageTraces`; packages, cloning, accounts, assets, datastores
and migrations, which are single statements or one transaction that no other part
meets; the interpreter and the structured editor, which are large sequential
functions; the F# backend other than what runs in the browser, which is not
deployed; routing and presentation in the webserver.

Left out of modelled parts: logging, statistics and tracing; the number of a
tick's rows; the Incomplete outcome, which nothing produces; in `OpLog`, types,
functions as toplevels of their own (a request that sets one has the shape of one
that sets a handler), deletion for ever, the schema migrations of a datastore
but for their columns, and whether a datastore has the column that an op is about;
in `PageTraces`, toplevels that are restored and functions that are deleted; what a
browser does with ops that come back from Pusher; the collector of traces; 404s
and what becomes of them; stats of datastores, which nothing asks for since
the call in `TimerFire` is commented out; a reload when the credentials
are refused; the selection of traces that the page restores when it loads, which
does what a click does; `WorkerStatsFetchMissing`, which no answer of the server
leads to; the second database connection and network failures between a process
and Postgres other than as a crash. Postgres itself is modelled by the
statements' documented behaviour under READ COMMITTED: snapshots per statement,
row locks until the end of the transaction, conditions evaluated again on a row
that was waited for.

## 6. Plan

What could come next, in this order:

1. `EventQueue`: handlers that open a transaction inside the worker's
   (`db.ml:385`, `canvas_clone.ml`), and what that does to `ExclusiveRows`.
2. `EditorSync`: composes `OpLog` with the browsers' side: optimistic updates,
   `filterOpsAndResult`, ops that come back in any order or never. Properties: the
   client's counters never run ahead, and what two browsers show once all is
   delivered.
3. `OpLog`: functions and types, deletion for ever, the routing columns that
   cron checker, workers and HTTP router read; composition with `CronChecker`.
4. `TraceStore`: storing against trimming, under the lists of `PageTraces`.
5. `Stroller`, `Packages` and `Migrations`: short modules, as long as the code is
   in use.
6. Proofs: lemmas for the modules above, as they come.
