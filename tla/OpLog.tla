------------------------------- MODULE OpLog --------------------------------
(***************************************************************************)
(* How edits get into a canvas: browsers send lists of ops to /add_op, any *)
(* server takes a request (36 editor pods share one database), and the op  *)
(* list of each toplevel is one row of toplevel_oplists, rewritten whole,  *)
(* with the toplevel rendered from it.                                     *)
(*                                                                         *)
(* An action is one SQL statement of admin_add_op_handler (webserver.ml)   *)
(* with the computation after it; no transaction holds them together.      *)
(* Requests of a browser are not ordered, and may be lost.  op_ctrs is     *)
(* there to recognise a request that was overtaken by a later one.         *)
(*                                                                         *)
(* Toplevels are numbered by their tlid: handlers and datastores.          *)
(***************************************************************************)
EXTENDS Undo, FiniteSets

CONSTANTS
  Browsers,     \* editor sessions, each with a clientOpCtrId
  Servers,      \* processes that serve the admin API
  Handlers,     \* tlids of handlers
  Datastores,   \* tlids of datastores
  Names,        \* names a datastore may be given
  Edits,        \* what the users of the browsers do
  MaxEdits,     \* bound on the edits of a request
  MaxSends,     \* bound on the requests of a browser
  MaxFaults     \* bound on server crashes

Toplevels == Handlers \cup Datastores

ASSUME TlidAssumption ==
  Toplevels \subseteq Nat /\ IsFiniteSet(Toplevels) /\ Handlers \cap Datastores = {}
ASSUME EditsAssumption ==
  Edits \subseteq {"code", "create", "rename", "columns", "delete", "undo", "redo"}
ASSUME BoundAssumption == MaxEdits \in Nat /\ MaxSends \in Nat /\ MaxFaults \in Nat

VARIABLES
  sent,      \* the browsers' own counters: requests sent
  net,       \* requests no server has taken yet
  known,     \* toplevels that some browser has made
  ctr,       \* op_ctrs.ctr of each browser, 0 if there is no record
  rows,      \* toplevel_oplists: the op list and the rendered toplevel
  pc,        \* where each server is in admin_add_op_handler
  job,       \* the request it handles, filtered if that came late
  saves,     \* rows it has still to write
  faults,    \* crashes so far
  latest     \* history: the last request of a browser judged the latest

client == <<sent, net, known>>
server == <<pc, job, saves>>
vars == <<client, ctr, rows, server, faults, latest>>

NoJob == [from |-> NoName, ctr |-> 0, ops |-> <<>>]
NoSaves == <<>>
NoRow == [ops |-> <<>>, shown |-> Nothing]

(* A toplevel from before there were savepoints.                           *)
Old == <<"old", 0>>

OldRow(t) ==
  [ops |-> <<Plain("set", t, Old)>>,
   shown |-> [by |-> Old, name |-> NoName, gone |-> FALSE]]

Init ==
  /\ sent = [b \in Browsers |-> 0]
  /\ net = {}
  /\ known \in SUBSET Handlers
  /\ ctr = [b \in Browsers |-> 0]
  /\ rows = [t \in Toplevels |-> IF t \in known THEN OldRow(t) ELSE NoRow]
  /\ pc = [s \in Servers |-> "idle"]
  /\ job = [s \in Servers |-> NoJob]
  /\ saves = [s \in Servers |-> NoSaves]
  /\ faults = 0
  /\ latest = [b \in Browsers |-> 0]

-----------------------------------------------------------------------------
(* Encoders.ops: every op gets a savepoint, but for a lone undo or redo.   *)
Encoded(ops) ==
  IF Len(ops) = 1 /\ ops[1].kind \in {"undo", "redo"} THEN ops
  ELSE [i \in DOMAIN ops |-> Plain("save", ops[i].tl, ops[i].by)] \o ops

(* What a user can do, as the lists of ops that the editor makes of it.    *)
(* Code: one handler's, or several ops of a refactoring, two of which can  *)
(* be about the same toplevel.                                             *)
Sets(ts, by) == {Plain("set", t, by) : t \in ts}

CodeEdits(by) == SeqOf(Sets(Handlers, by), MaxEdits) \ {<<>>}

(* createNewDB: a datastore has a new tlid, and a first column.  Its name  *)
(* is one that no datastore has as far as the browser knows, which does    *)
(* not hear at once of what the others do: any may be taken.               *)
Creations(by) ==
  {<<Op("create", t, n, by), Plain("addcol", t, by)>> : t \in Datastores \ known, n \in Names}

(* A new name, and the handlers that mention the datastore, each once.     *)
Namings(by) == {Op("rename", t, n, by) : t \in Datastores \cap known, n \in Names}

Mentions(by) == {l \in SeqOf(Sets(Handlers \cap known, by), MaxEdits - 1) : IsInjective(l)}

Renames(by) == UNION {{<<op>> \o mentions : mentions \in Mentions(by)} : op \in Namings(by)}

(* Another column; a type for one, which adds the next blank one; another  *)
(* type.                                                                   *)
ColumnEdits(by) ==
  UNION {{<<Plain("addcol", t, by)>>,
          <<Plain("retype", t, by)>>,
          <<Plain("coltype", t, by), Plain("addcol", t, by)>>,
          <<Plain("retype", t, by), Plain("addcol", t, by)>>} : t \in Datastores \cap known}

Changes(edit, by) ==
  CASE edit = "code" -> CodeEdits(by)
    [] edit = "create" -> Creations(by)
    [] edit = "rename" -> Renames(by)
    [] edit = "columns" -> ColumnEdits(by)
    [] OTHER -> {<<Plain(edit, t, by)>> : t \in known}

Send(b) ==
  /\ sent[b] < MaxSends
  /\ sent' = [sent EXCEPT ![b] = @ + 1]
  /\ \E edit \in Edits : \E ops \in Changes(edit, <<b, sent[b] + 1>>) :
       /\ net' = net \cup {[from |-> b, ctr |-> sent[b] + 1, ops |-> Encoded(ops)]}
       /\ known' = known \cup Tlids(ops)
  /\ UNCHANGED <<ctr, rows, server, faults, latest>>

-----------------------------------------------------------------------------
(* is_latest_op_request.                                                   *)

Take(s, r) ==
  /\ pc[s] = "idle"
  /\ r \in net
  /\ net' = net \ {r}
  /\ pc' = [pc EXCEPT ![s] = "counted"]
  /\ job' = [job EXCEPT ![s] = r]
  /\ UNCHANGED <<sent, known, rows, saves, faults, latest>>

(* Mutant: the counter is set to that of the last request to arrive.       *)
ReceiveAny(s, r) ==
  /\ Take(s, r)
  /\ ctr' = [ctr EXCEPT ![r.from] = r.ctr]

(* INSERT .. ON CONFLICT DO UPDATE .. WHERE op_ctrs.ctr < EXCLUDED.ctr.    *)
Receive(s, r) ==
  /\ Take(s, r)
  /\ ctr' = [ctr EXCEPT ![r.from] = IF @ < r.ctr THEN r.ctr ELSE @]

(* Mutant: savepoints are kept as well.                                    *)
OrderFreeSaves(op) == op.kind \in {"save", "create", "delete", "addcol", "coltype"}

(* Op.filter_ops_received_out_of_order.                                    *)
OrderFree(op) == op.kind \in {"create", "delete", "addcol", "coltype"}

(* Mutant: the kinds of ops are not filtered.                              *)
FilterLateNot(ops) == ops

FilterLate(ops) == Kept(ops, {i \in DOMAIN ops : OrderFree(ops[i])})

(* SELECT 1 FROM op_ctrs WHERE browser_id = $1 AND ctr = $2.               *)
CheckLatest(s) ==
  LET r == job[s] IN
  /\ pc[s] = "counted"
  /\ pc' = [pc EXCEPT ![s] = "checked"]
  /\ IF ctr[r.from] = r.ctr
     THEN /\ latest' = [latest EXCEPT ![r.from] = r.ctr]
          /\ UNCHANGED job
     ELSE /\ job' = [job EXCEPT ![s].ops = FilterLate(r.ops)]
          /\ UNCHANGED latest
  /\ UNCHANGED <<client, ctr, rows, saves, faults>>

-----------------------------------------------------------------------------
(* Canvas.load_only_tlids or load_with_dbs.                                *)

NeedsDatastores(ops) ==
  \E i \in DOMAIN ops : ops[i].kind \in {"undo", "redo", "create", "rename"}

(* The rows the SELECT returns, in any order.  A row whose toplevel was    *)
(* undone away has the type of a handler.                                  *)
Wanted(ops) ==
  {t \in Toplevels : /\ rows[t] # NoRow
                     /\ \/ t \in Tlids(ops)
                        \/ /\ NeedsDatastores(ops)
                           /\ t \in Datastores
                           /\ rows[t].shown # Nothing}

Loaded(order) == FlattenSeq([i \in DOMAIN order |-> rows[order[i]].ops])

(* Canvas.verify: names are compared with those of the next datastore only.*)
Verified(reduced) ==
  LET here == {t \in Datastores : Live(Replayed(reduced, t))}
      name == [t \in here |-> Replayed(reduced, t).name]
  IN  ~\E t, u \in here :
         /\ t < u
         /\ name[t] = name[u]
         /\ \A v \in here : v <= t \/ v >= u

(* Mutants: the row has the ops of the whole request, or those that undos  *)
(* left over.                                                              *)
NewRowShared(t, ops, reduced) ==
  [ops |-> rows[t].ops \o ops, shown |-> Replayed(reduced, t)]

NewRowReduced(t, ops, reduced) ==
  [ops |-> Own(reduced, t), shown |-> Replayed(reduced, t)]

(* The row of t after the request: add_ops and serialize_only.             *)
NewRow(t, ops, reduced) ==
  [ops |-> rows[t].ops \o Own(ops, t), shown |-> Replayed(reduced, t)]

Back(s) ==
  /\ pc' = [pc EXCEPT ![s] = "idle"]
  /\ job' = [job EXCEPT ![s] = NoJob]
  /\ saves' = [saves EXCEPT ![s] = NoSaves]

(* All the ops were filtered away: nothing is loaded, nothing saved.       *)
NothingToDo(s) ==
  /\ pc[s] = "checked"
  /\ job[s].ops = <<>>
  /\ Back(s)
  /\ UNCHANGED <<client, ctr, rows, faults, latest>>

Accept(s, result) ==
  /\ result.ok
  /\ Verified(result.ops)
  /\ pc' = [pc EXCEPT ![s] = "saving"]
  /\ saves' = [saves EXCEPT ![s] =
       [t \in Tlids(job[s].ops) |-> NewRow(t, job[s].ops, result.ops)]]
  /\ UNCHANGED <<client, ctr, rows, job, faults, latest>>

(* An exception, or a Bad_request: only the counter has changed.           *)
Reject(s, result) ==
  /\ ~(result.ok /\ Verified(result.ops))
  /\ Back(s)
  /\ UNCHANGED <<client, ctr, rows, faults, latest>>

Load(s) ==
  /\ pc[s] = "checked"
  /\ job[s].ops # <<>>
  /\ \E order \in SetToSeqs(Wanted(job[s].ops)) :
       \E result \in {Preprocess(Loaded(order) \o job[s].ops)} :
         Accept(s, result) \/ Reject(s, result)

-----------------------------------------------------------------------------
(* Canvas.save_tlids: one statement for each toplevel of the request.      *)
Save(s, t) ==
  /\ pc[s] = "saving"
  /\ t \in DOMAIN saves[s]
  /\ rows' = [rows EXCEPT ![t] = saves[s][t]]
  /\ IF DOMAIN saves[s] = {t}
     THEN Back(s)
     ELSE /\ saves' = [saves EXCEPT ![s] = [u \in DOMAIN @ \ {t} |-> @[u]]]
          /\ UNCHANGED <<pc, job>>
  /\ UNCHANGED <<client, ctr, faults, latest>>

ServerDies(s) ==
  /\ pc[s] # "idle"
  /\ faults < MaxFaults
  /\ faults' = faults + 1
  /\ Back(s)
  /\ UNCHANGED <<client, ctr, rows, latest>>

-----------------------------------------------------------------------------
Handle(s) ==
  \/ \E r \in net : Receive(s, r)
  \/ CheckLatest(s)
  \/ NothingToDo(s)
  \/ Load(s)
  \/ \E t \in Toplevels : Save(s, t)

Next ==
  \/ \E b \in Browsers : Send(b)
  \/ \E s \in Servers : Handle(s) \/ ServerDies(s)

Spec == Init /\ [][Next]_vars

-----------------------------------------------------------------------------
(* Types.                                                                  *)
TypeOK ==
  /\ sent \in [Browsers -> 0..MaxSends]
  /\ \A r \in net : r.from \in Browsers /\ r.ctr \in 1..sent[r.from]
  /\ known \subseteq Toplevels
  /\ \A b \in Browsers : ctr[b] \in 0..sent[b] /\ latest[b] \in 0..ctr[b]
  /\ DOMAIN rows = Toplevels
  /\ \A t \in Toplevels : Tlids(rows[t].ops) \subseteq {t}
  /\ pc \in [Servers -> {"idle", "counted", "checked", "saving"}]
  /\ \A s \in Servers :
       /\ pc[s] = "idle" <=> job[s] = NoJob
       /\ pc[s] # "saving" <=> saves[s] = NoSaves
       /\ DOMAIN saves[s] \subseteq Tlids(job[s].ops)
  /\ faults \in 0..MaxFaults

(* However the requests interleave, a row can be replayed by itself, and   *)
(* gives the toplevel that was stored rendered with it, although both were *)
(* computed from the rows of other toplevels too (add_ops, serialize_only).*)
RenderedMatches ==
  \A t \in Toplevels :
    LET alone == Preprocess(rows[t].ops)
    IN  alone.ok /\ rows[t].shown = Replayed(alone.ops, t)

(* The requests of a browser that are taken for its latest are taken in    *)
(* the order it sent them, whichever servers they reach.                   *)
JudgedInOrder ==
  [][\A b \in Browsers : latest'[b] # latest[b] => latest'[b] > latest[b]]_vars

(* "to guard against ops being processed there out of order": ops that     *)
(* depend on their order are stored in the order their browser sent them.  *)
InOrder ==
  \A t \in Toplevels : \A j \in DOMAIN rows[t].ops : \A i \in 1..(j - 1) :
    LET p == rows[t].ops[i]
        q == rows[t].ops[j]
    IN  p.by[1] = q.by[1] /\ ~OrderFree(p) /\ ~OrderFree(q) => p.by[2] <= q.by[2]

(* Whatever servers overwrite, the ops of a request are in a row at most   *)
(* once and together: its edits, with a savepoint for each in front of     *)
(* them all, so that undos take them back and nothing else; or an undo or  *)
(* redo; or what was kept of a late request, without savepoints, no op of  *)
(* it twice (Encoders.ops, filter_ops_received_out_of_order, add_ops).     *)
EditsWhole ==
  \A t \in Toplevels : \A j \in DOMAIN rows[t].ops :
    LET ops == rows[t].ops
    IN  \E first, edit, last \in DOMAIN ops :
          /\ \A i \in DOMAIN ops : ops[i].by = ops[j].by <=> i \in first..last
          /\ \A i \in first..last : ops[i].kind = "save" <=> i < edit
          /\ \/ edit - first = last + 1 - edit
             \/ first = last /\ (ops[j].by = Old \/ ops[j].kind \in {"undo", "redo"})
             \/ first = edit /\ \A i \in first..last :
                  OrderFree(ops[i]) /\ \A k \in first..(i - 1) : ops[k] # ops[i]

(* An op that was stored stays, and in its place.                          *)
GrowsOnly ==
  [][\A t \in Toplevels : IsPrefix(rows[t].ops, rows'[t].ops)]_vars

-----------------------------------------------------------------------------
(* The rows implement a timeline for each toplevel: what undoing shows is  *)
(* what came before the savepoints of the reduced list, what redoing shows *)
(* is what the list gives with redos at its end.                           *)
WithRedos(t, n) ==
  Preprocess(rows[t].ops \o [i \in 1..n |-> Plain("redo", t, <<>>)])

Past(t) ==
  LET Before(reduced) ==
        [i \in DOMAIN reduced |-> Replayed(SubSeq(reduced, 1, i - 1), t)]
      Savepoints(reduced) == {i \in DOMAIN reduced : reduced[i].kind = "save"}
      Seen(reduced, before) ==
        Kept(before, {i \in Savepoints(reduced) :
                        \E j \in Savepoints(reduced) : j <= i /\ before[j] # Nothing})
  IN  Once(WithRedos(t, 0).ops, LAMBDA r : Once(Before(r), LAMBDA b : Seen(r, b)))

Future(t) ==
  LET undone == {n \in 1..Len(rows[t].ops) : WithRedos(t, n).ok}
  IN  [n \in undone |-> Replayed(WithRedos(t, n).ops, t)]

History == INSTANCE Timeline WITH
  past <- [t \in Toplevels |-> Past(t)],
  present <- [t \in Toplevels |-> rows[t].shown],
  future <- [t \in Toplevels |-> Future(t)]

FollowsTimeline == History!Spec

=============================================================================
