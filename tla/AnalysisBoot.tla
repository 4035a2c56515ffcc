---------------------------- MODULE AnalysisBoot ----------------------------
(***************************************************************************)
(* How the editor page gets the web worker that analyses programs.         *)
(*                                                                         *)
(* Without "use-blazor" in the URL, appsupport.js fetches two scripts and  *)
(* makes a worker of their text.  With it, BlazorWorker.js makes a worker  *)
(* at once, which fetches the manifest of a .NET program, starts its       *)
(* runtime and loads every assembly the manifest lists before it listens   *)
(* to messages and tells the page so.  Each assembly is a run dependency   *)
(* of Emscripten, which goes on when none is left.                         *)
(***************************************************************************)
EXTENDS Integers, Sequences, FiniteSets

CONSTANTS
  Engines,      \* values of useBlazor this page may be opened with
  Assemblies,   \* what the manifest lists: assemblies and symbol files
  Pdbs,         \* the symbol files, which need not exist
  Entry,        \* the assembly with Wasm.EvalWorker
  MaxFaults     \* bound on failed loads and lost answers

Scripts == {"/analysis.js", "/analysiswrapper.js"}

ASSUME EnginesAssumption == Engines \subseteq BOOLEAN
ASSUME AssembliesAssumption == Pdbs \subseteq Assemblies /\ Entry \in Assemblies \ Pdbs
ASSUME FaultsAssumption == MaxFaults \in Nat

VARIABLES
  useBlazor,    \* Dark.analysis.useBlazor
  boot,         \* "fetching", "manifest", "assemblies", "ready" or "failed"
  waiting,      \* scripts, or run dependencies, that have not arrived
  missing,      \* those that never will
  listening,    \* the worker has an onmessage handler
  greeting,     \* "darkWebWorkerInitializedMessage" is on its way
  initialized,  \* fsharpAnalysis.initialized
  faults

engine == <<useBlazor, boot, waiting, missing, listening, greeting, initialized>>

BootInit ==
  /\ useBlazor \in Engines
  /\ boot = IF useBlazor THEN "manifest" ELSE "fetching"
  /\ waiting = IF useBlazor THEN {} ELSE Scripts
  /\ missing = {}
  /\ listening = FALSE
  /\ greeting = FALSE
  /\ initialized = FALSE
  /\ faults = 0

Fault ==
  /\ faults < MaxFaults
  /\ faults' = faults + 1

-----------------------------------------------------------------------------
(* The OCaml engine: window.analysisWorker is set when both have arrived.  *)
ScriptArrives(s) ==
  /\ boot = "fetching"
  /\ s \in waiting
  /\ waiting' = waiting \ {s}
  /\ boot' = IF waiting' = {} THEN "ready" ELSE boot
  /\ listening' = (waiting' = {})
  /\ UNCHANGED <<useBlazor, missing, greeting, initialized, faults>>

(* A rejected fetch rejects the function that awaits it: no worker.        *)
ScriptFails(s) ==
  /\ boot = "fetching"
  /\ s \in waiting
  /\ Fault
  /\ boot' = "failed"
  /\ missing' = {s}
  /\ UNCHANGED <<useBlazor, waiting, listening, greeting, initialized>>

-----------------------------------------------------------------------------
(* blazor.boot.json is there, and dotnet.js and dotnet.wasm after it: the  *)
(* pre-run hook makes every assembly a run dependency and asks for it.     *)
DotnetStarts ==
  /\ boot = "manifest"
  /\ boot' = "assemblies"
  /\ waiting' = Assemblies
  /\ UNCHANGED <<useBlazor, missing, listening, greeting, initialized, faults>>

(* No manifest, or no dotnet.js in it: an error on the console.            *)
DotnetFails ==
  /\ boot = "manifest"
  /\ Fault
  /\ boot' = "failed"
  /\ UNCHANGED <<useBlazor, waiting, missing, listening, greeting, initialized>>

AssemblyLoads(a) ==
  /\ boot = "assemblies"
  /\ a \in waiting \ missing
  /\ waiting' = waiting \ {a}
  /\ UNCHANGED <<useBlazor, boot, missing, listening, greeting, initialized, faults>>

(* Mutant: only a missing symbol file stops being waited for.              *)
AssemblyFailsBlocks(a) ==
  /\ boot = "assemblies"
  /\ a \in waiting
  /\ Fault
  /\ missing' = missing \cup {a}
  /\ waiting' = IF a \in Pdbs THEN waiting \ {a} ELSE waiting
  /\ UNCHANGED <<useBlazor, boot, listening, greeting, initialized>>

(* Whatever the error, the run dependency is removed.                      *)
AssemblyFails(a) ==
  /\ boot = "assemblies"
  /\ a \in waiting
  /\ Fault
  /\ missing' = missing \cup {a}
  /\ waiting' = waiting \ {a}
  /\ UNCHANGED <<useBlazor, boot, listening, greeting, initialized>>

(* The post-run hook: the runtime is loaded, onReady binds OnMessage, sets *)
(* the handler and sends the greeting.                                     *)
PostRun ==
  /\ boot = "assemblies"
  /\ waiting = {}
  /\ Entry \notin missing
  /\ boot' = "ready"
  /\ listening' = TRUE
  /\ greeting' = TRUE
  /\ UNCHANGED <<useBlazor, waiting, missing, initialized, faults>>

(* The runtime, or the binding, needs an assembly that is not there.       *)
PostRunThrows ==
  /\ boot = "assemblies"
  /\ waiting = {}
  /\ missing \ Pdbs # {}
  /\ boot' = "failed"
  /\ UNCHANGED <<useBlazor, waiting, missing, listening, greeting, initialized, faults>>

(* The page's handler tells the greeting from an answer.                   *)
Greeted ==
  /\ greeting
  /\ greeting' = FALSE
  /\ initialized' = TRUE
  /\ UNCHANGED <<useBlazor, boot, waiting, missing, listening, faults>>

-----------------------------------------------------------------------------
BootStep ==
  \/ \E s \in Scripts : ScriptArrives(s)
  \/ DotnetStarts
  \/ \E a \in Assemblies : AssemblyLoads(a)
  \/ PostRun
  \/ PostRunThrows
  \/ Greeted

BootFails ==
  \/ \E s \in Scripts : ScriptFails(s)
  \/ DotnetFails
  \/ \E a \in Assemblies : AssemblyFails(a)

LoadTypeOK ==
  /\ boot \in {"fetching", "manifest", "assemblies", "ready", "failed"}
  /\ waiting \subseteq Scripts \cup Assemblies
  /\ missing \subseteq Scripts \cup Assemblies
  /\ faults \in 0..MaxFaults

FlagTypeOK ==
  /\ useBlazor \in Engines
  /\ listening \in BOOLEAN
  /\ greeting \in BOOLEAN
  /\ initialized \in BOOLEAN

BootTypeOK == LoadTypeOK /\ FlagTypeOK

(* Mutant: the F# worker is taken for loaded as soon as it exists.         *)
LoadedAtOnce == IF useBlazor THEN TRUE ELSE boot = "ready"

(* What requestAnalysis asks before it hands a request over.               *)
Loaded == IF useBlazor THEN initialized ELSE boot = "ready"

=============================================================================
