\* Either engine, a boot with an assembly and a symbol file, two faults.
CONSTANTS
  evalWorker = evalWorker
  stdlib = stdlib
  symbols = symbols
  Engines = {TRUE, FALSE}
  Assemblies = {evalWorker, stdlib, symbols}
  Pdbs = {symbols}
  Entry = evalWorker
  MaxFaults = 2
  MaxRequests = 4
SPECIFICATION FairSpec
CHECK_DEADLOCK FALSE
INVARIANTS TypeOK FSharpOneAtATime NothingDropped
PROPERTIES NoStepBack NewestIsShown BootEnds FollowsLatestWins
