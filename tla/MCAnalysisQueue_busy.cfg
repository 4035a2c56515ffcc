\* The default engine.
CONSTANTS
  evalWorker = evalWorker
  stdlib = stdlib
  symbols = symbols
  Engines = {FALSE}
  Assemblies = {evalWorker, stdlib, symbols}
  Pdbs = {symbols}
  Entry = evalWorker
  MaxFaults = 0
  MaxRequests = 2
SPECIFICATION Spec
CHECK_DEADLOCK FALSE
INVARIANT OneAtATime
