\* Two workers on four events, one of which nobody can read and one whose
\* handler always fails an SQL statement; a crash or a scheduler restart.
CONSTANTS
  MaxEvents = 4
  Handlers = {h1}
  Workers = {w1, w2}
  Callers = {}
  Unreadable = {4}
  FailingSql = {2}
  MaxFaults = 1
SPECIFICATION Spec
SYMMETRY WorkerSymmetry
INVARIANTS ExclusiveRows AttemptBudget EmissionAtomic RetryWaits Bookkeeping
