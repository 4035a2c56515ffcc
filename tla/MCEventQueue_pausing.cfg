\* Two API servers pause, block and release handlers while a worker runs, with
\* a fault: safety, and that everything settles.
CONSTANTS
  MaxEvents = 2
  Handlers = {h1}
  Workers = {w1}
  Callers = {c1, c2}
  Unreadable = {}
  FailingSql = {}
  MaxFaults = 1
SPECIFICATION FairSpec
INVARIANTS TypeOK ExclusiveRows AttemptBudget
PROPERTIES QuietStaysQuiet FollowsLifecycle EventsSettle PausedGoesQuiet
