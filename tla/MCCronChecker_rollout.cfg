\* Two checkers, as during a roll-out, and a failure.
CONSTANTS
  Crons = {edited, daily}
  Edited = {edited}
  Intervals <- MCIntervals
  Longest = 1
  Checkers = {p1, p2}
  MaxFaults = 1
SPECIFICATION FairSpec
INVARIANTS TypeOK BurstBound
PROPERTIES DueCronsRun
