\* One event whose handler always fails an SQL statement, no other fault.
CONSTANTS
  MaxEvents = 1
  Handlers = {h1}
  Workers = {w1}
  Callers = {}
  Unreadable = {}
  FailingSql = {1}
  MaxFaults = 0
SPECIFICATION FairSpec
PROPERTY FailuresSettle
