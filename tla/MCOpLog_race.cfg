SPECIFICATION Spec
CONSTANTS
  Browsers = {b1}
  Servers = {s1, s2}
  Handlers = {1}
  Datastores = {2}
  Names = {users}
  Edits = {"code"}
  MaxEdits = 1
  MaxSends = 2
  MaxFaults = 0
INVARIANT InOrder
CHECK_DEADLOCK FALSE
