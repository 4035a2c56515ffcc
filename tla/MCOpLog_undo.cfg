SPECIFICATION Spec
CONSTANTS
  Browsers = {b1}
  Servers = {s1}
  Handlers = {1}
  Datastores = {2}
  Names = {users}
  Edits = {"code", "create", "columns", "delete", "undo", "redo"}
  MaxEdits = 1
  MaxSends = 4
  MaxFaults = 0
PROPERTIES FollowsTimeline GrowsOnly
INVARIANTS InOrder
CHECK_DEADLOCK FALSE
