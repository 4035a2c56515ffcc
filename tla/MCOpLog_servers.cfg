SPECIFICATION Spec
CONSTANTS
  Browsers = {b1}
  Servers = {s1, s2}
  Handlers = {1}
  Datastores = {2, 3}
  Names = {users, posts}
  Edits = {"code", "create", "rename", "columns", "delete", "undo", "redo"}
  MaxEdits = 2
  MaxSends = 3
  MaxFaults = 1
SYMMETRY Symmetry
INVARIANTS TypeOK RenderedMatches EditsWhole
PROPERTIES JudgedInOrder
CHECK_DEADLOCK FALSE
