SPECIFICATION Spec
CONSTANTS
  h = h
  f = f
  w = w
  t = t
  None = None
  Toplevels = {h, f, w}
  Traces = {t}
  Handles <- MCHandles
  Calls <- MCCalls
  Canvases <- MCCanvases
  Workers = {w}
  TooLargeIDs = {w}
  MaxTraces = 1
  MaxGestures = 2
  MaxFaults = 1
INVARIANT FreshAfterRun
CHECK_DEADLOCK FALSE
