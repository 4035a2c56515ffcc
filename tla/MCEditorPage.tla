---------------------------- MODULE MCEditorPage ----------------------------
EXTENDS EditorPage

CONSTANTS h, f, w, t

\* A handler that calls a function, and a worker on a canvas of its own.
MCHandles == [x \in Traces |-> h]
MCCalls == [x \in Toplevels |-> IF x = h THEN {f} ELSE {}]
MCCanvases == {{h, f}, {w}}
=============================================================================
