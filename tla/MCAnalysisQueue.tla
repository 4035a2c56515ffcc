-------------------------- MODULE MCAnalysisQueue ---------------------------
(* Instances of AnalysisQueue for TLC.                                     *)
EXTENDS AnalysisQueue

CONSTANTS evalWorker, stdlib, symbols

=============================================================================
