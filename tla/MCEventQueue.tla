---------------------------- MODULE MCEventQueue ----------------------------
(* Instances of EventQueue for TLC: the parts that are interchangeable.    *)
EXTENDS EventQueue, TLC

WorkerSymmetry == Permutations(Workers)

=============================================================================
