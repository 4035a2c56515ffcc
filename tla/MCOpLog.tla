------------------------------ MODULE MCOpLog -------------------------------
(* Instances of OpLog for TLC: the parts that are interchangeable.         *)
EXTENDS OpLog

Symmetry == Permutations(Servers) \cup Permutations(Names)

=============================================================================
