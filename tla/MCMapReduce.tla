---------------------------- MODULE MCMapReduce ----------------------------
(* MapReduce for TLC: worker processes are interchangeable. *)
EXTENDS MapReduce, TLC

Symmetry == Permutations(Proc)
============================================================================
