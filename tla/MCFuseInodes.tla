---------------------------- MODULE MCFuseInodes ----------------------------
(* FuseInodes with interchangeable names, objects and handles.               *)
EXTENDS FuseInodes, TLC

Symmetry == Permutations(Names) \cup Permutations(Objects) \cup Permutations(Handles)
=============================================================================
