---------------------------- MODULE MCFuseMount ----------------------------
(* FuseMount on two slots, which are interchangeable.                        *)
EXTENDS FuseMount, TLC

Symmetry == Permutations(Opened)
=============================================================================
